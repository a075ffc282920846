SPECIFICATION FairSpec
CONSTANTS
  MaxEvents = 4
  Follower = {f1}
  MaxLive = 2
  MaxTop = 3
  MaxRemovals = 1
  MaxFaults = 1
  CatchUpLimit = 2
  CatchUpWindow = 2
  ListLimit = 2
  LastCount = {0, 1}
  Command = {"stream", "tail", "tail_body"}
CHECK_DEADLOCK FALSE
INVARIANTS
  SentOncePerConnection
  GapsHaveACause
PROPERTIES
  EverythingArrives
