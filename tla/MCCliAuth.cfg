SPECIFICATION Spec
CONSTANTS
  Process = {p1, p2, p3}
  Session = {s0, s1}
  First = s0
  DeviceLifetime = 2
  AccessLifetime = 2
  SessionIdle = 2
  SessionAbsolute = 5
  RefreshWindow = 1
  LastTick = 2
  MaxFaults = 2
SYMMETRY CliSymmetry
CHECK_DEADLOCK FALSE
INVARIANTS
  LockSharedOnlyAfterACrash
  NoSelfInflictedReuse
  LoggedOutStaysOut
  SessionsStayManageable
CONSTRAINT FirstFaultCrashes
