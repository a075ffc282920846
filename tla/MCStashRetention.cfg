SPECIFICATION FairSpec
CONSTANTS
  TempEndpoint = {}
  PrivEndpoint = {p1}
  Request = {r1, r2}
  Secret = {}
  Owner = {}
  Cron = cron
  TempLimit = 1
  PrivLimit = 2
  TempTtl = 2
  PrivTtl = 3
  OrphanMinAge = 1
  PrivRetention = 1
  MaxTime = 2
  StoreBy = 1
  CreateBy = 0
  MaxFailures = 1
  PageSize = 1
  BatchSize = 2
  AmbiguousInsert = TRUE
PROPERTIES
  OrphansRemoved
  ObjectsGoFirst
  LedgerPromise
  PrivateCountsRecover
