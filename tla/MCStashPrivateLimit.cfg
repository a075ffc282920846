SPECIFICATION Spec
CONSTANTS
  TempEndpoint = {}
  PrivEndpoint = {p1}
  Request = {r1, r2}
  Secret = {}
  Owner = {}
  Cron = cron
  TempLimit = 1
  PrivLimit = 1
  TempTtl = 2
  PrivTtl = 3
  OrphanMinAge = 2
  PrivRetention = 2
  MaxTime = 1
  StoreBy = 0
  CreateBy = 0
  MaxFailures = 0
  PageSize = 1
  BatchSize = 2
  AmbiguousInsert = FALSE
INVARIANTS
  PrivateStoredWithinLimit
