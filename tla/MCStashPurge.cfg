SPECIFICATION Spec
CONSTANTS
  TempEndpoint = {}
  PrivEndpoint = {p1}
  Request = {r1, r2}
  Secret = {}
  Owner = {o1, o2}
  Cron = cron
  TempLimit = 2
  PrivLimit = 2
  TempTtl = 2
  PrivTtl = 1
  OrphanMinAge = 2
  PrivRetention = 2
  MaxTime = 1
  StoreBy = 0
  CreateBy = 0
  MaxFailures = 1
  PageSize = 1
  BatchSize = 2
  AmbiguousInsert = FALSE
SYMMETRY StashSymmetry
INVARIANTS
  ReadableEventsHaveObjects
PROPERTIES
  ObjectsGoFirst
  LedgerPromise
