SPECIFICATION Spec
CONSTANTS
  TempEndpoint = {t1}
  PrivEndpoint = {}
  Request = {r1, r2, r3}
  Secret = {}
  Owner = {}
  Cron = cron
  TempLimit = 2
  PrivLimit = 2
  TempTtl = 2
  PrivTtl = 2
  OrphanMinAge = 2
  PrivRetention = 2
  MaxTime = 3
  StoreBy = 1
  CreateBy = 0
  MaxFailures = 1
  PageSize = 1
  BatchSize = 2
  AmbiguousInsert = FALSE
SYMMETRY StashSymmetry
INVARIANTS
  TypeOK
  TemporaryCapacity
  NoSlotLeak
  ReadableEventsHaveObjects
  AnswersAreTrue
  RefusalsLeaveNoObject
PROPERTIES
  LedgerPromise
