SPECIFICATION Spec
CONSTANTS
  TempEndpoint = {}
  PrivEndpoint = {p1}
  Request = {r1}
  Secret = {s1, s2}
  Owner = {o1, o2}
  Cron = cron
  TempLimit = 2
  PrivLimit = 2
  TempTtl = 2
  PrivTtl = 1
  OrphanMinAge = 2
  PrivRetention = 2
  MaxTime = 1
  StoreBy = 0
  CreateBy = 0
  MaxFailures = 0
  PageSize = 1
  BatchSize = 2
  AmbiguousInsert = FALSE
SYMMETRY StashSymmetry
INVARIANTS
  AnswersAreTrue
PROPERTIES
  SecretsGuardEvents
