SPECIFICATION FairSpec
CONSTANTS
  TempEndpoint = {}
  PrivEndpoint = {p1}
  Request = {r1}
  Secret = {s1}
  Owner = {o1}
  Cron = cron
  TempLimit = 1
  PrivLimit = 2
  TempTtl = 1
  PrivTtl = 1
  OrphanMinAge = 2
  PrivRetention = 2
  MaxTime = 2
  StoreBy = 0
  CreateBy = 0
  MaxFailures = 1
  PageSize = 1
  BatchSize = 2
  AmbiguousInsert = FALSE
PROPERTIES
  OrphansRemoved
  ExpiredEndpointsRemoved
