SPECIFICATION FairSpec
CONSTANTS
  Calls = {c1, c2}
  Hosts = {a}
  Reports = {r1, r2}
  Nil = Nil
  MaxToken = 1
  QueueCapacity = 2
  BatchSize = 2
  MaxPerHost = 2
  HostRows = 1
  Shortage = TRUE
INVARIANT CapacityKept
PROPERTIES
  StoredUnderLiveToken
  PermitReturned
  DrainCompletes
CHECK_DEADLOCK FALSE
