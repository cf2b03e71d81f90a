SPECIFICATION MCSpec
CONSTANTS
  Sources = {x, y}
  Identifiers = {p}
  Hosts = {g, h, i}
  Threads = {t1, t2}
  Nil = Nil
  SourceBurst = 2
  SourceRefill = 1
  SourceCapacity = 1
  IdentifierBurst = 1
  IdentifierRefill = 1
  IdentifierCapacity = 1
  HostBurst = 2
  HostRefill = 1
  HostCapacity = 2
  EntryTTL = 2
  MaxClock = 3
SYMMETRY Symmetry
INVARIANTS
  RateBounded
  RetryAfterSuffices
CHECK_DEADLOCK FALSE
