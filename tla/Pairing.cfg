SPECIFICATION Spec
CONSTANTS
  Invites = {i1, i2}
  Instances = {a, b, c}
  Secrets = {s1, s2}
  Tokens = {t1, t2, t3}
  Names = {n1, n2}
  Nil = Nil
  MaxClock = 2
  TTL = 1
  ExpiredRetention = 0
  DeniedRetention = 1
  CleanupBatch = 1
  MaxInvites = 2
  MaxRetained = 3
  MaxPending = 2
  MaxPerDevice = 1
SYMMETRY Symmetry
INVARIANTS
  OneInvitePerInstance
  AuthorityAgrees
  ActiveRequestRetriable
  PendingTokenUnissued
  NamesAgree
  PendingBounded
PROPERTIES
  ReactivatedByOwnInvite
  RequestOutcomeFinal
