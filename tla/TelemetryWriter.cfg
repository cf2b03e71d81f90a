SPECIFICATION Spec
CONSTANTS
  Calls = {c1, c2, c3}
  Hosts = {a, b}
  Reports = {r1}
  Nil = Nil
  MaxToken = 0
  QueueCapacity = 2
  BatchSize = 2
  MaxPerHost = 2
  HostRows = 1
  Shortage = FALSE
SYMMETRY Symmetry
INVARIANTS
  QueueBounded
  GracefulStopAnswersAll
PROPERTIES
  DeliveryKept
  OriginalRowKept
  ReceiptsTrue
CHECK_DEADLOCK FALSE
