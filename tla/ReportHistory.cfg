SPECIFICATION Spec
CONSTANTS
  Hosts = {a}
  Reports = {1, 2, 3}
  Metric <- MCMetric
  Nil = Nil
  MaxClock = 3
  Skew = 2
  Hour = 2
  RawRetention = 1
  AggregateRetention = 2
  BatchSize = 2
INVARIANTS
  LatestStored
  LatestIsNewest
PROPERTIES
  InOrderReportShown
  SamplesConserved
  IdKeptForWindow
  ExpiredHourIsOld
CHECK_DEADLOCK FALSE
