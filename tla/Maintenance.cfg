SPECIFICATION Spec
CONSTANTS
  Work = {w1, w2, w3}
  BatchSize = 1
  MaxTransactions = 4
  MaxFailures = 2
PROPERTIES
  PauseMeansDone
  BacklogWorkedOff
  StopNoticed
CHECK_DEADLOCK FALSE
