SPECIFICATION MCSpec
CONSTANTS
  Steps = {1, 2, 3, 6, 12}
  Hour = 6
  Ticks = 2
  MaxTime = 15
  Budgets = {1, 2, 4, 7}
  Day = 4
  LastDate = 3
  Unknown = Unknown
  Refused = Refused
INVARIANTS
  ChartTrue
  WholeDays
CHECK_DEADLOCK FALSE
