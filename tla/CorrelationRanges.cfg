SPECIFICATION Spec
CONSTANTS
  MaxId = 8
  MaxRanges = 3
INVARIANTS
  Separated
  HistoryExact
  RefusalExact
CHECK_DEADLOCK FALSE
