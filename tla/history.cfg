SPECIFICATION Spec
CONSTANTS
  Minute = 2
  LastTime = 5
  MaxSamples = 4
  Limit = 2
INVARIANTS HistoryIsComplete PagingInv
PROPERTY PagingEnds
CHECK_DEADLOCK FALSE
