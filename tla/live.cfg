SPECIFICATION Spec
CONSTANTS
  Transformer = {t1, t2}
  Chain = {c1, c2}
  MaxReadings = 2
  MaxLoads = 2
  MaxConnects = 2
  None = None
SYMMETRY Symmetry
INVARIANTS ViewOfSelection ReadingsInv QuietViewIsComplete
PROPERTY HistoryTakesNothingAway
CHECK_DEADLOCK FALSE
