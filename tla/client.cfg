SPECIFICATION Spec
CONSTANTS
  Tabs = {t1, t2}
  Sessions = {s1, s2}
  None = None
  Calls = {me, w}
  Me = me
  MaxTokens = 2
  MaxBusy = 1
INVARIANTS ActedOnce ClientInv SignedOutMeansEmpty
PROPERTIES NoLateToken GivenUpForCause
SYMMETRY Symmetry
CHECK_DEADLOCK FALSE
