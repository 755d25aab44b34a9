SPECIFICATION PanelSpec
CONSTANTS
  User = {u1, u2}
  Transformer = {t1, t2}
  MeterId = {m1, m2}
  RegisterId = {g1}
  Counted = {n1}
  Caller = {c1, c2}
  None = None
SYMMETRY Symmetry
INVARIANTS
  PagesInv QuietListsAreCurrent
  TransformersAreCurrent TotalsAreCurrent DetailIsOfSelection
PROPERTY DeletesStayBelowSelection
CHECK_DEADLOCK FALSE
