SPECIFICATION Spec
CONSTANTS
  UserId = {u1, u2}
  TransformerId = {1, 2}
  MeterId = {m1}
  RegisterId = {g1}
  SessionId = {s1, s2}
  Request = {r1, r2}
  Operations <- SafetyOperations
  MaxAttempts = 1
  Adjoins <- AllAdjoin
  NoRow = NoRow
  Free = Free
SYMMETRY Symmetry
INVARIANTS NoOrphans  StoreInv
PROPERTY DeletesStayInScope
CHECK_DEADLOCK FALSE
