SPECIFICATION FairSpec
CONSTANTS
  UserId = {u1}
  TransformerId = {1, 2}
  MeterId = {m1}
  RegisterId = {}
  SessionId = {s1}
  Request = {r1, r2}
  Operations <- WaitingOperations
  MaxAttempts = 2
  Adjoins <- AllAdjoin
  NoRow = NoRow
  Free = Free
PROPERTY RequestsFinish
CHECK_DEADLOCK FALSE
