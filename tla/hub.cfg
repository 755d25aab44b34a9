SPECIFICATION FairSpec
CONSTANTS
  Session = {s1, s2}
  Publisher = {p1, p2}
  MaxPayloads = 2
  Capacity = 1
  None = None
INVARIANTS HubInv NothingLeaks
PROPERTIES HubIsAFeed CutOffIsDisconnected
CHECK_DEADLOCK FALSE
