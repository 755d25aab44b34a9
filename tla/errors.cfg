SPECIFICATION RingSpec
CONSTANTS
  Reporter = {p1, p2, p3}
  Keep = 2
  Times = {1, 2, 3, 4}
  MaxReports = 6
  Free = Free
SYMMETRY ReporterSymmetry
INVARIANTS RingInv NewestKeptWhileClocksAgree KeepsTheLatestTimes LatestListedFirst
CHECK_DEADLOCK FALSE
