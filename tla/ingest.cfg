SPECIFICATION Spec
CONSTANTS
  Writer = {w1, w2}
  Bucket = {b1, b2}
  Value <- TwoReadings
  MaxCount = 3
  LegacyCount = 1
  MaxAttempts = 2
  Null = Null
SYMMETRY WriterAndBucketSymmetry
INVARIANTS AggregateIsExact AverageWithinRange IngestInv
PROPERTY IngestIsALog
CHECK_DEADLOCK FALSE
