-------------------------- MODULE MCMetricsIngest --------------------------
(* A small instance of MetricsIngest for TLC. *)
EXTENDS MetricsIngest, TLC

TwoReadings == {-1, 3}
WriterAndBucketSymmetry == Permutations(Writer) \cup Permutations(Bucket)
=============================================================================
