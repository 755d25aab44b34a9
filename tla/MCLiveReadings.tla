--------------------------- MODULE MCLiveReadings ---------------------------
(* Small instances of LiveReadings for TLC. *)
EXTENDS LiveReadings, TLC

Symmetry == Permutations(Transformer) \cup Permutations(Chain)
=============================================================================
