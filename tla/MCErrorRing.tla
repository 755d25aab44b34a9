---------------------------- MODULE MCErrorRing ----------------------------
(* Small instances of ErrorRing for TLC. *)
EXTENDS ErrorRing, TLC

ReporterSymmetry == Permutations(Reporter)
=============================================================================
