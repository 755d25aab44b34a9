---------------------------- MODULE MCApiClient ----------------------------
(* An instance of ApiClient in which tabs and sessions are interchangeable. *)
EXTENDS ApiClient, TLC

Symmetry == Permutations(Tabs) \cup Permutations(Sessions)
=============================================================================
