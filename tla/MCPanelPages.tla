---------------------------- MODULE MCPanelPages ----------------------------
(* A small instance of PanelPages for TLC. *)
EXTENDS PanelPages, TLC

Symmetry ==
  Permutations(User) \cup Permutations(Transformer) \cup Permutations(MeterId)
    \cup Permutations(RegisterId) \cup Permutations(Counted) \cup Permutations(Caller)
=============================================================================
