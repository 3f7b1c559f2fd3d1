----------------------------- MODULE MCPaneLease -----------------------------
(***************************************************************************)
(* PaneLease on a small instance: one pane, connections of one scope that  *)
(* resume each other and one of another scope that takes over.             *)
(***************************************************************************)
EXTENDS PaneLease, TLC

CONSTANTS NumIds

MCIds == 1 .. NumIds
Symmetry == Permutations(Conns) \cup Permutations(Scopes) \cup Permutations(Identities)
=============================================================================
