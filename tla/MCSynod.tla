------------------------------- MODULE MCSynod -------------------------------
(* The slot, opened in Phase II by the node with the least id. *)
EXTENDS SynodInv, TLC

ValueSymmetry == Permutations(Value)
=============================================================================
