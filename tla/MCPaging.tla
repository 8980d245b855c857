------------------------------ MODULE MCPaging ------------------------------
(* Instances of Paging for TLC. *)
EXTENDS Paging, TLC

Symmetry == Permutations(Users)
=============================================================================
