------------------------------- MODULE MCAuth -------------------------------
(* Instances of Auth for TLC. *)
EXTENDS Auth, TLC

Symmetry ==
  Permutations(Clients) \cup Permutations(Emails) \cup Permutations(Ids)
    \cup Permutations(Requests)
=============================================================================
