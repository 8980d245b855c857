---------------------------- MODULE MCAccessKeys ----------------------------
(* Instances of AccessKeys for TLC. *)
EXTENDS AccessKeys, TLC

\* Every kind of credentials, on an exchange that asks for them to tell its
\* status and on one that does not.
EveryKind ==
  [exchange : {"KRAKEN", "BINANCE"},
   valid : BOOLEAN, canReadBalance : BOOLEAN]

\* One that is accepted.
OneCredential ==
  { [exchange |-> "KRAKEN", valid |-> TRUE, canReadBalance |-> FALSE] }

Symmetry ==
  Permutations(Users) \cup Permutations(Requests) \cup Permutations(KeyIds)
=============================================================================
