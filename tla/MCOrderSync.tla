---------------------------- MODULE MCOrderSync ----------------------------
(* Instances of OrderSync for TLC: two users, u1 with the Kraken key k1 and  *)
(* the Binance key k3, u2 with the Kraken key k2; k1 and k2 may hold the     *)
(* credentials of the same account.                                          *)
EXTENDS OrderSync, TLC

CONSTANTS u1, u2, k2, k3, a1

MCKeyOwner == [k \in Keys |-> IF k = k2 THEN u2 ELSE u1]
MCKeyAccount == [k \in Keys |-> a1]
MCSyncableKeys == Keys \ {k3}

Symmetry == Permutations(OrderIds) \cup Permutations(Syncs)
=============================================================================
