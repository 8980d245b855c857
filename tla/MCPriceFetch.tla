---------------------------- MODULE MCPriceFetch ----------------------------
(* Instances of PriceFetch for TLC. *)
EXTENDS PriceFetch, TLC

Utc0 == [at |-> 0, by |-> 0]
AnyClock == { Utc0, [at |-> 2, by |-> -1], [at |-> 2, by |-> 1] }
SteadyClock == { Utc0 }
=============================================================================
