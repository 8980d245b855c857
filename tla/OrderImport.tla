---------------------------- MODULE OrderImport ----------------------------
(***************************************************************************)
(* What importing orders promises, without windows, pages, lookups or a    *)
(* clock.  An import looks once at the orders it owes, then adds its       *)
(* orders to the table in one step and reports it.  One that is abandoned  *)
(* before it has handed them over changes nothing, one abandoned later may *)
(* leave all of them in the table or none, but never a part.  Users add,   *)
(* remove and rename orders at any time.                                   *)
(***************************************************************************)
CONSTANTS OrderIds, Syncs

VARIABLES
  stored,   \* the orders in the table
  phase,    \* of each import
  owed,     \* the orders it has to account for
  gone      \* the orders users took out of the table since it was asked

vars == <<stored, phase, owed, gone>>

Init ==
  /\ stored = {}
  /\ phase = [s \in Syncs |-> "waiting"]
  /\ owed = [s \in Syncs |-> {}]
  /\ gone = [s \in Syncs |-> {}]

Look(s, W) ==
  /\ phase[s] = "waiting"
  /\ phase' = [phase EXCEPT ![s] = "owing"]
  /\ owed' = [owed EXCEPT ![s] = W]
  /\ UNCHANGED <<stored, gone>>

\* A doubtful import has been abandoned, and its orders are added all the same.
Import(s, B) ==
  /\ phase[s] \in {"owing", "doubtful"}
  /\ owed[s] \subseteq stored \cup B \cup gone[s]
  /\ stored' = stored \cup B
  /\ phase' = [phase EXCEPT ![s] = IF @ = "owing" THEN "stored" ELSE "kept"]
  /\ UNCHANGED <<owed, gone>>

Report(s) ==
  /\ phase[s] = "stored"
  /\ phase' = [phase EXCEPT ![s] = "imported"]
  /\ UNCHANGED <<stored, owed, gone>>

\* One import fails, or a restart takes several with it.  Those in D have handed
\* their orders over.
Abandon(S, D) ==
  /\ \A s \in S \cap D : phase[s] = "owing"
  /\ \A s \in S : phase[s] \in {"waiting", "owing", "stored"}
  /\ phase' = [s \in Syncs |-> IF s \notin S THEN phase[s]
                               ELSE IF phase[s] = "stored" THEN "kept"
                               ELSE IF s \in D THEN "doubtful"
                               ELSE "abandoned"]
  /\ UNCHANGED <<stored, owed, gone>>

Add(o) ==
  /\ stored' = stored \cup {o}
  /\ UNCHANGED <<phase, owed, gone>>

\* Imports not asked for yet (those outside A) do not see the removal.
Remove(o, new, A) ==
  /\ stored' = (stored \ {o}) \cup new
  /\ gone' = [s \in Syncs |-> IF s \in A THEN gone[s] \cup {o} ELSE gone[s]]
  /\ \A s \in Syncs : phase[s] # "waiting" => s \in A
  /\ UNCHANGED <<phase, owed>>

Next ==
  \/ \E s \in Syncs, W \in SUBSET OrderIds : Look(s, W)
  \/ \E s \in Syncs, B \in SUBSET OrderIds : Import(s, B)
  \/ \E s \in Syncs : Report(s)
  \/ \E S, D \in SUBSET Syncs : Abandon(S, D)
  \/ \E o \in OrderIds : Add(o)
  \/ \E o \in OrderIds, A \in SUBSET Syncs : Remove(o, {}, A)
  \/ \E o, p \in OrderIds, A \in SUBSET Syncs : Remove(o, {p}, A)

Spec == Init /\ [][Next]_vars
=============================================================================
