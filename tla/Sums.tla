-------------------------------- MODULE Sums --------------------------------
(***************************************************************************)
(* Sums over finite sets, as OrderSync and PriceFetch write them with the  *)
(* fold of Functions: what the proofs that counts add up need to know.     *)
(* The induction over the cardinality of a set speaks of sets instead of   *)
(* predicates, for the provers instantiate no theorem with an operator as  *)
(* its parameter.                                                          *)
(***************************************************************************)
EXTENDS Integers, FiniteSets, Functions, FiniteSetTheorems,
        WellFoundedInduction, TLAPS

-----------------------------------------------------------------------------
(* Induction, from the smallest element of a set of naturals               *)

LEMMA Smallest ==
  ASSUME NEW T \in SUBSET Nat, T # {}
  PROVE  \E m \in T : \A n \in T : m <= n
<1>1. IsWellFoundedOn(OpToRel(<, Nat), Nat)
  BY NatLessThanWellFounded
<1>2. PICK m \in T : \A n \in T : <<n, m>> \notin OpToRel(<, Nat)
  BY <1>1, WFMin
<1>3. ASSUME NEW n \in T
      PROVE  m <= n
  <2>1. <<n, m>> \notin {ss \in Nat \X Nat : ss[1] < ss[2]}
    BY <1>2 DEF OpToRel
  <2>2. ~(n < m)
    BY <2>1
  <2> QED
    BY <2>2
<1> QED
  BY <1>3

LEMMA EveryNatural ==
  ASSUME NEW P, 0 \in P, \A n \in Nat : n \in P => n + 1 \in P
  PROVE  \A n \in Nat : n \in P
<1> SUFFICES ASSUME Nat \ P # {}
             PROVE  FALSE
  OBVIOUS
<1>1. PICK m \in Nat \ P : \A n \in Nat \ P : m <= n
  <2>1. Nat \ P \in SUBSET Nat
    OBVIOUS
  <2> QED
    BY <2>1, Smallest
<1>2. m # 0
  BY <1>1
<1>3. m - 1 \in Nat /\ ~(m <= m - 1) /\ (m - 1) + 1 = m
  BY <1>1, <1>2
<1>4. m - 1 \in P
  BY <1>1, <1>3
<1> QED
  BY <1>1, <1>3, <1>4

-----------------------------------------------------------------------------
(* The fold                                                                *)

Chosen(s) == CHOOSE x \in s : TRUE

\* What a fold adds at s, from what it has at smaller sets.
FoldStep(g, fn, s) ==
  IF s = {} THEN 0 ELSE g[Chosen(s)] + fn[s \ {Chosen(s)}]

LEMMA ChosenIn ==
  ASSUME NEW s, s # {}
  PROVE  Chosen(s) \in s
  BY DEF Chosen

LEMMA OneLess ==
  ASSUME NEW S, IsFiniteSet(S), NEW s \in SUBSET S, NEW x \in s, NEW n \in Nat,
         Cardinality(s) <= n + 1
  PROVE  /\ s \ {x} \in SUBSET S /\ Cardinality(s \ {x}) <= n
<1>1. IsFiniteSet(s) /\ Cardinality(s) \in Nat
  BY FS_Subset, FS_CardinalityType
<1>2. Cardinality(s \ {x}) = Cardinality(s) - 1
  BY <1>1, FS_RemoveElement
<1> QED
  BY <1>1, <1>2

LEMMA SmallerWithout ==
  ASSUME NEW S, IsFiniteSet(S), NEW s \in SUBSET S, NEW x \in s
  PROVE  /\ s \ {x} \in SUBSET s /\ Cardinality(s \ {x}) < Cardinality(s)
<1>1. IsFiniteSet(s) /\ Cardinality(s) \in Nat
  BY FS_Subset, FS_CardinalityType
<1>2. Cardinality(s \ {x}) = Cardinality(s) - 1
  BY <1>1, FS_RemoveElement
<1> QED
  BY <1>1, <1>2

LEMMA FoldExists ==
  ASSUME NEW S, IsFiniteSet(S), NEW g, \A x \in S : g[x] \in Nat
  PROVE  \E fn : fn = [s \in SUBSET S |-> FoldStep(g, fn, s)]
<1> DEFINE Upto(fn, n) == \A s \in SUBSET S :
                            Cardinality(s) <= n => fn[s] = FoldStep(g, fn, s)
           P == {n \in Nat : \E fn \in [SUBSET S -> Nat] : Upto(fn, n)}
<1>0. \A s \in SUBSET S : IsFiniteSet(s) /\ Cardinality(s) \in Nat
  BY FS_Subset, FS_CardinalityType
<1>1. 0 \in P
  <2> DEFINE fn == [s \in SUBSET S |-> 0]
  <2>1. fn \in [SUBSET S -> Nat]
    OBVIOUS
  <2>2. ASSUME NEW s \in SUBSET S, Cardinality(s) <= 0
        PROVE  fn[s] = FoldStep(g, fn, s)
    <3>1. Cardinality(s) = 0
      BY <1>0, <2>2
    <3>2. s = {}
      BY <1>0, <3>1, FS_EmptySet
    <3> QED
      BY <3>2 DEF FoldStep
  <2> QED
    BY <2>1, <2>2
<1>2. ASSUME NEW n \in Nat, n \in P
      PROVE  n + 1 \in P
  <2>1. PICK fn \in [SUBSET S -> Nat] : Upto(fn, n)
    BY <1>2
  <2> DEFINE hn == [s \in SUBSET S |-> FoldStep(g, fn, s)]
  <2>2. ASSUME NEW s \in SUBSET S
        PROVE  FoldStep(g, fn, s) \in Nat
    <3>1. s # {} => Chosen(s) \in S /\ s \ {Chosen(s)} \in SUBSET S
      BY ChosenIn
    <3>2. s # {} => g[Chosen(s)] \in Nat /\ fn[s \ {Chosen(s)}] \in Nat
      BY <3>1
    <3> QED
      BY <3>2 DEF FoldStep
  <2>3. hn \in [SUBSET S -> Nat]
    BY <2>2
  <2>4. ASSUME NEW s \in SUBSET S, Cardinality(s) <= n + 1
        PROVE  hn[s] = FoldStep(g, hn, s)
    <3>1. CASE s = {}
      BY <3>1 DEF FoldStep
    <3>2. CASE s # {}
      <4>1. Chosen(s) \in s
        BY <3>2, ChosenIn
      <4>2. PICK t : t = s \ {Chosen(s)}
        OBVIOUS
      <4>3. t \in SUBSET S /\ Cardinality(t) <= n
        BY <2>4, <4>1, <4>2, OneLess
      <4>4. hn[t] = FoldStep(g, fn, t) /\ fn[t] = FoldStep(g, fn, t)
        BY <2>1, <4>3
      <4>5. hn[s] = FoldStep(g, fn, s)
        OBVIOUS
      <4> HIDE DEF hn
      <4> QED
        BY <3>2, <4>2, <4>4, <4>5 DEF FoldStep
    <3> QED
      BY <3>1, <3>2
  <2>5. Upto(hn, n + 1)
    BY <2>4
  <2> HIDE DEF hn
  <2> QED
    BY <2>3, <2>5
<1> HIDE DEF P
<1>3. \A n \in Nat : n \in P
  BY <1>1, <1>2, EveryNatural
<1>4. Cardinality(S) \in P
  BY <1>0, <1>3
<1>5. PICK fn \in [SUBSET S -> Nat] : Upto(fn, Cardinality(S))
  BY <1>4 DEF P
<1>6. \A s \in SUBSET S : Cardinality(s) <= Cardinality(S)
  BY FS_Subset
<1>7. \A s \in SUBSET S : fn[s] = FoldStep(g, fn, s)
  BY <1>5, <1>6
<1>8. fn = [s \in SUBSET S |-> FoldStep(g, fn, s)]
  BY <1>7
<1> QED
  BY <1>8

Folded(g, S) == CHOOSE fn : fn = [s \in SUBSET S |-> FoldStep(g, fn, s)]

LEMMA FoldIs ==
  ASSUME NEW S, NEW g
  PROVE  SumFunctionOnSet(g, S) = Folded(g, S)[S]
BY DEF SumFunctionOnSet, FoldFunctionOnSet, MapThenFoldSet, Folded, FoldStep, Chosen

LEMMA FoldedStep ==
  ASSUME NEW S, IsFiniteSet(S), NEW g, \A x \in S : g[x] \in Nat
  PROVE  \A s \in SUBSET S : Folded(g, S)[s] = FoldStep(g, Folded(g, S), s)
<1>1. Folded(g, S) = [s \in SUBSET S |-> FoldStep(g, Folded(g, S), s)]
  BY FoldExists DEF Folded
<1> QED
  BY <1>1

LEMMA ByCardinality ==
  ASSUME NEW S, IsFiniteSet(S), NEW Q,
         \A s \in SUBSET S :
           (\A t \in SUBSET s : Cardinality(t) < Cardinality(s) => t \in Q)
             => s \in Q
  PROVE  \A s \in SUBSET S : s \in Q
<1> DEFINE P == {n \in Nat : \A s \in SUBSET S : Cardinality(s) < n => s \in Q}
<1>0. \A s \in SUBSET S : Cardinality(s) \in Nat
  BY FS_Subset, FS_CardinalityType
<1>1. 0 \in P
  BY <1>0
<1>2. ASSUME NEW n \in Nat, n \in P
      PROVE  n + 1 \in P
  <2>1. ASSUME NEW s \in SUBSET S, Cardinality(s) < n + 1
        PROVE  s \in Q
    <3>1. ASSUME NEW t \in SUBSET s, Cardinality(t) < Cardinality(s)
          PROVE  t \in Q
      <4>1. t \in SUBSET S
        OBVIOUS
      <4>2. Cardinality(t) \in Nat /\ Cardinality(s) \in Nat
        BY <1>0, <4>1
      <4>3. Cardinality(t) < n
        BY <2>1, <3>1, <4>2
      <4> QED
        BY <1>2, <4>1, <4>3
    <3> QED
      BY <3>1
  <2> QED
    BY <2>1
<1> HIDE DEF P
<1>3. \A n \in Nat : n \in P
  BY <1>1, <1>2, EveryNatural
<1>4. ASSUME NEW s \in SUBSET S
      PROVE  s \in Q
  <2>1. Cardinality(s) + 1 \in P /\ Cardinality(s) < Cardinality(s) + 1
    BY <1>0, <1>3
  <2> QED
    BY <2>1 DEF P
<1> QED
  BY <1>4

LEMMA FoldedType ==
  ASSUME NEW S, IsFiniteSet(S), NEW g, \A x \in S : g[x] \in Nat
  PROVE  \A s \in SUBSET S : Folded(g, S)[s] \in Nat
<1> DEFINE Q == {s \in SUBSET S : Folded(g, S)[s] \in Nat}
<1>1. ASSUME NEW s \in SUBSET S,
             \A t \in SUBSET s : Cardinality(t) < Cardinality(s) => t \in Q
      PROVE  s \in Q
  <2>1. Folded(g, S)[s] = FoldStep(g, Folded(g, S), s)
    BY FoldedStep
  <2>2. CASE s = {}
    BY <2>1, <2>2 DEF FoldStep
  <2>3. CASE s # {}
    <3>1. Chosen(s) \in s
      BY <2>3, ChosenIn
    <3>2. s \ {Chosen(s)} \in SUBSET s
          /\ Cardinality(s \ {Chosen(s)}) < Cardinality(s)
      BY <3>1, SmallerWithout
    <3>3. Folded(g, S)[s \ {Chosen(s)}] \in Nat /\ g[Chosen(s)] \in Nat
      BY <1>1, <3>1, <3>2
    <3> QED
      BY <2>1, <2>3, <3>3 DEF FoldStep
  <2> QED
    BY <2>2, <2>3
<1> HIDE DEF Q
<1>2. \A s \in SUBSET S : s \in Q
  BY <1>1, ByCardinality
<1> QED
  BY <1>2 DEF Q

\* Any element may be taken first.
LEMMA FoldedWithout ==
  ASSUME NEW S, IsFiniteSet(S), NEW g, \A x \in S : g[x] \in Nat
  PROVE  \A s \in SUBSET S, x \in S :
           x \in s => Folded(g, S)[s] = g[x] + Folded(g, S)[s \ {x}]
<1> DEFINE F == Folded(g, S)
           Q == {s \in SUBSET S : \A x \in s : F[s] = g[x] + F[s \ {x}]}
<1>1. ASSUME NEW s \in SUBSET S,
             \A t \in SUBSET s : Cardinality(t) < Cardinality(s) => t \in Q
      PROVE  s \in Q
  <2>1. ASSUME NEW x \in s
        PROVE  F[s] = g[x] + F[s \ {x}]
    <3>1. PICK y \in s : y = Chosen(s)
      BY ChosenIn
    <3>2. F[s] = g[y] + F[s \ {y}]
      BY <3>1, FoldedStep DEF FoldStep
    <3>3. CASE x # y
      <4>1. /\ s \ {x} \in SUBSET s /\ Cardinality(s \ {x}) < Cardinality(s)
            /\ s \ {y} \in SUBSET s /\ Cardinality(s \ {y}) < Cardinality(s)
        BY SmallerWithout
      <4>2. s \ {x} \in Q /\ s \ {y} \in Q
        BY <1>1, <4>1
      <4>3. PICK r \in SUBSET S : r = (s \ {x}) \ {y} /\ r = (s \ {y}) \ {x}
        OBVIOUS
      <4>4. F[s \ {x}] = g[y] + F[r] /\ F[s \ {y}] = g[x] + F[r]
        BY <3>3, <4>2, <4>3
      <4>5. g[x] \in Nat /\ g[y] \in Nat /\ F[r] \in Nat
        BY FoldedType
      <4> HIDE DEF F
      <4>6. PICK m, n, i \in Nat : m = g[x] /\ n = g[y] /\ i = F[r]
        BY <4>5
      <4>7. F[s] = n + (m + i) /\ F[s \ {x}] = n + i
        BY <3>2, <4>4, <4>6
      <4>8. n + (m + i) = m + (n + i)
        OBVIOUS
      <4> QED
        BY <4>6, <4>7, <4>8
    <3> QED
      BY <3>2, <3>3
  <2> QED
    BY <2>1
<1> HIDE DEF Q
<1>2. \A s \in SUBSET S : s \in Q
  BY <1>1, ByCardinality
<1> QED
  BY <1>2 DEF Q

\* The fold over a part looks at that part only.
LEMMA FoldedPart ==
  ASSUME NEW S, IsFiniteSet(S), NEW g, \A x \in S : g[x] \in Nat,
         NEW T \in SUBSET S, NEW h, \A x \in T : h[x] = g[x]
  PROVE  Folded(g, S)[T] = Folded(h, T)[T]
<1> DEFINE Q == {s \in SUBSET T : Folded(g, S)[s] = Folded(h, T)[s]}
<1>0. IsFiniteSet(T) /\ \A x \in T : h[x] \in Nat
  BY FS_Subset
<1>1. ASSUME NEW s \in SUBSET T,
             \A t \in SUBSET s : Cardinality(t) < Cardinality(s) => t \in Q
      PROVE  s \in Q
  <2>1. Folded(g, S)[s] = FoldStep(g, Folded(g, S), s)
    BY FoldedStep
  <2>2. Folded(h, T)[s] = FoldStep(h, Folded(h, T), s)
    BY <1>0, FoldedStep
  <2>3. CASE s = {}
    BY <2>1, <2>2, <2>3 DEF FoldStep
  <2>4. CASE s # {}
    <3>1. Chosen(s) \in s
      BY <2>4, ChosenIn
    <3>2. s \ {Chosen(s)} \in SUBSET s
          /\ Cardinality(s \ {Chosen(s)}) < Cardinality(s)
      BY <1>0, <3>1, SmallerWithout
    <3>3. Folded(g, S)[s \ {Chosen(s)}] = Folded(h, T)[s \ {Chosen(s)}]
          /\ g[Chosen(s)] = h[Chosen(s)]
      BY <1>1, <3>1, <3>2
    <3> QED
      BY <2>1, <2>2, <2>4, <3>3 DEF FoldStep
  <2> QED
    BY <2>3, <2>4
<1> HIDE DEF Q
<1>2. \A s \in SUBSET T : s \in Q
  BY <1>0, <1>1, ByCardinality
<1> QED
  BY <1>2 DEF Q

-----------------------------------------------------------------------------
(* What the sums of the library are                                        *)

LEMMA SumIsNatural ==
  ASSUME NEW S, IsFiniteSet(S), NEW g, \A x \in S : g[x] \in Nat
  PROVE  SumFunctionOnSet(g, S) \in Nat
BY FoldIs, FoldedType

LEMMA SumOfNone ==
  ASSUME NEW g
  PROVE  SumFunctionOnSet(g, {}) = 0
<1>1. IsFiniteSet({})
  BY FS_EmptySet
<1>2. Folded(g, {})[{}] = FoldStep(g, Folded(g, {}), {})
  BY <1>1, FoldedStep
<1> QED
  BY <1>2, FoldIs DEF FoldStep

LEMMA SumOfSame ==
  ASSUME NEW S, IsFiniteSet(S), NEW g, \A x \in S : g[x] \in Nat,
         NEW h, \A x \in S : h[x] = g[x]
  PROVE  SumFunctionOnSet(h, S) = SumFunctionOnSet(g, S)
<1>1. Folded(g, S)[S] = Folded(h, S)[S]
  BY FoldedPart
<1> QED
  BY <1>1, FoldIs

LEMMA SumWithout ==
  ASSUME NEW S, IsFiniteSet(S), NEW g, \A x \in S : g[x] \in Nat, NEW x \in S
  PROVE  SumFunctionOnSet(g, S) = g[x] + SumFunctionOnSet(g, S \ {x})
<1>1. Folded(g, S)[S] = g[x] + Folded(g, S)[S \ {x}]
  BY FoldedWithout
<1>2. Folded(g, S)[S \ {x}] = Folded(g, S \ {x})[S \ {x}]
  BY FoldedPart
<1> QED
  BY <1>1, <1>2, FoldIs

\* One more summand, the others as they were.
LEMMA SumWithOneMore ==
  ASSUME NEW S, IsFiniteSet(S), NEW g, \A x \in S : g[x] \in Nat,
         NEW x, x \notin S, NEW h, \A y \in S : h[y] = g[y], h[x] \in Nat
  PROVE  SumFunctionOnSet(h, S \cup {x}) = h[x] + SumFunctionOnSet(g, S)
<1>1. IsFiniteSet(S \cup {x})
  BY FS_AddElement
<1>2. (S \cup {x}) \ {x} = S
  OBVIOUS
<1>3. \A y \in S \cup {x} : h[y] \in Nat
  OBVIOUS
<1>4. SumFunctionOnSet(h, S \cup {x})
        = h[x] + SumFunctionOnSet(h, (S \cup {x}) \ {x})
  BY <1>1, <1>3, SumWithout
<1> QED
  BY <1>2, <1>4, SumOfSame

\* One summand grows, the others stay as they were.
LEMMA SumWithMore ==
  ASSUME NEW S, IsFiniteSet(S), NEW g, \A y \in S : g[y] \in Nat,
         NEW x \in S, NEW n \in Nat, NEW h, h[x] = g[x] + n,
         \A y \in S \ {x} : h[y] = g[y]
  PROVE  SumFunctionOnSet(h, S) = SumFunctionOnSet(g, S) + n
<1>1. IsFiniteSet(S \ {x})
  BY FS_RemoveElement
<1>2. \A y \in S : h[y] \in Nat
  BY g[x] + n \in Nat
<1>3. SumFunctionOnSet(g, S) = g[x] + SumFunctionOnSet(g, S \ {x})
      /\ SumFunctionOnSet(h, S) = h[x] + SumFunctionOnSet(h, S \ {x})
  BY <1>2, SumWithout
<1>4. SumFunctionOnSet(h, S \ {x}) = SumFunctionOnSet(g, S \ {x}) /\ SumFunctionOnSet(g, S \ {x}) \in Nat
  BY <1>1, SumOfSame, SumIsNatural
<1> QED
  BY <1>3, <1>4
=============================================================================
