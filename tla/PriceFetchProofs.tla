-------------------------- MODULE PriceFetchProofs --------------------------
(***************************************************************************)
(* Theorems about PriceFetch for every number of commands, every limit,    *)
(* target and starting minute, every market, both kinds of exchange, and   *)
(* wherever the local clock is put back or forward.                        *)
(***************************************************************************)
EXTENDS PriceFetch, Sums, FunctionTheorems, FiniteSetTheorems, TLAPS

-----------------------------------------------------------------------------
(* Ranks: how many members of a set of integers are not greater than one.  *)
(* They are the numbers from one to the size of the set, in order          *)

UpTo(S, m) == {x \in S : x <= m}

LEMMA RankGrows ==
  ASSUME NEW S \in SUBSET Int, IsFiniteSet(S), NEW m \in S, NEW x \in S, x < m
  PROVE  Cardinality(UpTo(S, x)) < Cardinality(UpTo(S, m))
<1> m \in Int /\ x \in Int
  OBVIOUS
<1>1. UpTo(S, x) \in SUBSET UpTo(S, m) /\ UpTo(S, x) # UpTo(S, m)
  <2>1. m \in UpTo(S, m) /\ m \notin UpTo(S, x)
    BY DEF UpTo
  <2>2. ASSUME NEW y \in UpTo(S, x)
        PROVE  y \in UpTo(S, m)
    <3>1. y \in S /\ y \in Int /\ y <= x
      BY DEF UpTo
    <3> QED
      BY <3>1 DEF UpTo
  <2> QED
    BY <2>1, <2>2
<1>2. UpTo(S, m) \in SUBSET S
  BY DEF UpTo
<1>3. IsFiniteSet(UpTo(S, m))
  BY <1>2, FS_Subset
<1>4. /\ IsFiniteSet(UpTo(S, x))
      /\ Cardinality(UpTo(S, x)) <= Cardinality(UpTo(S, m))
      /\ Cardinality(UpTo(S, x)) # Cardinality(UpTo(S, m))
  BY <1>1, <1>3, FS_Subset
<1> QED
  BY <1>3, <1>4, FS_CardinalityType

LEMMA RanksAreAll ==
  ASSUME NEW S \in SUBSET Int, IsFiniteSet(S)
  PROVE  /\ \A m \in S : Cardinality(UpTo(S, m)) \in 1 .. Cardinality(S)
         /\ \A i \in 1 .. Cardinality(S) :
              \E m \in S : Cardinality(UpTo(S, m)) = i
<1> DEFINE Ranks == 1 .. Cardinality(S)
           rank == [m \in S |-> Cardinality(UpTo(S, m))]
<1>1. Cardinality(S) \in Nat
  BY FS_CardinalityType
<1>2. IsFiniteSet(Ranks) /\ Cardinality(Ranks) = Cardinality(S)
  BY <1>1, FS_Interval
<1>3. ASSUME NEW m \in S
      PROVE  Cardinality(UpTo(S, m)) \in Ranks
  <2>1. UpTo(S, m) \in SUBSET S /\ m \in UpTo(S, m)
    BY DEF UpTo
  <2>2. /\ IsFiniteSet(UpTo(S, m))
        /\ Cardinality(UpTo(S, m)) <= Cardinality(S)
    BY <2>1, FS_Subset
  <2>3. Cardinality(UpTo(S, m)) \in Nat /\ Cardinality(UpTo(S, m)) # 0
    BY <2>1, <2>2, FS_CardinalityType, FS_EmptySet
  <2> QED
    BY <1>1, <2>2, <2>3
<1>4. rank \in Injection(S, Ranks)
  <2>1. ASSUME NEW m \in S, NEW x \in S, rank[m] = rank[x]
        PROVE  m = x
    <3>1. rank[m] \in Int /\ rank[x] \in Int
      BY <1>1, <1>3
    <3>2. ~(x < m) /\ ~(m < x)
      BY <2>1, <3>1, RankGrows
    <3> QED
      BY <3>2
  <2> QED
    BY <1>3, <2>1 DEF Injection, IsInjective
<1>5. rank \in Surjection(S, Ranks)
  BY <1>2, <1>4, FS_Injection
<1> QED
  BY <1>3, <1>5 DEF Surjection

\* Max and Min of PriceFetch.
LOCAL INSTANCE FiniteSetsExt

LEMMA MaxOf ==
  ASSUME NEW S \in SUBSET Int, IsFiniteSet(S), S # {}
  PROVE  Max(S) \in S /\ \A m \in S : m <= Max(S)
<1>1. Cardinality(S) \in Nat /\ Cardinality(S) # 0
  BY FS_CardinalityType, FS_EmptySet
<1>2. PICK k \in S : Cardinality(UpTo(S, k)) = Cardinality(S)
  BY <1>1, RanksAreAll
<1>3. UpTo(S, k) \in SUBSET S
  BY DEF UpTo
<1>4. UpTo(S, k) = S
  BY <1>2, <1>3, FS_Subset
<1>5. \A m \in S : k >= m
  BY <1>4 DEF UpTo
<1> QED
  BY <1>5 DEF Max

LEMMA MinOf ==
  ASSUME NEW S \in SUBSET Int, IsFiniteSet(S), S # {}
  PROVE  Min(S) \in S /\ \A m \in S : Min(S) <= m
<1>1. Cardinality(S) \in Nat /\ Cardinality(S) # 0
  BY FS_CardinalityType, FS_EmptySet
<1>2. PICK k \in S : Cardinality(UpTo(S, k)) = 1
  BY <1>1, RanksAreAll
<1>3. ASSUME NEW m \in S, m < k
      PROVE  FALSE
  <2>1. Cardinality(UpTo(S, m)) < 1 /\ Cardinality(UpTo(S, m)) \in 1 .. Cardinality(S)
    BY <1>2, <1>3, RankGrows, RanksAreAll
  <2> QED
    BY <1>1, <2>1
<1>4. \A m \in S : k <= m
  BY <1>3
<1> QED
  BY <1>4 DEF Min

-----------------------------------------------------------------------------
(* The answers of the exchange *)

\* The prices a page is taken from.
From(since, limit) ==
  {m \in market : m >= since /\ (windowed => m < since + limit)}

LEMMA AnswerIs ==
  ASSUME NEW since, NEW limit
  PROVE  Answer(since, limit)
           = {m \in From(since, limit) :
                Cardinality(UpTo(From(since, limit), m)) <= limit}
  BY DEF Answer, From, UpTo

LEMMA MarketFinite ==
  ASSUME TypeOK
  PROVE  IsFiniteSet(market) /\ market \in SUBSET Int /\ now \in Minutes
<1>1. now \in Nat /\ now \in Minutes
  BY ClockAssumption DEF TypeOK, Minutes
<1>2. IsFiniteSet(0 .. now)
  BY <1>1, FS_Interval
<1>3. market \in SUBSET (0 .. now)
  BY DEF TypeOK
<1>4. IsFiniteSet(market)
  BY <1>2, <1>3, FS_Subset
<1> QED
  BY <1>1, <1>3, <1>4

LEMMA FromFinite ==
  ASSUME TypeOK, NEW since, NEW limit
  PROVE  From(since, limit) \in SUBSET Int /\ IsFiniteSet(From(since, limit))
<1>1. From(since, limit) \in SUBSET market
  BY DEF From
<1> QED
  BY <1>1, MarketFinite, FS_Subset

\* An answer holds at most as many prices as were asked for.
LEMMA AnswerBound ==
  ASSUME TypeOK, NEW since, NEW limit \in Nat \ {0}
  PROVE  Cardinality(Answer(since, limit)) <= limit
<1> DEFINE S == From(since, limit)
           A == Answer(since, limit)
<1>1. S \in SUBSET Int /\ IsFiniteSet(S)
  BY FromFinite
<1>2. A = {m \in S : Cardinality(UpTo(S, m)) <= limit}
  BY AnswerIs
<1> HIDE DEF S, A
<1>3. A \in SUBSET Int /\ IsFiniteSet(A)
  BY <1>1, <1>2, FS_Subset
<1>4. CASE A = {}
  BY <1>4, FS_EmptySet DEF A
<1>5. CASE A # {}
  <2>1. Max(A) \in A /\ \A m \in A : m <= Max(A)
    BY <1>3, <1>5, MaxOf
  <2>2. Max(A) \in S /\ Cardinality(UpTo(S, Max(A))) <= limit
    BY <1>2, <2>1
  <2>3. A \in SUBSET UpTo(S, Max(A))
    BY <1>2, <2>1 DEF UpTo
  <2>4. UpTo(S, Max(A)) \in SUBSET S
    BY DEF UpTo
  <2>5. IsFiniteSet(UpTo(S, Max(A)))
    BY <1>1, <2>4, FS_Subset
  <2>6. Cardinality(A) <= Cardinality(UpTo(S, Max(A)))
    BY <2>3, <2>5, FS_Subset
  <2>7. Cardinality(A) \in Nat /\ Cardinality(UpTo(S, Max(A))) \in Nat
    BY <1>3, <2>5, FS_CardinalityType
  <2>8. Cardinality(A) <= limit
    BY <2>2, <2>6, <2>7
  <2> QED
    BY <2>8 DEF A
<1> QED
  BY <1>4, <1>5

\* It has no hole: with a price it has all before it that were asked for.
LEMMA AnswerClosed ==
  ASSUME TypeOK, NEW since \in Int, NEW limit \in Nat \ {0},
         NEW k \in Answer(since, limit), NEW m \in market, since <= m, m <= k
  PROVE  m \in Answer(since, limit)
<1> DEFINE S == From(since, limit)
<1>1. S \in SUBSET Int /\ IsFiniteSet(S)
  BY FromFinite
<1>2. k \in S /\ Cardinality(UpTo(S, k)) <= limit
  BY AnswerIs
<1>3. m \in Int /\ k \in Int
  BY <1>1, <1>2, MarketFinite
<1>4. m \in S
  BY <1>2, <1>3 DEF From
<1>5. Cardinality(UpTo(S, m)) <= limit
  <2>1. CASE m = k
    BY <1>2, <2>1
  <2>2. CASE m < k
    <3>1. Cardinality(UpTo(S, m)) < Cardinality(UpTo(S, k))
      BY <1>1, <1>2, <1>4, <2>2, RankGrows
    <3>2. /\ Cardinality(UpTo(S, m)) \in 1 .. Cardinality(S)
          /\ Cardinality(UpTo(S, k)) \in 1 .. Cardinality(S)
      BY <1>1, <1>2, <1>4, RanksAreAll
    <3> QED
      BY <1>2, <3>1, <3>2
  <2> QED
    BY <1>3, <2>1, <2>2
<1> QED
  BY <1>4, <1>5, AnswerIs

\* It has every price of the window of as many minutes.
LEMMA AnswerHasWindow ==
  ASSUME TypeOK, NEW since \in Int, NEW limit \in Nat \ {0},
         NEW m \in market, since <= m, m < since + limit
  PROVE  m \in Answer(since, limit)
<1> DEFINE S == From(since, limit)
<1>1. m \in Int /\ m \in S
  BY MarketFinite DEF From
<1>2. UpTo(S, m) \in SUBSET (since .. m)
  BY MarketFinite DEF UpTo, From
<1>3. IsFiniteSet(since .. m) /\ Cardinality(since .. m) = m - since + 1
  BY <1>1, FS_Interval
<1>4. /\ IsFiniteSet(UpTo(S, m))
      /\ Cardinality(UpTo(S, m)) <= m - since + 1
  BY <1>2, <1>3, FS_Subset
<1>5. Cardinality(UpTo(S, m)) \in Nat
  BY <1>4, FS_CardinalityType
<1>6. Cardinality(UpTo(S, m)) <= limit
  BY <1>1, <1>4, <1>5
<1> QED
  BY <1>1, <1>6, AnswerIs

\* An exchange that does not end its answers with the window leaves a price out
\* only if it has more than one before it, if more than one was asked for.
LEMMA AnswerGoesOn ==
  ASSUME TypeOK, ~windowed, NEW since \in Int, NEW limit \in Nat, limit > 1,
         NEW m \in market, since <= m, m \notin Answer(since, limit)
  PROVE  Cardinality(Answer(since, limit)) > 1
<1> DEFINE S == From(since, limit)
           A == Answer(since, limit)
<1>1. S \in SUBSET Int /\ IsFiniteSet(S)
  BY FromFinite
<1>2. m \in S
  BY DEF From
<1>3. A = {x \in S : Cardinality(UpTo(S, x)) <= limit}
  BY AnswerIs
<1> HIDE DEF S, A
<1>4. /\ Cardinality(UpTo(S, m)) \in 1 .. Cardinality(S)
      /\ ~(Cardinality(UpTo(S, m)) <= limit)
      /\ Cardinality(S) \in Nat
  BY <1>1, <1>2, <1>3, RanksAreAll, FS_CardinalityType DEF A
<1>5. 1 \in 1 .. Cardinality(S) /\ 2 \in 1 .. Cardinality(S)
  BY <1>4
<1>6. PICK x \in S : Cardinality(UpTo(S, x)) = 1
  BY <1>1, <1>5, RanksAreAll
<1>7. PICK y \in S : Cardinality(UpTo(S, y)) = 2
  BY <1>1, <1>5, RanksAreAll
<1>8. x # y /\ {x, y} \in SUBSET A
  BY <1>3, <1>6, <1>7
<1>9. IsFiniteSet(A)
  BY <1>1, <1>3, FS_Subset
<1>10. Cardinality({x, y}) = 2
  <2>1. IsFiniteSet({x}) /\ Cardinality({x}) = 1 /\ y \notin {x}
    BY <1>8, FS_Singleton
  <2>2. Cardinality({x} \cup {y}) = 2
    BY <2>1, FS_AddElement
  <2> QED
    BY <2>2
<1>11. Cardinality(A) \in Nat /\ Cardinality({x, y}) <= Cardinality(A)
  BY <1>8, <1>9, FS_Subset, FS_CardinalityType
<1> QED
  BY <1>10, <1>11 DEF A

-----------------------------------------------------------------------------
(* Type correctness *)

LEMMA InitType == Init => TypeOK
  BY ClockAssumption DEF Init, TypeOK, Begun

LEMMA AnswerType ==
  ASSUME TypeOK, NEW since, NEW limit
  PROVE  /\ Answer(since, limit) \in SUBSET market
         /\ Answer(since, limit) \in SUBSET Minutes
         /\ IsFiniteSet(Answer(since, limit))
<1>1. market \in SUBSET Minutes
  BY ClockAssumption DEF TypeOK, Minutes
<1>2. Answer(since, limit) \in SUBSET market
  BY DEF Answer
<1> QED
  BY <1>1, <1>2, MarketFinite, FS_Subset

\* A page is there while its insert is under way, the count of an insert once it
\* has been carried out.
InOrder(x) ==
  /\ x.page # {} => x.phase \in {"save", "saved", "failed"}
  /\ x.phase = "save" => x.page # {}
  /\ x.inserted # 0 => x.phase = "saved" \/ (x.phase = "failed" /\ x.page = {})

\* The conjuncts about one command.
FetchOK(f) ==
  /\ fetch[f].target # Absent => fetch[f].round <= fetch[f].target
  /\ Cardinality(fetch[f].page) <= fetch[f].limit
  /\ InOrder(fetch[f])
  /\ fetch[f].page \subseteq market
  /\ fetch[f].kept \subseteq saved

\* A step of one command, to a record that is right.
LEMMA OneFetch ==
  ASSUME TypeOK, NEW f \in Fetches, NEW x \in Fetch,
         fetch' = [fetch EXCEPT ![f] = x],
         x.target # Absent => x.round <= x.target,
         Cardinality(x.page) <= x.limit,
         InOrder(x), x.page \subseteq market,
         x.kept \subseteq saved',
         saved \subseteq saved', saved' \subseteq market,
         UNCHANGED <<now, market, where, others>>
  PROVE  TypeOK'
<1>1. fetch' \in [Fetches -> Fetch \cup {NoFetch}]
  BY DEF TypeOK
<1>2. ASSUME NEW g \in Begun'
      PROVE  FetchOK(g)'
  <2>1. CASE g = f
    BY <2>1 DEF TypeOK, FetchOK, InOrder
  <2>2. CASE g # f
    <3>1. g \in Begun /\ fetch'[g] = fetch[g]
      BY <1>2, <2>2 DEF Begun, TypeOK
    <3> QED
      BY <3>1 DEF TypeOK, FetchOK, InOrder
  <2> QED
    BY <2>1, <2>2
<1> QED
  BY <1>1, <1>2 DEF TypeOK, FetchOK, InOrder, where

\* The fetch a command begins with.
LEMMA BeginGives ==
  ASSUME TypeOK, NEW f \in Fetches, NEW from \in Minutes, NEW direction,
         NEW limit \in Limits, NEW target \in Targets,
         BeginFetch(f, from, direction, limit, target)
  PROVE  \E x \in Fetch :
           /\ fetch' = [fetch EXCEPT ![f] = x]
           /\ x.target # Absent => x.round <= x.target
           /\ x.phase = "find" /\ x.page = {} /\ x.kept = {}
           /\ x.totalSaved = 0 /\ x.inserted = 0
<1> DEFINE start == calculateOhlcvTimeRange(from, LimitOf(limit),
                                            DirectionOf(direction))
           x == [phase |-> "find", direction |-> DirectionOf(direction),
                 limit |-> LimitOf(limit), target |-> target, origin |-> from,
                 begun |-> now, round |-> 1, start |-> start,
                 page |-> {}, readAt |-> 0, kept |-> {}, totalSaved |-> 0,
                 inserted |-> 0]
<1>1. LimitOf(limit) \in Nat \ {0} /\ DirectionOf(direction) \in {"ASC", "DESC"}
  BY LimitsAssumption DEF LimitOf, DirectionOf
<1>2. from \in Int /\ now \in Minutes /\ 0 \in Minutes
  BY ClockAssumption, MarketFinite DEF Minutes
<1>3. start \in Int
  BY <1>1, <1>2 DEF calculateOhlcvTimeRange
<1> HIDE DEF start
<1>4. x \in Fetch
  BY <1>1, <1>2, <1>3 DEF Fetch
<1>5. target # Absent => 1 <= target
  BY TargetsAssumption
<1>6. fetch' = [fetch EXCEPT ![f] = x]
  BY DEF BeginFetch, start
<1>7. /\ x.target # Absent => x.round <= x.target
      /\ x.phase = "find" /\ x.page = {} /\ x.kept = {}
      /\ x.totalSaved = 0 /\ x.inserted = 0
  BY <1>5
<1> HIDE DEF x
<1> QED
  BY <1>4, <1>6, <1>7

LEMMA BeginType ==
  ASSUME TypeOK, NEW f \in Fetches, NEW from \in Minutes, NEW direction,
         NEW limit \in Limits, NEW target \in Targets,
         BeginFetch(f, from, direction, limit, target)
  PROVE  TypeOK'
<1>1. PICK x \in Fetch :
        /\ fetch' = [fetch EXCEPT ![f] = x]
        /\ x.target # Absent => x.round <= x.target
        /\ x.phase = "find" /\ x.page = {} /\ x.kept = {} /\ x.inserted = 0
  BY BeginGives
<1>2. Cardinality(x.page) <= x.limit /\ InOrder(x)
  BY <1>1, FS_EmptySet DEF Fetch, InOrder
<1> QED
  BY <1>1, <1>2, OneFetch DEF BeginFetch, TypeOK

LEMMA FindType ==
  ASSUME TypeOK, NEW f \in Fetches, FindExchange(f)
  PROVE  TypeOK'
<1>1. PICK phase \in {"fetch", "failed"} :
        fetch' = [fetch EXCEPT ![f] = [fetch[f] EXCEPT !.phase = phase,
                                                       !.begun = now]]
  <2>1. PICK listed \in BOOLEAN :
          fetch' = [fetch EXCEPT
            ![f].phase = IF listed THEN "fetch" ELSE "failed", ![f].begun = now]
    BY DEF FindExchange
  <2> QED
    BY <2>1 DEF TypeOK
<1>2. fetch[f] \in Fetch /\ f \in Begun /\ fetch[f].phase = "find"
  BY DEF FindExchange, TypeOK, Begun
<1> DEFINE x == [fetch[f] EXCEPT !.phase = phase, !.begun = now]
<1>3. x \in Fetch
  BY <1>2, MarketFinite DEF Fetch
<1>4. /\ x.target # Absent => x.round <= x.target
      /\ Cardinality(x.page) <= x.limit
      /\ InOrder(x)
      /\ x.page \subseteq market
      /\ x.kept \subseteq saved
  BY <1>2 DEF TypeOK, Fetch, InOrder
<1> HIDE DEF x
<1> QED
  BY <1>1, <1>3, <1>4, OneFetch DEF FindExchange, TypeOK, x

LEMMA FetchPageType ==
  ASSUME TypeOK, NEW f \in Fetches, FetchPage(f)
  PROVE  TypeOK'
<1> DEFINE page == Answer(fetch[f].start, fetch[f].limit)
           phase == IF page = {} THEN "saved" ELSE "save"
           x == [fetch[f] EXCEPT !.phase = phase, !.page = page, !.readAt = now]
<1>1. fetch[f] \in Fetch /\ f \in Begun /\ fetch[f].phase = "fetch"
  BY DEF FetchPage, TypeOK, Begun
<1>2. /\ page \in SUBSET Minutes /\ page \subseteq market
      /\ Cardinality(page) <= fetch[f].limit
  BY <1>1, AnswerType, AnswerBound DEF Fetch
<1>3. fetch' = [fetch EXCEPT ![f] = x]
  BY DEF FetchPage, TypeOK
<1> HIDE DEF page
<1>4. x \in Fetch
  BY <1>1, <1>2, MarketFinite DEF Fetch
<1>5. /\ x.target # Absent => x.round <= x.target
      /\ Cardinality(x.page) <= x.limit
      /\ InOrder(x)
      /\ x.page \subseteq market
      /\ x.kept \subseteq saved
  BY <1>1, <1>2 DEF TypeOK, Fetch, InOrder
<1> HIDE DEF x
<1> QED
  BY <1>3, <1>4, <1>5, OneFetch DEF FetchPage, TypeOK

\* The next minute is one, found on the first or the last price of the page.
LEMMA NextMinuteIs ==
  ASSUME TypeOK, NEW f \in Begun, fetch[f].page # {}
  PROVE  /\ NextMinute(f) \in Int
         /\ fetch[f].direction = "ASC" =>
              \E k \in fetch[f].page :
                /\ \A m \in fetch[f].page : m <= k
                /\ NextMinute(f) = Utc(Local(k) + 1)
         /\ fetch[f].direction = "DESC" =>
              \E k \in fetch[f].page :
                /\ \A m \in fetch[f].page : k <= m
                /\ NextMinute(f) = Utc(Local(k) - 1)
<1> DEFINE page == fetch[f].page
<1>1. page \in SUBSET Int /\ IsFiniteSet(page)
  <2>1. page \in SUBSET Minutes
    BY DEF Begun, TypeOK, Fetch
  <2>2. IsFiniteSet(Minutes) /\ Minutes \in SUBSET Int
    BY ClockAssumption, FS_Interval DEF Minutes
  <2> QED
    BY <2>1, <2>2, FS_Subset
<1>2. Max(page) \in page /\ \A m \in page : m <= Max(page)
  BY <1>1, MaxOf
<1>3. Min(page) \in page /\ \A m \in page : Min(page) <= m
  BY <1>1, MinOf
<1>4. Max({zone.by, 0}) \in Int /\ zone.at \in Int /\ zone.by \in Int
  <2>1. zone.at \in Int /\ zone.by \in Int
    BY ZonesAssumption DEF TypeOK
  <2>2. IsFiniteSet({zone.by, 0})
    <3>1. IsFiniteSet({zone.by})
      BY FS_Singleton
    <3>2. IsFiniteSet({zone.by} \cup {0})
      BY <3>1, FS_AddElement
    <3> QED
      BY <3>2
  <2> QED
    BY <2>1, <2>2, MaxOf
<1>5. NextMinute(f) \in Int
  BY <1>1, <1>2, <1>3, <1>4 DEF NextMinute, Utc, Local
<1> QED
  BY <1>2, <1>3, <1>5 DEF NextMinute

\* What an insert that is carried out makes of its fetch.
LEMMA InsertGives ==
  ASSUME TypeOK, NEW f \in Fetches, InsertPage(f)
  PROVE  /\ fetch[f] \in Fetch /\ f \in Begun
         /\ NewPrices(f) \in Nat /\ fetch[f].inserted = 0
         /\ \E y \in Fetch :
              /\ fetch' = [fetch EXCEPT ![f] = y]
              /\ y.kept = fetch[f].kept \cup fetch[f].page
              /\ y.inserted = NewPrices(f)
              /\ y.totalSaved = fetch[f].totalSaved
              /\ y.limit = fetch[f].limit /\ y.start = fetch[f].start
              /\ y.origin = fetch[f].origin /\ y.begun = fetch[f].begun
              /\ y.direction = fetch[f].direction
              /\ y.readAt = fetch[f].readAt
              /\ y.target = fetch[f].target /\ y.round = fetch[f].round
              /\ \/ /\ fetch[f].phase = "save" /\ y.phase = "saved"
                    /\ y.page = fetch[f].page
                 \/ /\ fetch[f].phase = "failed" /\ y.phase = "failed"
                    /\ y.page = {}
<1> DEFINE x == [fetch[f] EXCEPT !.kept = @ \cup fetch[f].page,
                                 !.inserted = NewPrices(f)]
           y == IF x.phase = "save" THEN [x EXCEPT !.phase = "saved"]
                                    ELSE [x EXCEPT !.page = {}]
<1>1. /\ fetch[f] \in Fetch /\ f \in Begun
      /\ fetch[f].phase \in {"save", "failed"} /\ fetch[f].page # {}
  BY DEF InsertPage, TypeOK, Begun
<1>2. NewPrices(f) \in Nat
  <2>1. fetch[f].page \ saved \in SUBSET Minutes
    BY <1>1 DEF Fetch
  <2>2. IsFiniteSet(Minutes)
    BY ClockAssumption, FS_Interval DEF Minutes
  <2> QED
    BY <2>1, <2>2, FS_Subset, FS_CardinalityType DEF NewPrices
<1>3. fetch[f].inserted = 0
  BY <1>1 DEF TypeOK
<1>4. fetch' = [fetch EXCEPT ![f] = y]
  BY DEF InsertPage
<1>5. fetch[f].kept \cup fetch[f].page \in SUBSET Minutes
  BY <1>1 DEF Fetch
<1>6. y \in Fetch
  BY <1>1, <1>2, <1>5 DEF Fetch
<1>7. /\ y.kept = fetch[f].kept \cup fetch[f].page
      /\ y.inserted = NewPrices(f)
      /\ y.totalSaved = fetch[f].totalSaved
      /\ y.limit = fetch[f].limit /\ y.start = fetch[f].start
      /\ y.origin = fetch[f].origin /\ y.begun = fetch[f].begun
      /\ y.direction = fetch[f].direction /\ y.readAt = fetch[f].readAt
      /\ y.target = fetch[f].target /\ y.round = fetch[f].round
      /\ fetch[f].phase = "save" => y.phase = "saved" /\ y.page = fetch[f].page
      /\ fetch[f].phase = "failed" => y.phase = "failed" /\ y.page = {}
  BY <1>1 DEF Fetch
<1> HIDE DEF y
<1> QED
  BY <1>1, <1>2, <1>3, <1>4, <1>6, <1>7

LEMMA InsertType ==
  ASSUME TypeOK, NEW f \in Fetches, InsertPage(f)
  PROVE  TypeOK'
<1>1. /\ f \in Begun /\ saved' = saved \cup fetch[f].page
      /\ fetch[f].page # {}
      /\ fetch[f].page \subseteq market /\ fetch[f].kept \subseteq saved
      /\ saved \subseteq market
      /\ fetch[f].target # Absent => fetch[f].round <= fetch[f].target
      /\ Cardinality(fetch[f].page) <= fetch[f].limit
      /\ UNCHANGED <<now, market, where, others>>
  BY InsertGives DEF InsertPage, TypeOK
<1>2. PICK y \in Fetch :
        /\ fetch' = [fetch EXCEPT ![f] = y]
        /\ y.kept = fetch[f].kept \cup fetch[f].page
        /\ y.limit = fetch[f].limit
        /\ y.target = fetch[f].target /\ y.round = fetch[f].round
        /\ \/ y.phase = "saved" /\ y.page = fetch[f].page
           \/ y.phase = "failed" /\ y.page = {}
  BY InsertGives
<1>3. Cardinality({}) <= fetch[f].limit
  BY <1>1, InsertGives, FS_EmptySet DEF Fetch
<1>4. /\ Cardinality(y.page) <= y.limit /\ y.page \subseteq market
      /\ InOrder(y)
  BY <1>1, <1>2, <1>3 DEF InOrder
<1> QED
  BY <1>1, <1>2, <1>4, OneFetch

\* What is left of a fetch when a round ends.
LEMMA EndRoundGives ==
  ASSUME TypeOK, NEW f \in Fetches, EndRound(f)
  PROVE  /\ fetch[f] \in Fetch /\ f \in Begun
         /\ \E y \in Fetch :
              /\ fetch' = [fetch EXCEPT ![f] = y]
              /\ y.page = {} /\ y.kept = fetch[f].kept
              /\ y.limit = fetch[f].limit /\ y.phase \in {"fetch", "ended"}
              /\ y.totalSaved = fetch[f].totalSaved + fetch[f].inserted
              /\ y.inserted = 0
              /\ y.target # Absent => y.round <= y.target
<1> DEFINE x == [fetch[f] EXCEPT !.totalSaved = @ + CountSaved(f),
                                 !.inserted = 0, !.page = {}, !.readAt = 0]
<1>1. fetch[f] \in Fetch /\ f \in Begun /\ fetch[f].phase = "saved"
  BY DEF EndRound, TypeOK, Begun
<1>2. /\ x \in Fetch
      /\ x.target = fetch[f].target /\ x.round = fetch[f].round
      /\ x.limit = fetch[f].limit /\ x.page = {} /\ x.inserted = 0
      /\ x.kept = fetch[f].kept
      /\ x.totalSaved = fetch[f].totalSaved + fetch[f].inserted
  <2>1. 0 \in Minutes
    BY ClockAssumption DEF Minutes
  <2>2. fetch[f].totalSaved + fetch[f].inserted \in Nat
    BY <1>1 DEF Fetch
  <2> QED
    BY <1>1, <2>1, <2>2 DEF Fetch, CountSaved
<1> HIDE DEF x
<1>3. PICK y \in Fetch :
        /\ fetch' = [fetch EXCEPT ![f] = y]
        /\ y.page = {} /\ y.kept = x.kept /\ y.limit = x.limit
        /\ y.phase \in {"fetch", "ended"} /\ y.totalSaved = x.totalSaved
        /\ y.inserted = 0
        /\ y.target # Absent => y.round <= y.target
  <2>1. CASE fetch' = [fetch EXCEPT ![f] = [x EXCEPT !.phase = "ended"]]
    <3>1. [x EXCEPT !.phase = "ended"] \in Fetch
      BY <1>2 DEF Fetch
    <3> QED
      BY <1>1, <1>2, <2>1, <3>1 DEF TypeOK, Fetch
  <2>2. CASE ~Exhausted(f) /\ ~TargetReached(f)
    <3> DEFINE start == calculateOhlcvTimeRange(NextMinute(f), x.limit, x.direction)
               round == IF x.target = Absent THEN x.round ELSE x.round + 1
               y == [x EXCEPT !.phase = "fetch", !.round = round, !.start = start]
    <3>1. fetch' = [fetch EXCEPT ![f] = y]
      BY <1>1, <2>2 DEF EndRound, x
    <3>2. start \in Int
      <4>1. NextMinute(f) \in Int
        BY <1>1, <2>2, NextMinuteIs DEF Exhausted
      <4> QED
        BY <1>2, <4>1 DEF calculateOhlcvTimeRange, Fetch
    <3>3. round \in Nat \ {0} /\ (x.target # Absent => round <= x.target)
      <4>1. x.target # Absent => x.round <= x.target /\ x.round # x.target
        BY <1>1, <1>2, <2>2 DEF TypeOK, TargetReached
      <4>2. x.round \in Nat \ {0} /\ x.target \in (Nat \ {0}) \cup {Absent}
        BY <1>2, TargetsAssumption DEF Fetch
      <4> QED
        BY <4>1, <4>2
    <3> HIDE DEF start, round
    <3>4. y \in Fetch
      BY <1>2, <3>2, <3>3 DEF Fetch
    <3>5. /\ y.page = {} /\ y.kept = x.kept /\ y.limit = x.limit
          /\ y.phase \in {"fetch", "ended"} /\ y.totalSaved = x.totalSaved
          /\ y.inserted = 0
          /\ y.target # Absent => y.round <= y.target
      BY <1>2, <3>3 DEF Fetch
    <3> QED
      BY <3>1, <3>4, <3>5
  <2> QED
    BY <2>1, <2>2 DEF EndRound, x
<1> QED
  BY <1>1, <1>2, <1>3

LEMMA EndRoundType ==
  ASSUME TypeOK, NEW f \in Fetches, EndRound(f)
  PROVE  TypeOK'
<1>1. /\ f \in Begun /\ fetch[f].kept \subseteq saved
      /\ saved \subseteq market
      /\ UNCHANGED <<now, market, saved, where, others>>
  BY EndRoundGives DEF EndRound, TypeOK
<1>2. PICK y \in Fetch :
        /\ fetch' = [fetch EXCEPT ![f] = y]
        /\ y.page = {} /\ y.kept = fetch[f].kept /\ y.inserted = 0
        /\ y.phase \in {"fetch", "ended"}
        /\ y.target # Absent => y.round <= y.target
  BY EndRoundGives
<1>3. Cardinality(y.page) <= y.limit /\ InOrder(y)
  BY <1>2, FS_EmptySet DEF Fetch, InOrder
<1> QED
  BY <1>1, <1>2, <1>3, OneFetch

LEMMA FailureType ==
  ASSUME TypeOK, NEW f \in Fetches, CallFails(f)
  PROVE  TypeOK'
<1> DEFINE page == IF fetch[f].phase = "save" THEN fetch[f].page ELSE {}
           x == [fetch[f] EXCEPT !.phase = "failed", !.readAt = 0, !.page = page]
<1>1. fetch[f] \in Fetch /\ f \in Begun
  BY DEF CallFails, TypeOK, Begun
<1>2. fetch' = [fetch EXCEPT ![f] = x]
  BY DEF CallFails, TypeOK
<1>3. x \in Fetch
  <2>1. 0 \in Minutes
    BY ClockAssumption DEF Minutes
  <2> QED
    BY <1>1, <2>1 DEF Fetch
<1>4. Cardinality({}) <= fetch[f].limit
  BY <1>1, FS_EmptySet DEF Fetch
<1>5. /\ x.target # Absent => x.round <= x.target
      /\ Cardinality(x.page) <= x.limit
      /\ InOrder(x)
      /\ x.page \subseteq market
      /\ x.kept \subseteq saved
  BY <1>1, <1>4 DEF TypeOK, Fetch, InOrder
<1> HIDE DEF x
<1> QED
  BY <1>2, <1>3, <1>5, OneFetch DEF CallFails, TypeOK

LEMMA OthersType ==
  ASSUME TypeOK,
         Tick \/ Trade \/ \E since \in Minutes : SaveOther(Answer(since, FetchLimit))
  PROVE  TypeOK'
<1>1. CASE Tick
  BY <1>1, ClockAssumption DEF Tick, TypeOK, Begun, where
<1>2. CASE Trade
  <2>1. market \subseteq market' /\ market' \subseteq 0 .. now
    <3>1. now \in Nat /\ market' = market \cup {now} /\ market \subseteq 0 .. now
      BY <1>2, ClockAssumption DEF Trade, TypeOK
    <3>2. now \in 0 .. now
      BY <3>1
    <3> QED
      BY <3>1, <3>2
  <2> QED
    BY <1>2, <2>1 DEF Trade, TypeOK, Begun, where
<1>3. ASSUME NEW since \in Minutes, SaveOther(Answer(since, FetchLimit))
      PROVE  TypeOK'
  <2> DEFINE page == Answer(since, FetchLimit)
  <2>1. page \subseteq market /\ IsFiniteSet(page \ saved)
    BY AnswerType, FS_Difference
  <2>2. Cardinality(page \ saved) \in Nat
    BY <2>1, FS_CardinalityType
  <2> HIDE DEF page
  <2>3. others' \in [pages : 0 .. OtherBound, prices : Nat]
    BY <1>3, <2>2, ClockAssumption DEF SaveOther, TypeOK, page
  <2>4. saved' = saved \cup page /\ UNCHANGED <<now, market, fetch, where>>
    BY <1>3 DEF SaveOther, page
  <2> QED
    BY <2>1, <2>3, <2>4 DEF TypeOK, Begun, where
<1> QED
  BY <1>1, <1>2, <1>3

\* The variables keep their types: among them that what is saved was traded,
\* that no page is longer than the limit and no fetch goes past its target.
THEOREM TypeCorrect == Spec => []TypeOK
<1>1. ASSUME TypeOK, [Next]_vars
      PROVE  TypeOK'
  <2>1. ASSUME NEW f \in Fetches, NEW from \in Minutes, NEW direction,
               NEW limit \in Limits, NEW target \in Targets,
               BeginFetch(f, from, direction, limit, target)
        PROVE  TypeOK'
    BY <1>1, <2>1, BeginType
  <2>2. ASSUME NEW f \in Fetches, Round(f) \/ CallFails(f) \/ InsertPage(f)
        PROVE  TypeOK'
    BY <1>1, <2>2, FindType, FetchPageType, InsertType, EndRoundType,
       FailureType DEF Round
  <2>3. CASE UNCHANGED vars
    BY <1>1, <2>3 DEF vars, where, TypeOK, Begun
  <2> QED
    BY <1>1, <2>1, <2>2, <2>3, OthersType DEF Next
<1> QED
  BY <1>1, InitType, PTL DEF Spec

-----------------------------------------------------------------------------
(* A fetch leaves no hole: the inductive invariant *)

\* Where a fetch has been: a forward one before the start of its window, a
\* backward one behind its end.
Passed(x, m) ==
  \/ x.direction = "ASC" /\ x.origin <= m /\ m < x.start
  \/ x.direction = "DESC" /\ x.start + x.limit <= m /\ m <= x.origin /\ m < x.begun

\* While it goes on, it has saved what was traded there, and nothing new can be
\* traded there but what the clock hides.
Covered(f) ==
  fetch[f].phase \in {"find", "fetch", "save", "saved"} =>
    \A m \in Minutes :
      /\ Passed(fetch[f], m)
      /\ m \in market \/ (fetch[f].direction = "ASC" /\ now <= m)
      => m \in fetch[f].kept \/ Hidden(m, fetch[f].direction)

\* The page of a round has every price there was in its window, no hole before
\* any of its own, and more than one if it ends too early.
PageHolds(f) ==
  LET x == fetch[f] IN
  x.phase \in {"save", "saved"} =>
    /\ x.begun <= x.readAt
    /\ x.phase = "saved" => x.page \subseteq x.kept
    /\ \A k \in x.page : x.start <= k /\ k <= x.readAt
    /\ \A m \in market :
         /\ \A k \in x.page : x.start <= m /\ m <= k => m \in x.page
         /\ x.start <= m /\ m < x.start + x.limit /\ m < x.readAt => m \in x.page
         /\ ~windowed /\ x.limit > 1 /\ x.start <= m /\ m < x.readAt =>
              m \in x.page \/ Cardinality(x.page) > 1

\* A fetch that looks for its exchange is where it will start.
AtStart(f) ==
  /\ fetch[f].begun <= now /\ fetch[f].readAt <= now
  /\ fetch[f].phase = "find" =>
       /\ fetch[f].kept = {}
       /\ fetch[f].start = calculateOhlcvTimeRange(fetch[f].origin, fetch[f].limit,
                                                 fetch[f].direction)

\* The part of NoHoles about one fetch, for what it has saved, and for what it
\* has saved with the page whose insert may be carried out at any time.
Whole(f, S) ==
  \A m \in market, k \in S :
    /\ fetch[f].direction = "ASC" /\ fetch[f].origin <= m /\ m <= k
         => m \in S \/ Hidden(m, "ASC")
    /\ fetch[f].direction = "DESC" /\ k <= m /\ m <= fetch[f].origin
       /\ m < fetch[f].begun
         => m \in S \/ Hidden(m, "DESC")

HasNoHoles(f) ==
  Whole(f, fetch[f].kept) /\ Whole(f, fetch[f].kept \cup fetch[f].page)

FetchInv(f) == AtStart(f) /\ PageHolds(f) /\ Covered(f) /\ HasNoHoles(f)
HolesInv == \A f \in Begun : FetchInv(f)

\* The record of a fetch that was begun, and the minutes it names.
LEMMA BegunType ==
  ASSUME TypeOK, NEW f \in Begun
  PROVE  /\ f \in Fetches /\ fetch[f] \in Fetch
         /\ fetch[f].origin \in Int /\ fetch[f].begun \in Int
         /\ fetch[f].start \in Int /\ fetch[f].readAt \in Int
         /\ fetch[f].limit \in Nat \ {0}
         /\ fetch[f].direction \in {"ASC", "DESC"}
         /\ fetch[f].page \subseteq market /\ fetch[f].kept \subseteq market
         /\ now \in Int /\ now \in Minutes /\ 0 <= now
         /\ \A m \in Minutes : m \in Int
         /\ \A m \in market : m \in Int /\ m \in Minutes /\ m <= now
<1>1. /\ now \in Int /\ now \in Minutes /\ 0 <= now
      /\ \A m \in Minutes : m \in Int
  BY MarketFinite DEF Minutes
<1>2. \A m \in market : m \in Int /\ m \in Minutes /\ m <= now
  BY ClockAssumption DEF TypeOK, Minutes
<1>3. f \in Fetches /\ fetch[f] \in Fetch
  BY DEF Begun, TypeOK
<1>4. fetch[f].page \subseteq market /\ fetch[f].kept \subseteq market
  <2>1. /\ fetch[f].page \subseteq market
        /\ fetch[f].kept \subseteq saved /\ saved \subseteq market
    BY DEF TypeOK
  <2> QED
    BY <2>1
<1>5. /\ fetch[f].origin \in Minutes /\ fetch[f].begun \in Minutes
      /\ fetch[f].start \in Int /\ fetch[f].readAt \in Minutes
      /\ fetch[f].limit \in Nat \ {0}
      /\ fetch[f].direction \in {"ASC", "DESC"}
  BY <1>3 DEF Fetch
<1>6. /\ fetch[f].origin \in Int /\ fetch[f].begun \in Int
      /\ fetch[f].readAt \in Int
  BY <1>1, <1>5
<1> QED
  BY <1>1, <1>2, <1>3, <1>4, <1>5, <1>6

-----------------------------------------------------------------------------
(* The steps of one fetch *)

LEMMA BeginHolds ==
  ASSUME TypeOK, NEW f \in Fetches, NEW from \in Minutes, NEW direction,
         NEW limit \in Limits, NEW target \in Targets,
         BeginFetch(f, from, direction, limit, target)
  PROVE  FetchInv(f)'
<1> DEFINE x == fetch'[f]
<1>1. LimitOf(limit) \in Nat \ {0} /\ DirectionOf(direction) \in {"ASC", "DESC"}
  BY LimitsAssumption DEF LimitOf, DirectionOf
<1>2. /\ now \in Nat /\ from \in Int
      /\ \A m \in Minutes : m \in Int
  BY ClockAssumption DEF TypeOK, Minutes
<1>3. /\ x.phase = "find" /\ x.kept = {} /\ x.page = {}
      /\ x.begun = now /\ x.readAt = 0 /\ x.origin = from
      /\ x.direction \in {"ASC", "DESC"} /\ x.limit \in Nat \ {0}
      /\ x.start = calculateOhlcvTimeRange(x.origin, x.limit, x.direction)
      /\ now' = now
  BY <1>1 DEF BeginFetch, TypeOK
<1> HIDE DEF x
<1>4. ASSUME NEW m \in Minutes
      PROVE  ~Passed(x, m)
  <2>1. m \in Int
    BY <1>2
  <2>2. x.origin \in Int
    BY <1>2, <1>3
  <2>3. x.limit \in Int
    BY <1>3
  <2>4. x.direction = "ASC" => x.start = x.origin
    BY <1>3 DEF calculateOhlcvTimeRange
  <2>5. x.direction = "DESC" => x.start = x.origin - (x.limit - 1)
    BY <1>3 DEF calculateOhlcvTimeRange
  <2> QED
    BY <2>1, <2>2, <2>3, <2>4, <2>5 DEF Passed
<1> QED
  BY <1>2, <1>3, <1>4
  DEF FetchInv, AtStart, PageHolds, Covered, HasNoHoles, Whole, x

LEMMA FindHolds ==
  ASSUME TypeOK, NEW f \in Fetches, FindExchange(f), FetchInv(f)
  PROVE  FetchInv(f)'
<1>1. f \in Begun /\ fetch[f].phase = "find"
  BY DEF FindExchange, Begun
<1>2. PICK phase \in {"fetch", "failed"} :
        fetch' = [fetch EXCEPT ![f].phase = phase, ![f].begun = now]
  BY DEF FindExchange
<1> DEFINE x == fetch'[f]
<1>3. /\ x.phase = phase /\ x.begun = now /\ x.kept = fetch[f].kept
      /\ x.start = fetch[f].start /\ x.limit = fetch[f].limit
      /\ x.direction = fetch[f].direction /\ x.origin = fetch[f].origin
      /\ x.readAt = fetch[f].readAt /\ x.page = fetch[f].page /\ now' = now
  BY <1>1, <1>2, BegunType DEF FindExchange, TypeOK, Fetch
<1> HIDE DEF x
<1>4. \A m \in Minutes : ~Passed(x, m)
  BY <1>1, <1>3, BegunType DEF Passed, calculateOhlcvTimeRange, FetchInv, AtStart
<1> QED
  <2>1. fetch[f].kept = {} /\ fetch[f].page = {}
    BY <1>1 DEF FetchInv, AtStart, TypeOK
  <2> QED
    BY <1>1, <1>3, <1>4, <2>1, BegunType
    DEF FetchInv, AtStart, PageHolds, Covered, HasNoHoles, Whole, x

LEMMA FetchPageHolds ==
  ASSUME TypeOK, NEW f \in Fetches, FetchPage(f), FetchInv(f)
  PROVE  FetchInv(f)'
<1> DEFINE page == Answer(fetch[f].start, fetch[f].limit)
           x == fetch'[f]
<1>1. f \in Begun /\ fetch[f].phase = "fetch"
  BY DEF FetchPage, Begun
<1>2. /\ x.phase = IF page = {} THEN "saved" ELSE "save"
      /\ x.page = page /\ x.readAt = now
      /\ x.begun = fetch[f].begun /\ x.kept = fetch[f].kept
      /\ x.start = fetch[f].start /\ x.limit = fetch[f].limit
      /\ x.direction = fetch[f].direction /\ x.origin = fetch[f].origin
      /\ UNCHANGED <<now, market, zone, windowed>>
  BY <1>1, BegunType DEF FetchPage, TypeOK, Fetch, where
<1>3. \A k \in page : fetch[f].start <= k /\ k <= now
  BY <1>1, BegunType DEF Answer
<1>4. ASSUME NEW m \in market, fetch[f].start <= m
      PROVE  /\ \A k \in page : m <= k => m \in page
             /\ m < fetch[f].start + fetch[f].limit => m \in page
             /\ ~windowed /\ fetch[f].limit > 1 =>
                  m \in page \/ Cardinality(page) > 1
  BY <1>1, <1>4, BegunType, AnswerClosed, AnswerHasWindow, AnswerGoesOn
<1>5. page \subseteq market
  BY AnswerType
<1> HIDE DEF x, page
<1>6. PageHolds(f)'
  <2>1. x.phase = "saved" => x.page \subseteq x.kept
    BY <1>2
  <2>2. x.begun <= x.readAt
    BY <1>1, <1>2 DEF FetchInv, AtStart
  <2> QED
    BY <1>1, <1>2, <1>3, <1>4, <2>1, <2>2, BegunType DEF PageHolds, x
<1>7. Covered(f)'
  BY <1>1, <1>2 DEF Covered, FetchInv, Passed, Hidden, x
<1>8. AtStart(f)'
  BY <1>1, <1>2, BegunType DEF AtStart, FetchInv, x
<1>9. ASSUME NEW m \in Minutes, Passed(fetch[f], m), m \in market
      PROVE  m \in fetch[f].kept \/ Hidden(m, fetch[f].direction)
  BY <1>1, <1>9 DEF FetchInv, Covered
<1>10. Whole(f, fetch[f].kept \cup page)
  <2>1. ASSUME NEW m \in market, NEW k \in fetch[f].kept \cup page,
               fetch[f].direction = "ASC", fetch[f].origin <= m, m <= k
        PROVE  m \in fetch[f].kept \cup page \/ Hidden(m, "ASC")
    <3>1. CASE k \in fetch[f].kept
      BY <2>1, <3>1 DEF FetchInv, HasNoHoles, Whole
    <3>2. CASE k \in page /\ fetch[f].start <= m
      BY <1>4, <2>1, <3>2
    <3>3. CASE m < fetch[f].start
      BY <1>1, <1>9, <2>1, <3>3, BegunType DEF Passed
    <3> QED
      BY <1>1, <2>1, <3>1, <3>2, <3>3, BegunType
  <2>2. ASSUME NEW m \in market, NEW k \in fetch[f].kept \cup page,
               fetch[f].direction = "DESC", k <= m, m <= fetch[f].origin,
               m < fetch[f].begun
        PROVE  m \in fetch[f].kept \cup page \/ Hidden(m, "DESC")
    <3>1. CASE k \in fetch[f].kept
      BY <2>2, <3>1 DEF FetchInv, HasNoHoles, Whole
    <3>2. CASE k \in page /\ m < fetch[f].start + fetch[f].limit
      <4>1. k \in Int /\ m \in Int /\ fetch[f].start \in Int
        BY <1>1, <1>5, <3>2, BegunType
      <4>2. fetch[f].start <= m
        BY <1>3, <2>2, <3>2, <4>1
      <4> QED
        BY <1>4, <3>2, <4>2
    <3>3. CASE ~(m < fetch[f].start + fetch[f].limit)
      BY <1>1, <1>9, <2>2, <3>3, BegunType DEF Passed
    <3> QED
      BY <2>2, <3>1, <3>2, <3>3
  <2> QED
    BY <2>1, <2>2 DEF Whole
<1>11. HasNoHoles(f)'
  BY <1>2, <1>10 DEF HasNoHoles, Whole, FetchInv, Hidden, x
<1> QED
  BY <1>6, <1>7, <1>8, <1>11 DEF FetchInv

\* The page of a call that failed goes on being one without holes.
LEMMA FailureHolds ==
  ASSUME TypeOK, NEW f \in Fetches, CallFails(f), FetchInv(f)
  PROVE  FetchInv(f)'
<1> DEFINE x == fetch'[f]
<1>1. f \in Begun
  BY DEF CallFails, Begun
<1>2. /\ x.phase = "failed" /\ x.readAt = 0 /\ x.page \in {fetch[f].page, {}}
      /\ x.begun = fetch[f].begun /\ x.kept = fetch[f].kept
      /\ x.direction = fetch[f].direction /\ x.origin = fetch[f].origin
      /\ UNCHANGED <<now, market, zone>>
  BY <1>1, BegunType DEF CallFails, TypeOK, Fetch, where
<1> HIDE DEF x
<1>3. AtStart(f)' /\ PageHolds(f)' /\ Covered(f)'
  BY <1>1, <1>2, BegunType DEF FetchInv, AtStart, PageHolds, Covered, x
<1>4. \A S : Whole(f, S) => Whole(f, S)'
  BY <1>2 DEF Whole, Hidden, x
<1>5. \/ x.kept \cup x.page = fetch[f].kept
      \/ x.kept \cup x.page = fetch[f].kept \cup fetch[f].page
  BY <1>2
<1>6. HasNoHoles(f)'
  BY <1>2, <1>4, <1>5 DEF FetchInv, HasNoHoles, x
<1> QED
  BY <1>3, <1>6 DEF FetchInv

\* An insert puts the page it was for with the rest, early or late.
LEMMA InsertHolds ==
  ASSUME TypeOK, NEW f \in Fetches, InsertPage(f), FetchInv(f)
  PROVE  FetchInv(f)'
<1> DEFINE x == fetch[f]
           y == fetch'[f]
<1>1. /\ f \in Begun /\ x.phase \in {"save", "failed"}
      /\ UNCHANGED <<now, market, zone, windowed>>
  BY InsertGives DEF InsertPage, where
<1>2. /\ y.kept = x.kept \cup x.page /\ y.readAt = x.readAt
      /\ y.begun = x.begun /\ y.origin = x.origin /\ y.start = x.start
      /\ y.direction = x.direction /\ y.limit = x.limit
      /\ \/ x.phase = "save" /\ y.phase = "saved" /\ y.page = x.page
         \/ y.phase = "failed" /\ y.page = {}
  BY InsertGives DEF TypeOK
<1> HIDE DEF x, y
<1>3. AtStart(f)' /\ PageHolds(f)'
  BY <1>1, <1>2 DEF FetchInv, AtStart, PageHolds, x, y
<1>4. Covered(f)'
  BY <1>1, <1>2 DEF FetchInv, Covered, Passed, Hidden, x, y
<1>5. \A S : Whole(f, S) => Whole(f, S)'
  BY <1>1, <1>2 DEF Whole, Hidden, x, y
<1>6. y.kept \cup y.page = x.kept \cup x.page
  BY <1>2
<1>7. HasNoHoles(f)'
  BY <1>2, <1>5, <1>6 DEF FetchInv, HasNoHoles, x, y
<1> QED
  BY <1>3, <1>4, <1>7 DEF FetchInv

\* How far the local clock moves forward, if it does.
LEMMA ShiftIs ==
  ASSUME TypeOK
  PROVE  /\ zone.at \in Int /\ zone.by \in Int
         /\ Max({zone.by, 0}) = IF zone.by > 0 THEN zone.by ELSE 0
<1>1. zone.at \in Int /\ zone.by \in Int
  BY ZonesAssumption DEF TypeOK
<1> DEFINE S == {zone.by, 0}
<1>2. IsFiniteSet(S)
  <2>1. IsFiniteSet({zone.by})
    BY FS_Singleton
  <2>2. IsFiniteSet({zone.by} \cup {0})
    BY <2>1, FS_AddElement
  <2> QED
    BY <2>2
<1>3. Max(S) \in S /\ \A m \in S : m <= Max(S)
  BY <1>1, <1>2, MaxOf
<1> QED
  BY <1>1, <1>3

\* The next minute forwards steps over nothing but what the clock hides.
LEMMA NextForward ==
  ASSUME TypeOK, NEW k \in Int, NEW m \in Int, k < m, m < Utc(Local(k) + 1)
  PROVE  Hidden(m, "ASC")
BY ShiftIs DEF Utc, Local, Hidden

\* And so does the next minute backwards.
LEMMA NextBackward ==
  ASSUME TypeOK, NEW k \in Int, NEW m \in Int, m < k, Utc(Local(k) - 1) < m
  PROVE  Hidden(m, "DESC")
BY ShiftIs DEF Utc, Local, Hidden

\* What the end of a round does to the fetch.
LEMMA EndRoundIs ==
  ASSUME TypeOK, NEW f \in Fetches, EndRound(f)
  PROVE  /\ f \in Begun /\ fetch[f].phase = "saved"
         /\ fetch'[f].kept = fetch[f].kept
         /\ fetch'[f].page = {} /\ fetch'[f].readAt = 0
         /\ fetch'[f].begun = fetch[f].begun
         /\ fetch'[f].origin = fetch[f].origin
         /\ fetch'[f].direction = fetch[f].direction
         /\ fetch'[f].limit = fetch[f].limit
         /\ \/ fetch'[f].phase = "ended" /\ (Exhausted(f) \/ TargetReached(f))
            \/ /\ fetch'[f].phase = "fetch" /\ fetch[f].page # {}
               /\ fetch'[f].start = calculateOhlcvTimeRange(NextMinute(f),
                                      fetch[f].limit, fetch[f].direction)
         /\ UNCHANGED <<now, market, zone, windowed>>
<1> DEFINE x == [fetch[f] EXCEPT !.totalSaved = @ + CountSaved(f),
                                 !.inserted = 0, !.page = {}, !.readAt = 0]
<1>1. f \in Begun /\ fetch[f].phase = "saved" /\ fetch[f] \in Fetch
  BY DEF EndRound, Begun, TypeOK
<1>2. UNCHANGED <<now, market, zone, windowed>>
  BY DEF EndRound, where
<1>3. /\ x.kept = fetch[f].kept
      /\ x.page = {} /\ x.readAt = 0
      /\ x.begun = fetch[f].begun /\ x.origin = fetch[f].origin
      /\ x.direction = fetch[f].direction /\ x.limit = fetch[f].limit
      /\ DOMAIN x = DOMAIN fetch[f]
  BY <1>1 DEF Fetch
<1> HIDE DEF x
<1>4. CASE /\ Exhausted(f) \/ TargetReached(f)
           /\ fetch' = [fetch EXCEPT ![f] = [x EXCEPT !.phase = "ended"]]
  <2>1. fetch'[f] = [x EXCEPT !.phase = "ended"]
    BY <1>4 DEF TypeOK
  <2> QED
    BY <1>1, <1>2, <1>3, <1>4, <2>1 DEF Fetch
<1>5. CASE /\ ~Exhausted(f) /\ ~TargetReached(f)
           /\ fetch' = [fetch EXCEPT ![f] = [x EXCEPT
                 !.phase = "fetch",
                 !.round = IF x.target = Absent THEN @ ELSE @ + 1,
                 !.start = calculateOhlcvTimeRange(NextMinute(f), x.limit,
                                                   x.direction)]]
  <2> DEFINE start == calculateOhlcvTimeRange(NextMinute(f), x.limit, x.direction)
             round == IF x.target = Absent THEN x.round ELSE x.round + 1
  <2>1. fetch'[f] = [x EXCEPT !.phase = "fetch", !.round = round, !.start = start]
    BY <1>5 DEF TypeOK
  <2>2. fetch[f].page # {}
    BY <1>5 DEF Exhausted
  <2>3. start = calculateOhlcvTimeRange(NextMinute(f), fetch[f].limit,
                                        fetch[f].direction)
    BY <1>3
  <2> HIDE DEF start, round
  <2> QED
    BY <1>1, <1>2, <1>3, <2>1, <2>2, <2>3 DEF Fetch
<1> QED
  BY <1>4, <1>5 DEF EndRound, x

LEMMA EndRoundHolds ==
  ASSUME TypeOK, NEW f \in Fetches, EndRound(f), FetchInv(f)
  PROVE  FetchInv(f)'
<1> DEFINE x == fetch[f]
           y == fetch'[f]
<1>1. /\ f \in Begun /\ x.phase = "saved"
      /\ y.kept = x.kept /\ y.page = {} /\ y.readAt = 0
      /\ y.begun = x.begun /\ y.origin = x.origin
      /\ y.direction = x.direction /\ y.limit = x.limit
      /\ \/ y.phase = "ended"
         \/ /\ y.phase = "fetch" /\ x.page # {}
            /\ y.start = calculateOhlcvTimeRange(NextMinute(f), x.limit, x.direction)
      /\ UNCHANGED <<now, market, zone>>
  BY EndRoundIs
<1>2. /\ x.origin \in Int /\ x.begun \in Int /\ x.start \in Int
      /\ x.readAt \in Int /\ x.limit \in Nat \ {0}
      /\ x.direction \in {"ASC", "DESC"}
      /\ x.page \subseteq market /\ x.kept \subseteq market
      /\ now \in Int /\ 0 <= now
      /\ \A m \in Minutes : m \in Int
      /\ \A m \in market : m \in Int /\ m \in Minutes /\ m <= now
  BY <1>1, BegunType
<1>3. /\ x.begun <= x.readAt /\ x.readAt <= now /\ x.begun <= now
      /\ \A k \in x.page : x.start <= k /\ k <= x.readAt
  BY <1>1 DEF FetchInv, PageHolds, AtStart
<1>4. ASSUME NEW m \in market, NEW k \in x.page, x.start <= m, m <= k
      PROVE  m \in x.kept
  BY <1>1, <1>4 DEF FetchInv, PageHolds
<1>5. ASSUME NEW m \in market, x.start <= m, m < x.start + x.limit, m < x.readAt
      PROVE  m \in x.kept
  BY <1>1, <1>5 DEF FetchInv, PageHolds
<1>6. ASSUME NEW m \in Minutes, Passed(x, m),
             m \in market \/ (x.direction = "ASC" /\ now <= m)
      PROVE  m \in x.kept \/ Hidden(m, x.direction)
  BY <1>1, <1>6 DEF FetchInv, Covered
<1>7. ASSUME NEW d
      PROVE  \A m : Hidden(m, d)' <=> Hidden(m, d)
  BY <1>1 DEF Hidden
<1>8. AtStart(f)' /\ PageHolds(f)'
  BY <1>1, <1>2, <1>3 DEF AtStart, PageHolds
<1>9. HasNoHoles(f)'
  <2>1. y.kept = x.kept /\ y.kept \cup y.page = x.kept
    BY <1>1
  <2>2. \A S : Whole(f, S) => Whole(f, S)'
    BY <1>1, <1>7 DEF Whole
  <2> QED
    BY <2>1, <2>2 DEF FetchInv, HasNoHoles
<1>10. ASSUME y.phase = "fetch", NEW m \in Minutes, Passed(y, m),
              m \in market \/ (y.direction = "ASC" /\ now <= m)
       PROVE  m \in y.kept \/ Hidden(m, y.direction)
  <2>1. CASE x.direction = "ASC"
    <3>1. PICK k \in x.page : /\ \A i \in x.page : i <= k
                              /\ NextMinute(f) = Utc(Local(k) + 1)
      BY <1>1, <1>10, <2>1, NextMinuteIs
    <3>2. y.start = Utc(Local(k) + 1) /\ k \in Int /\ k <= now /\ m \in Int
      BY <1>1, <1>2, <1>10, <2>1, <3>1 DEF calculateOhlcvTimeRange
    <3>3. x.origin <= m /\ m < y.start
      BY <1>1, <1>10, <2>1 DEF Passed
    <3>4. CASE m < x.start
      BY <1>1, <1>6, <1>10, <2>1, <3>3, <3>4 DEF Passed
    <3>5. CASE x.start <= m /\ m <= k
      <4>1. m \in market
        <5>1. CASE now <= m
          <6>1. m = k
            BY <1>2, <3>2, <3>5, <5>1
          <6> QED
            BY <1>2, <6>1
        <5> QED
          BY <1>10, <5>1
      <4> QED
        BY <1>1, <1>4, <3>5, <4>1
    <3>6. CASE k < m
      BY <1>1, <2>1, <3>2, <3>3, <3>6, NextForward
    <3> QED
      BY <1>2, <3>2, <3>4, <3>5, <3>6
  <2>2. CASE x.direction = "DESC"
    <3>1. PICK k \in x.page : /\ \A i \in x.page : k <= i
                              /\ NextMinute(f) = Utc(Local(k) - 1)
      BY <1>1, <1>10, <2>2, NextMinuteIs
    <3>2. /\ y.start = Utc(Local(k) - 1) - (x.limit - 1)
          /\ Utc(Local(k) - 1) \in Int
          /\ k \in Int /\ x.start <= k /\ m \in Int /\ m \in market
      BY <1>1, <1>2, <1>3, <1>10, <2>2, <3>1, NextMinuteIs
      DEF calculateOhlcvTimeRange
    <3>3. y.start + x.limit <= m /\ m <= x.origin /\ m < x.begun
      BY <1>1, <1>10, <2>2 DEF Passed
    <3>4. Utc(Local(k) - 1) < m
      BY <1>2, <3>2, <3>3
    <3>5. CASE ~(m < x.start + x.limit)
      BY <1>1, <1>2, <1>6, <2>2, <3>2, <3>3, <3>5 DEF Passed
    <3>6. CASE k <= m /\ m < x.start + x.limit
      <4>1. x.start <= m /\ m < x.readAt
        BY <1>2, <1>3, <3>2, <3>3, <3>6
      <4> QED
        BY <1>1, <1>5, <3>2, <3>6, <4>1
    <3>7. CASE m < k
      BY <1>1, <2>2, <3>2, <3>4, <3>7, NextBackward
    <3> QED
      BY <3>2, <3>5, <3>6, <3>7
  <2> QED
    BY <1>2, <2>1, <2>2
<1>11. Covered(f)'
  BY <1>1, <1>7, <1>10 DEF Covered
<1> QED
  BY <1>8, <1>9, <1>11 DEF FetchInv

-----------------------------------------------------------------------------
(* The steps of everybody else *)

\* Another command's step, or a page others save, leaves a fetch where it is.
LEMMA Elsewhere ==
  ASSUME TypeOK, NEW f \in Begun, fetch'[f] = fetch[f],
         UNCHANGED <<now, market, where>>, FetchInv(f)
  PROVE  FetchInv(f)'
BY DEF FetchInv, AtStart, PageHolds, Covered, HasNoHoles, Whole, Passed, Hidden,
   where

LEMMA TickHolds ==
  ASSUME TypeOK, Tick, NEW f \in Begun, FetchInv(f)
  PROVE  FetchInv(f)'
<1>1. /\ fetch'[f] = fetch[f] /\ now' = now + 1
      /\ UNCHANGED <<market, windowed, zone>>
  BY DEF Tick, where
<1>2. \A m \in Minutes : now' <= m => now <= m
  BY <1>1, BegunType
<1>3. AtStart(f)'
  BY <1>1, BegunType DEF FetchInv, AtStart
<1>4. Covered(f)'
  BY <1>1, <1>2 DEF FetchInv, Covered, Passed, Hidden
<1>5. PageHolds(f)' /\ HasNoHoles(f)'
  BY <1>1 DEF FetchInv, PageHolds, HasNoHoles, Whole, Hidden
<1> QED
  BY <1>3, <1>4, <1>5 DEF FetchInv

\* A price that is new is later than every price a fetch has.
LEMMA TradeHolds ==
  ASSUME TypeOK, Trade, NEW f \in Begun, FetchInv(f)
  PROVE  FetchInv(f)'
<1> DEFINE x == fetch[f]
<1>1. /\ fetch'[f] = x /\ now \notin market /\ market' = market \cup {now}
      /\ UNCHANGED <<now, windowed, zone>>
  BY DEF Trade, where
<1>2. /\ x.page \subseteq market /\ x.kept \subseteq market
      /\ now \in Int /\ now \in Minutes /\ x.begun \in Int /\ x.readAt \in Int
      /\ x.direction \in {"ASC", "DESC"}
      /\ \A m \in market : m \in Int /\ m <= now
  BY BegunType
<1>3. x.begun <= now /\ x.readAt <= now
  BY DEF FetchInv, AtStart
<1>4. \A k \in x.page \cup x.kept : ~(now <= k)
  BY <1>1, <1>2
<1>5. ~(now < x.begun) /\ ~(now < x.readAt)
  BY <1>2, <1>3
<1>6. AtStart(f)'
  BY <1>1 DEF FetchInv, AtStart
<1>7. PageHolds(f)'
  BY <1>1, <1>4, <1>5 DEF FetchInv, PageHolds
<1>8. HasNoHoles(f)'
  <2>1. ASSUME NEW S \in SUBSET (x.page \cup x.kept), Whole(f, S)
        PROVE  Whole(f, S)'
    BY <1>1, <1>4, <1>5, <2>1 DEF Whole, Hidden
  <2>2. x.kept \cup x.page \in SUBSET (x.page \cup x.kept)
    OBVIOUS
  <2> QED
    BY <1>1, <2>1, <2>2 DEF FetchInv, HasNoHoles
<1>9. Covered(f)'
  <2>1. ~(x.direction = "ASC") => ~Passed(x, now)
    BY <1>5 DEF Passed
  <2>2. now <= now
    BY <1>2
  <2>3. \A m \in Minutes :
          Passed(x, m) /\ (m \in market' \/ (x.direction = "ASC" /\ now <= m))
          => m \in market \/ (x.direction = "ASC" /\ now <= m)
    BY <1>1, <2>1, <2>2
  <2> QED
    BY <1>1, <2>3 DEF FetchInv, Covered, Hidden
<1> QED
  BY <1>6, <1>7, <1>8, <1>9 DEF FetchInv

LEMMA InitHoles == Init => HolesInv
BY DEF Init, HolesInv, Begun

LEMMA NextHoles ==
  ASSUME TypeOK, HolesInv, [Next]_vars
  PROVE  HolesInv'
<1> SUFFICES ASSUME NEW g \in Begun'
             PROVE  FetchInv(g)'
  BY DEF HolesInv
<1>1. g \in Fetches /\ fetch'[g] # NoFetch
  BY DEF Begun
<1>2. g \in Begun => FetchInv(g)
  BY DEF HolesInv
<1>3. CASE Tick
  BY <1>1, <1>2, <1>3, TickHolds DEF Tick, Begun
<1>4. CASE Trade
  BY <1>1, <1>2, <1>4, TradeHolds DEF Trade, Begun
<1>5. ASSUME fetch'[g] = fetch[g], UNCHANGED <<now, market, where>>
      PROVE  FetchInv(g)'
  BY <1>1, <1>2, <1>5, Elsewhere DEF Begun
<1>6. ASSUME NEW f \in Fetches, NEW from \in Minutes, NEW direction,
             NEW limit \in Limits, NEW target \in Targets,
             BeginFetch(f, from, direction, limit, target)
      PROVE  FetchInv(g)'
  <2>1. CASE g = f
    BY <1>6, <2>1, BeginHolds
  <2>2. CASE g # f
    BY <1>1, <1>5, <1>6, <2>2 DEF BeginFetch, TypeOK
  <2> QED
    BY <2>1, <2>2
<1>7. ASSUME NEW f \in Fetches, Round(f) \/ CallFails(f) \/ InsertPage(f)
      PROVE  FetchInv(g)'
  <2>1. f \in Begun
    BY <1>7 DEF Round, FindExchange, FetchPage, InsertPage, EndRound, CallFails, Begun
  <2>2. CASE g = f
    BY <1>2, <1>7, <2>1, <2>2, FindHolds, FetchPageHolds, InsertHolds,
       EndRoundHolds, FailureHolds DEF Round
  <2>3. CASE g # f
    <3>1. UNCHANGED <<now, market, where>>
      BY <1>7 DEF Round, FindExchange, FetchPage, InsertPage, EndRound, CallFails
    <3>2. fetch'[g] = fetch[g]
      BY <1>1, <1>7, <2>3
      DEF Round, FindExchange, FetchPage, InsertPage, EndRound, CallFails, TypeOK
    <3> QED
      BY <1>5, <3>1, <3>2
  <2> QED
    BY <2>2, <2>3
<1>8. ASSUME NEW since \in Minutes, SaveOther(Answer(since, FetchLimit))
      PROVE  FetchInv(g)'
  BY <1>5, <1>8 DEF SaveOther
<1>9. CASE UNCHANGED vars
  BY <1>5, <1>9 DEF vars, where
<1> QED
  BY <1>3, <1>4, <1>6, <1>7, <1>8, <1>9 DEF Next

\* A fetch has saved every price there was, when it began, between its starting
\* minute and the furthest it has got, but for what a clock that is put back
\* hides.
THEOREM NoHolesLeft == Spec => []NoHoles
<1>1. HolesInv => NoHoles
  BY DEF HolesInv, FetchInv, HasNoHoles, Whole, NoHoles
<1>2. Spec => []HolesInv
  BY TypeCorrect, InitHoles, NextHoles, PTL DEF Spec
<1> QED
  BY <1>1, <1>2, PTL

\* A forward fetch that ends by itself has every price from its starting minute
\* to the minute before its last page was read, if the exchange does not end
\* its answers with the window and it asks for more than one price.
THEOREM CaughtUp == Spec => EndsCaughtUp
<1> DEFINE Step ==
      \A f \in Begun :
        /\ fetch[f].phase = "saved" /\ fetch'[f].phase = "ended"
        /\ fetch[f].direction = "ASC" /\ ~TargetReached(f)
        /\ ~windowed /\ fetch[f].limit > 1
        => \A m \in market :
             /\ fetch[f].origin <= m /\ m < fetch[f].readAt
             => m \in fetch'[f].kept \/ Hidden(m, "ASC")
<1>1. ASSUME TypeOK, HolesInv, [Next]_vars, NEW f \in Begun,
             fetch[f].phase = "saved", fetch'[f].phase = "ended",
             fetch[f].direction = "ASC", ~TargetReached(f),
             ~windowed, fetch[f].limit > 1, NEW m \in market,
             fetch[f].origin <= m, m < fetch[f].readAt
      PROVE  m \in fetch'[f].kept \/ Hidden(m, "ASC")
  <2>1. EndRound(f)
    <3>1. fetch'[f] # fetch[f]
      BY <1>1
    <3>2. ASSUME NEW g \in Fetches, NEW from \in Minutes, NEW direction,
                 NEW limit \in Limits, NEW target \in Targets,
                 BeginFetch(g, from, direction, limit, target)
          PROVE  FALSE
      <4>1. g # f
        BY <3>2 DEF BeginFetch, Begun
      <4> QED
        BY <3>1, <3>2, <4>1 DEF BeginFetch, TypeOK
    <3>3. ASSUME NEW g \in Fetches, Round(g) \/ CallFails(g) \/ InsertPage(g)
          PROVE  EndRound(f)
      <4>1. g = f
        BY <1>1, <3>1, <3>3, BegunType
        DEF Round, FindExchange, FetchPage, InsertPage, EndRound, CallFails, TypeOK
      <4>2. ~CallFails(f) /\ ~InsertPage(f)
        BY <1>1, BegunType DEF CallFails, InsertPage, TypeOK, Fetch
      <4> QED
        BY <1>1, <3>3, <4>1, <4>2 DEF Round, FindExchange, FetchPage
    <3>4. ~(Tick \/ Trade \/ (\E since \in Minutes :
                                SaveOther(Answer(since, FetchLimit))))
      BY <3>1 DEF Tick, Trade, SaveOther
    <3>5. ~UNCHANGED vars
      BY <3>1 DEF vars
    <3> QED
      BY <1>1, <3>2, <3>3, <3>4, <3>5 DEF Next
  <2>2. FetchInv(f) /\ f \in Fetches
    BY <1>1 DEF HolesInv, Begun
  <2>3. /\ Exhausted(f)
        /\ fetch'[f].kept = fetch[f].kept
    BY <1>1, <2>1, <2>2, EndRoundIs
  <2>4. ~(Cardinality(fetch[f].page) > 1)
    <3>1. fetch[f].page = {} => Cardinality(fetch[f].page) = 0
      BY FS_EmptySet
    <3>2. IsFiniteSet(fetch[f].page)
      BY <1>1, BegunType, MarketFinite, FS_Subset
    <3>3. Cardinality(fetch[f].page) \in Nat
      BY <3>2, FS_CardinalityType
    <3> QED
      BY <2>3, <3>1, <3>3 DEF Exhausted
  <2>5. CASE m < fetch[f].start
    BY <1>1, <2>2, <2>3, <2>5, BegunType DEF FetchInv, Covered, Passed
  <2>6. CASE fetch[f].start <= m
    BY <1>1, <2>2, <2>3, <2>4, <2>6 DEF FetchInv, PageHolds
  <2> QED
    BY <1>1, <2>5, <2>6, BegunType
<1>2. ASSUME TypeOK, HolesInv, [Next]_vars
      PROVE  Step
  BY <1>1, <1>2
<1> HIDE DEF Step
<1>3. ASSUME TypeOK, HolesInv, [Next]_vars
      PROVE  [Step]_vars
  BY <1>2, <1>3
<1>4. Spec => []HolesInv
  BY TypeCorrect, InitHoles, NextHoles, PTL DEF Spec
<1>5. [][Step]_vars => EndsCaughtUp
  BY DEF EndsCaughtUp, Step
<1> QED
  BY TypeCorrect, <1>3, <1>4, <1>5, PTL DEF Spec

-----------------------------------------------------------------------------
(* The totals of the commands add up to the table, but for lost answers *)

\* Finitely many fetches have begun.
TotalsInv == IsFiniteSet(Begun) /\ TotalsAddUp

LEMMA AccountedType ==
  ASSUME TypeOK, IsFiniteSet(Begun)
  PROVE  /\ \A f \in Begun : Accounted[f] \in Nat
         /\ SumFunction(Accounted) = SumFunctionOnSet(Accounted, Begun)
         /\ SumFunction(Accounted) \in Nat
<1>1. \A f \in Begun : Accounted[f] \in Nat
  BY BegunType DEF Accounted, Fetch
<1>2. SumFunction(Accounted) = SumFunctionOnSet(Accounted, Begun)
  BY DEF SumFunction, Accounted
<1> QED
  BY <1>1, <1>2, SumIsNatural

LEMMA SavedFinite ==
  ASSUME TypeOK
  PROVE  IsFiniteSet(saved) /\ Cardinality(saved) \in Nat
<1>1. saved \in SUBSET market
  BY DEF TypeOK
<1> QED
  BY <1>1, MarketFinite, FS_Subset, FS_CardinalityType

\* A page adds what the table does not have of it.
LEMMA PageAdds ==
  ASSUME TypeOK, NEW page \in SUBSET market
  PROVE  /\ Cardinality(page \ saved) \in Nat
         /\ Cardinality(saved \cup page)
              = Cardinality(saved) + Cardinality(page \ saved)
<1>1. PICK new \in SUBSET market : new = page \ saved
  OBVIOUS
<1>2. IsFiniteSet(new) /\ Cardinality(new) \in Nat
  BY MarketFinite, FS_Subset, FS_CardinalityType
<1>3. saved \cup page = saved \cup new /\ saved \cap new = {}
  BY <1>1
<1>4. Cardinality(saved \cup new)
        = Cardinality(saved) + Cardinality(new) - Cardinality(saved \cap new)
  BY <1>2, SavedFinite, FS_Union
<1>5. Cardinality(saved \cup new) = Cardinality(saved) + Cardinality(new)
  <2>1. Cardinality(saved \cap new) = 0
    BY <1>3, FS_EmptySet
  <2>2. PICK i, j \in Nat : i = Cardinality(saved) /\ j = Cardinality(new)
    BY <1>2, SavedFinite
  <2> QED
    BY <1>4, <2>1, <2>2
<1> QED
  BY <1>1, <1>2, <1>3, <1>5

LEMMA TotalsBegin == Init => TotalsInv
<1> SUFFICES ASSUME Init
             PROVE  TotalsInv
  OBVIOUS
<1>1. Begun = {} /\ saved = {} /\ others.prices = 0
  BY DEF Init, Begun
<1>2. DOMAIN Accounted = {}
  BY <1>1 DEF Accounted
<1>3. SumFunction(Accounted) = 0
  BY <1>2, SumOfNone DEF SumFunction
<1> QED
  BY <1>1, <1>3, FS_EmptySet DEF TotalsInv, TotalsAddUp

\* A step that neither begins a fetch nor adds to the table.
LEMMA TotalsStay ==
  ASSUME TypeOK, TotalsInv, Begun' = Begun, UNCHANGED <<saved, others>>,
         \A f \in Begun : fetch'[f].totalSaved + fetch'[f].inserted
                           = fetch[f].totalSaved + fetch[f].inserted
  PROVE  TotalsInv'
<1>1. Accounted' = Accounted
  BY DEF Accounted
<1>2. SumFunction(Accounted)' = SumFunction(Accounted)
  BY <1>1
<1> QED
  BY <1>2 DEF TotalsInv, TotalsAddUp

LEMMA BeginTotals ==
  ASSUME TypeOK, TotalsInv, NEW f \in Fetches, NEW from \in Minutes,
         NEW direction, NEW limit \in Limits, NEW target \in Targets,
         BeginFetch(f, from, direction, limit, target)
  PROVE  TotalsInv'
<1>1. /\ fetch[f] = NoFetch /\ fetch'[f] # NoFetch
      /\ fetch'[f].totalSaved = 0 /\ fetch'[f].inserted = 0
      /\ \A g \in Fetches \ {f} : fetch'[g] = fetch[g]
  <2>1. DOMAIN fetch = Fetches /\ fetch[f] = NoFetch
    BY DEF TypeOK, BeginFetch
  <2>2. PICK x \in Fetch : /\ fetch' = [fetch EXCEPT ![f] = x]
                           /\ x.totalSaved = 0 /\ x.inserted = 0
    BY BeginGives
  <2> QED
    BY <2>1, <2>2, NoneAssumption
<1>2. f \notin Begun /\ Begun' = Begun \cup {f}
  BY <1>1 DEF Begun
<1>3. IsFiniteSet(Begun') /\ IsFiniteSet(Begun)
  BY <1>2, FS_AddElement DEF TotalsInv
<1>4. /\ Accounted'[f] = 0
      /\ \A g \in Begun : Accounted'[g] = Accounted[g]
  BY <1>1, <1>2 DEF Accounted, Begun
<1>5. SumFunctionOnSet(Accounted', Begun \cup {f})
        = Accounted'[f] + SumFunctionOnSet(Accounted, Begun)
  BY <1>2, <1>3, <1>4, AccountedType, SumWithOneMore
<1>6. SumFunction(Accounted)' = SumFunctionOnSet(Accounted', Begun')
  BY DEF SumFunction, Accounted
<1>7. SumFunction(Accounted)' = SumFunction(Accounted)
  BY <1>2, <1>3, <1>4, <1>5, <1>6, AccountedType
<1>8. UNCHANGED <<saved, others>>
  BY DEF BeginFetch
<1> QED
  BY <1>3, <1>7, <1>8 DEF TotalsInv, TotalsAddUp

LEMMA InsertTotals ==
  ASSUME TypeOK, TotalsInv, NEW f \in Fetches, InsertPage(f)
  PROVE  TotalsInv'
<1>1. /\ f \in Begun /\ fetch[f].page \in SUBSET market
      /\ NewPrices(f) \in Nat
      /\ Cardinality(saved') = Cardinality(saved) + NewPrices(f)
  <2>1. f \in Begun /\ saved' = saved \cup fetch[f].page
    BY DEF InsertPage, Begun
  <2>2. fetch[f].page \in SUBSET market
    BY <2>1 DEF TypeOK
  <2> QED
    BY <2>1, <2>2, PageAdds DEF NewPrices
<1>2. /\ fetch'[f].totalSaved = fetch[f].totalSaved
      /\ fetch'[f].inserted = NewPrices(f) /\ fetch[f].inserted = 0
      /\ fetch[f].totalSaved \in Nat
      /\ \A g \in Fetches \ {f} : fetch'[g] = fetch[g]
      /\ fetch'[f] # NoFetch
  <2>1. DOMAIN fetch = Fetches
    BY DEF TypeOK
  <2>2. PICK y \in Fetch :
          /\ fetch' = [fetch EXCEPT ![f] = y]
          /\ y.totalSaved = fetch[f].totalSaved
          /\ y.inserted = NewPrices(f)
    BY InsertGives
  <2>3. fetch[f] \in Fetch /\ fetch[f].inserted = 0
    BY InsertGives
  <2> QED
    BY <2>1, <2>2, <2>3, NoneAssumption DEF Fetch
<1>3. Begun' = Begun
  BY <1>1, <1>2 DEF Begun
<1>4. /\ Accounted'[f] = Accounted[f] + NewPrices(f)
      /\ \A g \in Begun \ {f} : Accounted'[g] = Accounted[g]
  BY <1>1, <1>2, <1>3 DEF Accounted, Begun
<1>5. SumFunctionOnSet(Accounted', Begun)
        = SumFunctionOnSet(Accounted, Begun) + NewPrices(f)
  BY <1>1, <1>4, AccountedType, SumWithMore DEF TotalsInv
<1>6. SumFunction(Accounted)' = SumFunctionOnSet(Accounted', Begun')
  BY DEF SumFunction, Accounted
<1>7. SumFunction(Accounted)' = SumFunction(Accounted) + NewPrices(f)
  BY <1>3, <1>5, <1>6, AccountedType DEF TotalsInv
<1>8. UNCHANGED others
  BY DEF InsertPage
<1>9. SumFunction(Accounted) \in Nat /\ others.prices \in Nat
  BY AccountedType DEF TotalsInv, TypeOK
<1> QED
  BY <1>1, <1>3, <1>7, <1>8, <1>9, SavedFinite DEF TotalsInv, TotalsAddUp

LEMMA OtherTotals ==
  ASSUME TypeOK, TotalsInv, NEW since \in Minutes,
         SaveOther(Answer(since, FetchLimit))
  PROVE  TotalsInv'
<1> DEFINE page == Answer(since, FetchLimit)
<1>1. page \in SUBSET market
  BY AnswerType
<1>2. /\ saved' = saved \cup page /\ UNCHANGED fetch
      /\ others'.prices = others.prices + Cardinality(page \ saved)
  BY DEF SaveOther, TypeOK
<1>3. /\ Cardinality(page \ saved) \in Nat
      /\ Cardinality(saved') = Cardinality(saved) + Cardinality(page \ saved)
  BY <1>1, <1>2, PageAdds
<1>4. Begun' = Begun /\ SumFunction(Accounted)' = SumFunction(Accounted)
  BY <1>2 DEF Begun, Accounted
<1>5. SumFunction(Accounted) \in Nat /\ others.prices \in Nat
  BY AccountedType DEF TotalsInv, TypeOK
<1> HIDE DEF page
<1> QED
  BY <1>2, <1>3, <1>4, <1>5, SavedFinite DEF TotalsInv, TotalsAddUp

\* The end of a round moves what was inserted to the total.
LEMMA EndRoundTotals ==
  ASSUME TypeOK, TotalsInv, NEW f \in Fetches, EndRound(f)
  PROVE  TotalsInv'
<1>1. f \in Begun /\ fetch[f] \in Fetch /\ DOMAIN fetch = Fetches
  BY EndRoundGives DEF TypeOK
<1>2. PICK y \in Fetch :
        /\ fetch' = [fetch EXCEPT ![f] = y] /\ y.inserted = 0
        /\ y.totalSaved = fetch[f].totalSaved + fetch[f].inserted
  BY EndRoundGives
<1>3. y.totalSaved + y.inserted = fetch[f].totalSaved + fetch[f].inserted
  BY <1>1, <1>2 DEF Fetch
<1>4. Begun' = Begun
  BY <1>1, <1>2, NoneAssumption DEF Begun
<1>5. UNCHANGED <<saved, others>>
  BY DEF EndRound
<1> QED
  BY <1>1, <1>2, <1>3, <1>4, <1>5, TotalsStay DEF Begun

LEMMA RoundTotals ==
  ASSUME TypeOK, TotalsInv, NEW f \in Fetches,
         FindExchange(f) \/ FetchPage(f) \/ CallFails(f)
  PROVE  TotalsInv'
<1>1. f \in Begun /\ fetch[f] \in Fetch /\ DOMAIN fetch = Fetches
  BY DEF FindExchange, FetchPage, CallFails, Begun, TypeOK
<1>2. PICK x \in Fetch :
        /\ fetch' = [fetch EXCEPT ![f] = x]
        /\ x.totalSaved = fetch[f].totalSaved /\ x.inserted = fetch[f].inserted
  <2>0. 0 \in Minutes /\ now \in Minutes
    BY MarketFinite, ClockAssumption DEF Minutes
  <2>1. CASE FindExchange(f)
    <3>1. PICK phase \in {"fetch", "failed"} :
            fetch' = [fetch EXCEPT ![f] = [fetch[f] EXCEPT !.phase = phase,
                                                           !.begun = now]]
      <4>1. PICK listed \in BOOLEAN :
              fetch' = [fetch EXCEPT
                ![f].phase = IF listed THEN "fetch" ELSE "failed", ![f].begun = now]
        BY <2>1 DEF FindExchange
      <4> QED
        BY <4>1 DEF TypeOK
    <3> DEFINE x == [fetch[f] EXCEPT !.phase = phase, !.begun = now]
    <3>2. /\ x \in Fetch /\ x.totalSaved = fetch[f].totalSaved
          /\ x.inserted = fetch[f].inserted
      BY <1>1, <2>0 DEF Fetch
    <3> QED
      BY <3>1, <3>2
  <2>2. CASE FetchPage(f)
    <3> DEFINE page == Answer(fetch[f].start, fetch[f].limit)
               phase == IF page = {} THEN "saved" ELSE "save"
               x == [fetch[f] EXCEPT !.phase = phase, !.page = page,
                                     !.readAt = now]
    <3>1. fetch' = [fetch EXCEPT ![f] = x]
      BY <2>2 DEF FetchPage, TypeOK
    <3>2. page \in SUBSET Minutes
      BY AnswerType
    <3> HIDE DEF page
    <3>3. /\ x \in Fetch /\ x.totalSaved = fetch[f].totalSaved
          /\ x.inserted = fetch[f].inserted
      BY <1>1, <2>0, <3>2 DEF Fetch
    <3> QED
      BY <3>1, <3>3
  <2>3. CASE CallFails(f)
    <3> DEFINE page == IF fetch[f].phase = "save" THEN fetch[f].page ELSE {}
               x == [fetch[f] EXCEPT !.phase = "failed", !.readAt = 0,
                                     !.page = page]
    <3>1. fetch' = [fetch EXCEPT ![f] = x]
      BY <2>3 DEF CallFails, TypeOK
    <3>2. /\ x \in Fetch /\ x.totalSaved = fetch[f].totalSaved
          /\ x.inserted = fetch[f].inserted
      BY <1>1, <2>0 DEF Fetch
    <3> QED
      BY <3>1, <3>2
  <2> QED
    BY <2>1, <2>2, <2>3
<1>3. Begun' = Begun
  BY <1>1, <1>2, NoneAssumption DEF Begun
<1>4. UNCHANGED <<saved, others>>
  BY DEF FindExchange, FetchPage, CallFails
<1> QED
  BY <1>1, <1>2, <1>3, <1>4, TotalsStay DEF Begun

LEMMA TotalsStayTrue ==
  ASSUME TypeOK, TotalsInv, [Next]_vars
  PROVE  TotalsInv'
<1>1. CASE UNCHANGED vars \/ Tick \/ Trade
  BY <1>1, TotalsStay DEF vars, Tick, Trade, Begun
<1>2. ASSUME NEW f \in Fetches, NEW from \in Minutes,
             NEW direction \in {"ASC", "DESC", "OTHER"},
             NEW limit \in Limits, NEW target \in Targets,
             BeginFetch(f, from, direction, limit, target)
      PROVE  TotalsInv'
  BY <1>2, BeginTotals
<1>3. ASSUME NEW f \in Fetches, Round(f) \/ CallFails(f) \/ InsertPage(f)
      PROVE  TotalsInv'
  BY <1>3, RoundTotals, InsertTotals, EndRoundTotals DEF Round
<1>4. ASSUME NEW since \in Minutes, SaveOther(Answer(since, FetchLimit))
      PROVE  TotalsInv'
  BY <1>4, OtherTotals
<1> QED
  BY <1>1, <1>2, <1>3, <1>4 DEF Next

\* The totals of the commands add up to the table, however many of them save the
\* same minutes, but for what the inserts took whose answers have not arrived or
\* were lost.
THEOREM TotalsAreTrue == Spec => []TotalsAddUp
<1>1. TotalsInv => TotalsAddUp
  BY DEF TotalsInv
<1> QED
  BY <1>1, TotalsBegin, TotalsStayTrue, TypeCorrect, PTL DEF Spec
=============================================================================
