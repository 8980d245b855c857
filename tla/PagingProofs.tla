---------------------------- MODULE PagingProofs ----------------------------
(***************************************************************************)
(* Theorems about Paging for every number of rows, users and walks, every  *)
(* limit and every greatest offset.                                        *)
(***************************************************************************)
EXTENDS Paging, FunctionTheorems, FiniteSetTheorems, SequenceTheorems, TLAPS

-----------------------------------------------------------------------------
(* Places: where a row is in its listing                                   *)

\* The row and those that are listed before it; rows of its time may be.
Above(r) ==
  {x \in Listing(table[r].user) : table[x].createdAt >= table[r].createdAt}

\* Where an untied row is in its listing.
Place(r) == Cardinality(Above(r))

UntiedIn(S) == {r \in S : Untied(r)}

Size(u) == Cardinality(Listing(u))
Lower(a, b) == IF a <= b THEN a ELSE b

LEMMA RowsOf ==
  ASSUME TypeOK
  PROVE  /\ Len(table) \in Nat
         /\ \A r \in RowIds : /\ r \in Nat /\ table[r] \in Row
                              /\ table[r].createdAt \in Int
<1>1. table \in Seq(Row)
  BY DEF TypeOK
<1>2. Len(table) \in Nat
  BY <1>1, LenProperties
<1>3. ASSUME NEW r \in RowIds
      PROVE  /\ r \in Nat /\ table[r] \in Row
             /\ table[r].createdAt \in Int
  <2>1. r \in 1 .. Len(table) /\ r \in Nat
    BY <1>2 DEF RowIds
  <2>2. table[r] \in Row
    BY <1>1, <2>1, ElementOfSeq
  <2>3. table[r].createdAt \in Int
    BY <2>2, BoundsAssumption DEF Row, Times
  <2> QED
    BY <2>1, <2>2, <2>3
<1> QED
  BY <1>2, <1>3

LEMMA ListingFinite ==
  ASSUME TypeOK, NEW u
  PROVE  /\ Listing(u) \in SUBSET RowIds /\ IsFiniteSet(Listing(u))
         /\ Size(u) \in Nat /\ Size(u) <= Len(table)
         /\ \A r \in Listing(u) : table[r].user = u
<1>1. Len(table) \in Nat
  BY RowsOf
<1>2. IsFiniteSet(RowIds) /\ Cardinality(RowIds) = Len(table)
  <2>1. 1 \in Int /\ Len(table) \in Int /\ (1 > Len(table) <=> Len(table) = 0)
    BY <1>1
  <2>2. /\ IsFiniteSet(1 .. Len(table))
        /\ Cardinality(1 .. Len(table))
             = IF 1 > Len(table) THEN 0 ELSE Len(table) - 1 + 1
    BY <2>1, FS_Interval
  <2> QED
    BY <2>1, <2>2 DEF RowIds
<1>3. Listing(u) \in SUBSET RowIds
  BY DEF Listing
<1>4. /\ IsFiniteSet(Listing(u))
      /\ Cardinality(Listing(u)) <= Cardinality(RowIds)
  BY <1>2, <1>3, FS_Subset
<1> QED
  BY <1>2, <1>3, <1>4, FS_CardinalityType DEF Size, Listing

LEMMA PlaceType ==
  ASSUME TypeOK, NEW u, NEW r \in Listing(u)
  PROVE  /\ Above(r) \in SUBSET Listing(u) /\ r \in Above(r)
         /\ IsFiniteSet(Above(r))
         /\ Place(r) \in Int /\ 1 <= Place(r) /\ Place(r) <= Size(u)
<1>1. table[r].user = u /\ table[r].createdAt \in Int
  BY ListingFinite, RowsOf
<1>2. Above(r) \in SUBSET Listing(u) /\ r \in Above(r)
  BY <1>1 DEF Above
<1>3. /\ IsFiniteSet(Above(r))
      /\ Cardinality(Above(r)) <= Cardinality(Listing(u))
  BY <1>2, ListingFinite, FS_Subset
<1>4. Cardinality(Above(r)) \in Nat /\ Cardinality(Above(r)) # 0
  BY <1>2, <1>3, FS_CardinalityType, FS_EmptySet
<1> QED
  BY <1>2, <1>3, <1>4 DEF Place, Size

LEMMA NewerBefore ==
  ASSUME TypeOK, NEW u, NEW r \in Listing(u), NEW x \in Listing(u),
         table[r].createdAt > table[x].createdAt
  PROVE  Place(r) < Place(x)
<1>1. /\ table[r].user = u /\ table[x].user = u
      /\ \A y \in Listing(u) : table[y].createdAt \in Int
  BY ListingFinite, RowsOf
<1>2. Above(r) \in SUBSET Above(x) /\ x \notin Above(r)
  BY <1>1 DEF Above
<1>3. x \in Above(x) /\ IsFiniteSet(Above(x))
  BY PlaceType
<1>4. /\ Cardinality(Above(r)) <= Cardinality(Above(x))
      /\ Cardinality(Above(r)) # Cardinality(Above(x))
  BY <1>2, <1>3, FS_Subset
<1> QED
  BY <1>4, PlaceType DEF Place

\* Untied rows of a listing have places of their own.
LEMMA PlacesDiffer ==
  ASSUME TypeOK, NEW u, NEW r \in Listing(u), NEW x \in Listing(u),
         Untied(r), r # x
  PROVE  /\ table[r].createdAt # table[x].createdAt
         /\ Place(r) # Place(x)
<1>1. table[r] # table[x]
  BY ListingFinite DEF Untied
<1>2. /\ table[r] \in Row /\ table[x] \in Row
      /\ table[r].user = table[x].user
      /\ table[r].createdAt \in Int /\ table[x].createdAt \in Int
  BY ListingFinite, RowsOf
<1>3. table[r].createdAt # table[x].createdAt
  BY <1>1, <1>2 DEF Row
<1>4. Place(r) < Place(x) \/ Place(x) < Place(r)
  BY <1>2, <1>3, NewerBefore
<1> QED
  BY <1>3, <1>4, PlaceType

\* So there are no more of them in a stretch of a listing than it has places.
LEMMA Stretch ==
  ASSUME TypeOK, NEW u, NEW S \in SUBSET UntiedIn(Listing(u)),
         NEW lo \in Int, NEW hi \in Int, lo <= hi,
         \A r \in S : lo < Place(r) /\ Place(r) <= hi
  PROVE  IsFiniteSet(S) /\ Cardinality(S) <= hi - lo
<1> DEFINE T == (lo + 1) .. hi
           place == [r \in S |-> Place(r)]
<1>1. \A r \in S : r \in Listing(u) /\ Untied(r) /\ Place(r) \in T
  BY PlaceType DEF UntiedIn
<1>2. place \in Injection(S, T)
  <2>1. place \in [S -> T]
    BY <1>1
  <2>2. \A r \in S, x \in S : place[r] = place[x] => r = x
    BY <1>1, PlacesDiffer
  <2> QED
    BY <2>1, <2>2 DEF Injection, IsInjective
<1>3. IsFiniteSet(T) /\ Cardinality(T) = hi - lo
  <2>1. lo + 1 \in Int /\ (lo + 1 > hi <=> lo = hi)
    BY Z3
  <2>2. /\ IsFiniteSet(T)
        /\ Cardinality(T) = IF lo + 1 > hi THEN 0 ELSE hi - (lo + 1) + 1
    BY <2>1, FS_Interval
  <2> QED
    BY <2>1, <2>2
<1>4. IsFiniteSet(S) /\ Cardinality(S) <= Cardinality(T)
  BY <1>2, <1>3, FS_Injection
<1> QED
  BY <1>3, <1>4

-----------------------------------------------------------------------------
(* Pages                                                                   *)

LOCAL INSTANCE FiniteSetsExt

LEMMA HeadSize ==
  ASSUME TypeOK, NEW u, NEW k \in Nat, NEW A \in Heads(u, k)
  PROVE  /\ A \in SUBSET Listing(u) /\ IsFiniteSet(A)
         /\ Cardinality(A) = Lower(k, Size(u))
         /\ \A r \in A, x \in Listing(u) \ A :
              table[r].createdAt >= table[x].createdAt
<1>1. /\ A \in SUBSET Listing(u)
      /\ Cardinality(A) = Min({k, Cardinality(Listing(u))})
      /\ \A r \in A, x \in Listing(u) \ A :
           table[r].createdAt >= table[x].createdAt
  BY DEF Heads
<1>2. Min({k, Size(u)}) = Lower(k, Size(u))
  <2>1. Size(u) \in Nat
    BY ListingFinite
  <2> QED
    BY <2>1 DEF Min, Lower
<1> QED
  BY <1>1, <1>2, ListingFinite, FS_Subset DEF Size

\* An untied row is among the first k if that is its place.
LEMMA HeadPlaces ==
  ASSUME TypeOK, NEW u, NEW k \in Nat, NEW A \in Heads(u, k),
         NEW r \in UntiedIn(Listing(u))
  PROVE  r \in A <=> Place(r) <= k
<1>1. r \in Listing(u) /\ Untied(r)
  BY DEF UntiedIn
<1>2. \A x \in Listing(u) : /\ table[x].user = u /\ table[x].createdAt \in Int
                            /\ x # r => table[x].createdAt # table[r].createdAt
  BY <1>1, ListingFinite, RowsOf, PlacesDiffer
<1>3. ASSUME r \in A
      PROVE  Place(r) <= k
  <2>1. Above(r) \in SUBSET A
    BY <1>1, <1>2, <1>3, HeadSize DEF Above
  <2>2. Cardinality(Above(r)) <= Cardinality(A) /\ Cardinality(A) <= k
    BY <2>1, HeadSize, ListingFinite, FS_Subset DEF Lower
  <2>3. Cardinality(A) \in Nat
    BY HeadSize, FS_CardinalityType
  <2> QED
    BY <1>1, <2>2, <2>3, PlaceType DEF Place
<1>4. ASSUME r \notin A
      PROVE  ~(Place(r) <= k)
  <2>1. A \cup {r} \in SUBSET Above(r)
    BY <1>1, <1>2, <1>4, HeadSize DEF Above
  <2>2. Cardinality(A) = k
    <3>1. A # Listing(u)
      BY <1>1, <1>4
    <3>2. Cardinality(A) # Size(u)
      BY <3>1, HeadSize, ListingFinite, FS_Subset DEF Size
    <3> QED
      BY <3>2, HeadSize DEF Lower
  <2>3. /\ IsFiniteSet(A \cup {r})
        /\ Cardinality(A \cup {r}) = k + 1
    BY <1>4, <2>2, HeadSize, FS_AddElement
  <2>4. Cardinality(A \cup {r}) <= Cardinality(Above(r))
    BY <1>1, <2>1, PlaceType, FS_Subset
  <2> QED
    BY <1>1, <2>3, <2>4, PlaceType DEF Place
<1> QED
  BY <1>3, <1>4

LEMMA PageIs ==
  ASSUME TypeOK, NEW u, NEW limit \in Nat, NEW offset \in Nat,
         NEW page \in Pages(u, limit, offset)
  PROVE  /\ page \in SUBSET Listing(u) /\ IsFiniteSet(page)
         /\ Cardinality(page) \in Nat /\ Cardinality(page) <= limit
         /\ Cardinality(page)
              = Lower(offset + limit, Size(u)) - Lower(offset, Size(u))
         /\ \A r \in UntiedIn(Listing(u)) :
              r \in page <=> offset < Place(r) /\ Place(r) <= offset + limit
<1>1. PICK A \in Heads(u, offset) :
        page \in {B \ A : B \in {X \in Heads(u, offset + limit) : A \subseteq X}}
  BY DEF Pages
<1>2. PICK B \in Heads(u, offset + limit) : A \subseteq B /\ page = B \ A
  BY <1>1
<1>3. offset + limit \in Nat
  OBVIOUS
<1>4. /\ A \in SUBSET Listing(u) /\ B \in SUBSET Listing(u)
      /\ IsFiniteSet(A) /\ IsFiniteSet(B)
      /\ Cardinality(A) = Lower(offset, Size(u))
      /\ Cardinality(B) = Lower(offset + limit, Size(u))
  BY <1>3, HeadSize
<1>5. page \in SUBSET Listing(u) /\ IsFiniteSet(page)
  BY <1>2, <1>4, FS_Subset
<1>6. Cardinality(page) = Cardinality(B) - Cardinality(A)
  <2>1. page \cup A = B /\ page \cap A = {}
    BY <1>2
  <2>2. Cardinality(B) = Cardinality(page) + Cardinality(A) - Cardinality({})
    BY <1>4, <1>5, <2>1, FS_Union
  <2>3. Cardinality(page) \in Nat /\ Cardinality(A) \in Nat
    BY <1>4, <1>5, FS_CardinalityType
  <2> QED
    BY <2>2, <2>3, FS_EmptySet
<1>7. Cardinality(page) \in Nat /\ Cardinality(page) <= limit
  <2>1. Cardinality(page) \in Nat /\ Size(u) \in Nat
    BY <1>5, FS_CardinalityType, ListingFinite
  <2> QED
    BY <1>4, <1>6, <2>1 DEF Lower
<1>8. ASSUME NEW r \in UntiedIn(Listing(u))
      PROVE  r \in page <=> offset < Place(r) /\ Place(r) <= offset + limit
  <2>1. r \in A <=> Place(r) <= offset
    BY HeadPlaces
  <2>2. r \in B <=> Place(r) <= offset + limit
    BY <1>3, HeadPlaces
  <2>3. Place(r) \in Int
    BY PlaceType DEF UntiedIn
  <2> QED
    BY <1>2, <2>1, <2>2, <2>3
<1> QED
  BY <1>4, <1>5, <1>6, <1>7, <1>8

-----------------------------------------------------------------------------
(* Type correctness                                                        *)

\* The conjuncts about one walk.
WalkOK(x) ==
  /\ x.offset % x.limit = 0
  /\ x.held <= x.offset + IF x.phase = "refused" THEN x.limit ELSE 0
  /\ Cardinality(x.page) <= x.limit /\ x.count <= Len(table)
  /\ \A r \in x.due \cup x.page \cup x.shown \cup x.repeated :
       r \in RowIds /\ table[r].user = x.user

Waits(x) == x.phase \in {"both", "page", "count"}

LEMMA WalkType ==
  ASSUME TypeOK, NEW w \in Begun
  PROVE  w \in Walks /\ walk[w] \in Walk /\ WalkOK(walk[w])
BY DEF TypeOK, Begun, WalkOK

\* Offsets stay multiples of the limit.
LEMMA NextOffset ==
  ASSUME NEW a \in Nat, NEW b \in Nat \ {0}, a % b = 0
  PROVE  (a + b) % b = 0
<1> DEFINE q == a \div b
           p == (a + b) \div b
           r == (a + b) % b
<1>1. a = b * q + (a % b) /\ q \in Int
  OBVIOUS
<1>2. a + b = b * p + r /\ p \in Int /\ r \in 0 .. b - 1
  OBVIOUS
<1> HIDE DEF p, q, r
<1>3. b * (q + 1 - p) = r /\ q + 1 - p \in Int
  <2>1. b * (q + 1) = b * p + r /\ r \in Int
    BY <1>1, <1>2
  <2> QED
    BY <1>1, <1>2, <2>1
<1>4. CASE q + 1 - p <= 0
  BY <1>2, <1>3, <1>4 DEF r
<1>5. CASE q + 1 - p >= 1
  BY <1>2, <1>3, <1>5 DEF r
<1> QED
  BY <1>3, <1>4, <1>5

LEMMA OneWalk ==
  ASSUME TypeOK, NEW w \in Walks, NEW y \in Walk, WalkOK(y),
         walk' = [walk EXCEPT ![w] = y], UNCHANGED <<table, removed>>
  PROVE  TypeOK'
<1>1. walk' \in [Walks -> Walk \cup {NoWalk}]
  BY DEF TypeOK
<1>2. ASSUME NEW v \in Begun'
      PROVE  WalkOK(walk[v])'
  <2>1. CASE v = w
    BY <2>1 DEF TypeOK, WalkOK, RowIds
  <2>2. CASE v # w
    <3>1. v \in Begun /\ walk'[v] = walk[v]
      BY <1>2, <2>2 DEF Begun, TypeOK
    <3> QED
      BY <3>1, WalkType DEF WalkOK, RowIds
  <2> QED
    BY <2>1, <2>2
<1> QED
  BY <1>1, <1>2 DEF TypeOK, WalkOK, RowIds

\* What an answered page makes of the walk x.
Answered(x, page, count, y) ==
  /\ y \in Walk
  /\ y.user = x.user /\ y.limit = x.limit
  /\ y.inserts = x.inserts /\ y.slips = x.slips
  /\ y.page = {} /\ y.count = 0
  /\ y.repeated = x.repeated \cup (x.shown \cap page)
  /\ \/ /\ y.phase = "ended" /\ count <= x.offset + x.limit
        /\ y.shown = {} /\ y.held = 0 /\ y.offset = 0
        /\ y.due = (x.due \ page) \cap Listing(x.user)
     \/ /\ y.phase = "both" /\ count > x.offset + x.limit
        /\ y.offset = x.offset + x.limit
        /\ y.shown = x.shown \cup page /\ y.due = x.due \ page
        /\ y.held = x.held + Cardinality(page)
     \/ /\ y.phase = "refused" /\ count > x.offset + x.limit
        /\ x.offset + x.limit > MaxOffset /\ y.offset = x.offset
        /\ y.shown = {} /\ y.due = {}
        /\ y.held = x.held + Cardinality(page)

LEMMA AnswerIs ==
  ASSUME NEW x \in Walk, NEW page \in SUBSET Nat, Cardinality(page) \in Nat,
         NEW count \in Nat
  PROVE  Answered(x, page, count, Answer(x, page, count))
<1> DEFINE a == [x EXCEPT !.shown = @ \cup page,
                          !.repeated = @ \cup (x.shown \cap page),
                          !.held = @ + Cardinality(page),
                          !.due = @ \ page,
                          !.page = {}, !.count = 0]
           y == Answer(x, page, count)
<1>1. /\ a \in Walk
      /\ a.user = x.user /\ a.limit = x.limit /\ a.offset = x.offset
      /\ a.inserts = x.inserts /\ a.slips = x.slips
      /\ a.page = {} /\ a.count = 0
      /\ a.repeated = x.repeated \cup (x.shown \cap page)
      /\ a.shown = x.shown \cup page /\ a.due = x.due \ page
      /\ a.held = x.held + Cardinality(page)
  <2>1. /\ x.held \in Nat /\ x.shown \in SUBSET Nat /\ x.due \in SUBSET Nat
        /\ x.repeated \in SUBSET Nat
    BY DEF Walk
  <2>2. x.held + Cardinality(page) \in Nat
    BY <2>1
  <2>3. /\ x.shown \cup page \in SUBSET Nat
        /\ x.due \ page \in SUBSET Nat
        /\ x.repeated \cup (x.shown \cap page) \in SUBSET Nat
    BY <2>1, Zenon
  <2> QED
    BY <2>2, <2>3 DEF Walk
<1> HIDE DEF a
<1>2. x.offset \in Nat /\ x.limit \in Nat /\ MaxOffset \in Nat
  BY LimitsAssumption, BoundsAssumption DEF Walk
<1>3. \/ /\ ~(count > x.offset + x.limit)
         /\ y = [a EXCEPT !.phase = "ended", !.shown = {}, !.held = 0,
                          !.offset = 0, !.due = @ \cap Listing(x.user)]
      \/ /\ count > x.offset + x.limit /\ x.offset + x.limit <= MaxOffset
         /\ y = [a EXCEPT !.phase = "both", !.offset = @ + x.limit]
      \/ /\ count > x.offset + x.limit /\ ~(x.offset + x.limit <= MaxOffset)
         /\ y = [a EXCEPT !.phase = "refused", !.shown = {}, !.due = {}]
  BY DEF Answer, hasMore, a
<1> HIDE DEF y
<1>4. a.due \cap Listing(x.user) \in SUBSET Nat
  <2>1. a.due \in SUBSET Nat
    BY <1>1 DEF Walk
  <2> QED
    BY <2>1
<1>5. ASSUME ~(count > x.offset + x.limit),
             y = [a EXCEPT !.phase = "ended", !.shown = {}, !.held = 0,
                           !.offset = 0, !.due = @ \cap Listing(x.user)]
      PROVE  Answered(x, page, count, y)
  <2>1. y \in Walk
    BY <1>1, <1>4, <1>5 DEF Walk
  <2>2. /\ y.phase = "ended" /\ y.shown = {} /\ y.held = 0 /\ y.offset = 0
        /\ y.due = a.due \cap Listing(x.user)
        /\ y.user = a.user /\ y.limit = a.limit /\ y.inserts = a.inserts
        /\ y.slips = a.slips /\ y.page = a.page /\ y.count = a.count
        /\ y.repeated = a.repeated
    BY <1>1, <1>5 DEF Walk
  <2> QED
    BY <1>1, <1>2, <1>5, <2>1, <2>2 DEF Answered
<1>6. ASSUME count > x.offset + x.limit,
             y = [a EXCEPT !.phase = "both", !.offset = @ + x.limit]
      PROVE  Answered(x, page, count, y)
  <2>1. a.offset + x.limit \in Nat
    BY <1>1, <1>2
  <2>2. y \in Walk
    BY <1>1, <1>6, <2>1 DEF Walk
  <2>3. /\ y.phase = "both" /\ y.offset = x.offset + x.limit
        /\ y.shown = a.shown /\ y.held = a.held /\ y.due = a.due
        /\ y.user = a.user /\ y.limit = a.limit /\ y.inserts = a.inserts
        /\ y.slips = a.slips /\ y.page = a.page /\ y.count = a.count
        /\ y.repeated = a.repeated
    BY <1>1, <1>6 DEF Walk
  <2> QED
    BY <1>1, <1>6, <2>2, <2>3 DEF Answered
<1>7. ASSUME count > x.offset + x.limit, ~(x.offset + x.limit <= MaxOffset),
             y = [a EXCEPT !.phase = "refused", !.shown = {}, !.due = {}]
      PROVE  Answered(x, page, count, y)
  <2>1. y \in Walk
    BY <1>1, <1>7 DEF Walk
  <2>2. /\ y.phase = "refused" /\ y.shown = {} /\ y.due = {}
        /\ y.held = a.held /\ y.offset = a.offset
        /\ y.user = a.user /\ y.limit = a.limit /\ y.inserts = a.inserts
        /\ y.slips = a.slips /\ y.page = a.page /\ y.count = a.count
        /\ y.repeated = a.repeated
    BY <1>1, <1>7 DEF Walk
  <2>3. x.offset + x.limit > MaxOffset
    BY <1>2, <1>7
  <2> QED
    BY <1>1, <1>7, <2>1, <2>2, <2>3 DEF Answered
<1> QED
  BY <1>3, <1>5, <1>6, <1>7 DEF y

LEMMA AnswerType ==
  ASSUME TypeOK, NEW x \in Walk, WalkOK(x), Waits(x), NEW page \in SUBSET RowIds,
         \A r \in page : table[r].user = x.user,
         Cardinality(page) \in Nat, Cardinality(page) <= x.limit,
         NEW count \in Nat
  PROVE  LET y == Answer(x, page, count) IN
         y \in Walk /\ WalkOK(y) /\ Answered(x, page, count, y)
<1>1. PICK y : y = Answer(x, page, count)
  OBVIOUS
<1>2. page \in SUBSET Nat
  BY RowsOf
<1>3. Answered(x, page, count, y)
  BY <1>1, <1>2, AnswerIs
<1>4. /\ x.offset \in Nat /\ x.limit \in Nat \ {0} /\ x.held \in Nat
      /\ x.offset % x.limit = 0 /\ x.held <= x.offset
  <2>1. x.offset \in Nat /\ x.limit \in Limits /\ x.held \in Nat
    BY DEF Walk
  <2>2. x.offset % x.limit = 0
    BY DEF WalkOK
  <2>3. x.held <= x.offset + 0
    BY DEF WalkOK, Waits
  <2>4. x.held <= x.offset
    BY <2>1, <2>3
  <2>5. x.limit \in Nat \ {0}
    BY <2>1, LimitsAssumption
  <2> QED
    BY <2>1, <2>2, <2>4, <2>5
<1>5. /\ y.limit \in Nat \ {0} /\ y.offset \in Nat
      /\ y.offset = x.offset \/ y.offset = x.offset + x.limit \/ y.offset = 0
  BY <1>3, <1>4 DEF Answered
<1>6. y.offset % y.limit = 0
  <2>1. (x.offset + x.limit) % x.limit = 0
    BY <1>4, NextOffset
  <2>2. 0 % x.limit = 0
    BY <1>4
  <2> QED
    BY <1>3, <1>4, <1>5, <2>1, <2>2 DEF Answered
<1>7. y.held <= y.offset + IF y.phase = "refused" THEN y.limit ELSE 0
  BY <1>3, <1>4 DEF Answered
<1>8. Cardinality(y.page) <= y.limit /\ y.count <= Len(table)
  BY <1>3, <1>5, RowsOf, FS_EmptySet DEF Answered
<1>9. \A r \in y.due \cup y.page \cup y.shown \cup y.repeated :
        r \in RowIds /\ table[r].user = y.user
  <2>1. y.due \subseteq x.due /\ y.page = {}
    BY <1>3 DEF Answered
  <2>2. y.shown \cup y.repeated \subseteq x.shown \cup x.repeated \cup page
    BY <1>3 DEF Answered
  <2>3. y.user = x.user
    BY <1>3 DEF Answered
  <2> QED
    BY <2>1, <2>2, <2>3 DEF WalkOK
<1>10. y \in Walk
  BY <1>3 DEF Answered
<1> QED
  BY <1>1, <1>3, <1>6, <1>7, <1>8, <1>9, <1>10 DEF WalkOK

LEMMA BeginType ==
  ASSUME TypeOK, NEW w \in Walks, NEW u \in Users, NEW limit \in Limits,
         BeginWalk(w, u, limit)
  PROVE  TypeOK'
<1> DEFINE y == [user |-> u, limit |-> limit, offset |-> 0, phase |-> "both",
                 page |-> {}, count |-> 0, shown |-> {}, repeated |-> {},
                 held |-> 0, due |-> Listing(u), inserts |-> 0, slips |-> 0]
<1>1. Listing(u) \in SUBSET Nat /\ Listing(u) \in SUBSET RowIds
      /\ \A r \in Listing(u) : table[r].user = u
  BY ListingFinite, RowsOf
<1>2. y \in Walk
  BY <1>1 DEF Walk
<1>3. limit \in Nat \ {0} /\ 0 % limit = 0
  BY LimitsAssumption
<1>4. WalkOK(y)
  BY <1>1, <1>3, RowsOf, FS_EmptySet DEF WalkOK
<1>5. walk' = [walk EXCEPT ![w] = y] /\ UNCHANGED <<table, removed>>
  BY DEF BeginWalk
<1> HIDE DEF y
<1> QED
  BY <1>2, <1>4, <1>5, OneWalk

\* The rows of the page a walk has been answered.
LEMMA PageType ==
  ASSUME TypeOK, NEW w \in Begun
  PROVE  LET x == walk[w] IN
         /\ x.page \in SUBSET RowIds /\ \A r \in x.page : table[r].user = x.user
         /\ Cardinality(x.page) \in Nat /\ Cardinality(x.page) <= x.limit
<1>1. /\ walk[w].page \in SUBSET RowIds
      /\ \A r \in walk[w].page : table[r].user = walk[w].user
      /\ Cardinality(walk[w].page) <= walk[w].limit
  BY WalkType DEF WalkOK
<1>2. IsFiniteSet(RowIds)
  BY RowsOf, FS_Interval DEF RowIds
<1> QED
  BY <1>1, <1>2, FS_Subset, FS_CardinalityType

\* The record a query leaves: FindMany.
FoundMany(x, page, y) ==
  \/ x.phase = "page" /\ y = Answer(x, page, x.count)
  \/ x.phase = "both" /\ y = [x EXCEPT !.phase = "count", !.page = page]

\* Count.
Counted(x, count, y) ==
  \/ x.phase = "count" /\ y = Answer(x, x.page, count)
  \/ x.phase = "both" /\ y = [x EXCEPT !.phase = "page", !.count = count]

LEMMA FindManyIs ==
  ASSUME TypeOK, NEW w \in Walks, FindMany(w)
  PROVE  /\ w \in Begun /\ Waits(walk[w])
         /\ \E page \in Pages(walk[w].user, walk[w].limit, walk[w].offset),
               y \in Walk :
              /\ WalkOK(y) /\ FoundMany(walk[w], page, y)
              /\ walk' = [walk EXCEPT ![w] = y]
         /\ UNCHANGED <<table, removed>>
<1>1. w \in Begun /\ walk[w].phase \in {"both", "page"}
  BY DEF FindMany, Under, Begun
<1>2. PICK x : x = walk[w]
  OBVIOUS
<1>3. x \in Walk /\ WalkOK(x) /\ Waits(x) /\ x.phase \in {"both", "page"}
  BY <1>1, <1>2, WalkType DEF Waits
<1>4. PICK page \in Pages(x.user, x.limit, x.offset) :
        walk' = [walk EXCEPT ![w] =
          IF x.phase = "page" THEN Answer(x, page, x.count)
          ELSE [x EXCEPT !.phase = "count", !.page = page]]
  BY <1>2 DEF FindMany
<1>5. x.limit \in Nat /\ x.offset \in Nat /\ x.count \in Nat
  BY <1>3, LimitsAssumption DEF Walk
<1>6. /\ page \in SUBSET RowIds /\ \A r \in page : table[r].user = x.user
      /\ Cardinality(page) \in Nat /\ Cardinality(page) <= x.limit
  <2>1. /\ page \in SUBSET Listing(x.user)
        /\ Cardinality(page) \in Nat /\ Cardinality(page) <= x.limit
    BY <1>5, PageIs
  <2> QED
    BY <2>1, ListingFinite
<1>7. CASE x.phase = "page"
  BY <1>1, <1>2, <1>3, <1>4, <1>5, <1>6, <1>7, AnswerType
  DEF FindMany, FoundMany
<1>8. CASE x.phase = "both"
  <2> DEFINE y == [x EXCEPT !.phase = "count", !.page = page]
  <2>1. page \in SUBSET Nat
    BY <1>6, RowsOf
  <2>2. /\ y \in Walk /\ y.page = page /\ y.phase = "count"
        /\ y.user = x.user /\ y.limit = x.limit /\ y.offset = x.offset
        /\ y.held = x.held /\ y.count = x.count /\ y.due = x.due
        /\ y.shown = x.shown /\ y.repeated = x.repeated
    BY <1>3, <2>1 DEF Walk
  <2>3. walk' = [walk EXCEPT ![w] = y]
    BY <1>4, <1>8
  <2>4. FoundMany(x, page, y)
    BY <1>8 DEF FoundMany
  <2> HIDE DEF y
  <2>5. WalkOK(y)
    BY <1>3, <1>6, <1>8, <2>2 DEF WalkOK
  <2> QED
    BY <1>1, <1>2, <1>3, <1>4, <2>2, <2>3, <2>4, <2>5 DEF FindMany
<1> QED
  BY <1>3, <1>7, <1>8

LEMMA CountIs ==
  ASSUME TypeOK, NEW w \in Walks, Count(w)
  PROVE  /\ w \in Begun /\ Waits(walk[w])
         /\ \E y \in Walk :
              /\ WalkOK(y) /\ Counted(walk[w], Size(walk[w].user), y)
              /\ walk' = [walk EXCEPT ![w] = y]
         /\ UNCHANGED <<table, removed>>
<1>1. w \in Begun /\ walk[w].phase \in {"both", "count"}
  BY DEF Count, Under, Begun
<1>2. PICK x : x = walk[w]
  OBVIOUS
<1>3. x \in Walk /\ WalkOK(x) /\ Waits(x) /\ x.phase \in {"both", "count"}
  BY <1>1, <1>2, WalkType DEF Waits
<1>4. walk' = [walk EXCEPT ![w] =
        IF x.phase = "count" THEN Answer(x, x.page, Size(x.user))
        ELSE [x EXCEPT !.phase = "page", !.count = Size(x.user)]]
  BY <1>2 DEF Count, Size
<1>5. Size(x.user) \in Nat /\ Size(x.user) <= Len(table)
  BY ListingFinite
<1>6. CASE x.phase = "count"
  BY <1>1, <1>2, <1>3, <1>4, <1>5, <1>6, PageType, AnswerType
  DEF Count, Counted
<1>7. CASE x.phase = "both"
  <2> DEFINE y == [x EXCEPT !.phase = "page", !.count = Size(x.user)]
  <2>1. /\ y \in Walk /\ y.phase = "page" /\ y.count = Size(x.user)
        /\ y.user = x.user /\ y.limit = x.limit /\ y.offset = x.offset
        /\ y.held = x.held /\ y.page = x.page /\ y.due = x.due
        /\ y.shown = x.shown /\ y.repeated = x.repeated
    BY <1>3, <1>5 DEF Walk
  <2>2. walk' = [walk EXCEPT ![w] = y]
    BY <1>4, <1>7
  <2>3. Counted(x, Size(x.user), y)
    BY <1>7 DEF Counted
  <2> HIDE DEF y
  <2>4. WalkOK(y)
    BY <1>3, <1>5, <1>7, <2>1 DEF WalkOK
  <2> QED
    BY <1>1, <1>2, <1>3, <2>1, <2>2, <2>3, <2>4 DEF Count
<1> QED
  BY <1>3, <1>6, <1>7

-----------------------------------------------------------------------------
(* Rows that come and go                                                   *)

LEMMA InsertIs ==
  ASSUME TypeOK, NEW u \in Users, NEW n \in 1 .. RowBound, NEW t \in Times,
         Insert(u, n, t)
  PROVE  /\ table' \in Seq(Row) /\ Len(table') = Len(table) + n
         /\ \A r \in RowIds : r \in RowIds' /\ table'[r] = table[r]
         /\ \A r \in RowIds' \ RowIds :
              table'[r] = [user |-> u, createdAt |-> t]
<1>1. table \in Seq(Row) /\ Len(table) \in Nat /\ n \in Nat
  BY RowsOf, BoundsAssumption DEF TypeOK
<1> DEFINE row == [user |-> u, createdAt |-> t]
           new == [i \in 1 .. n |-> row]
<1>2. row \in Row
  BY DEF Row
<1> HIDE DEF row
<1>3. new \in Seq(Row) /\ Len(new) = n
  <2>1. new \in [1 .. n -> Row]
    BY <1>2
  <2>2. new \in Seq(Row)
    BY <1>1, <2>1, SeqDef
  <2>3. Len(new) \in Nat /\ DOMAIN new = 1 .. Len(new)
    BY <2>2, LenProperties
  <2>4. 1 .. n = 1 .. Len(new)
    BY <2>3
  <2> QED
    BY <1>1, <2>2, <2>3, <2>4
<1>4. \A i \in 1 .. n : new[i] = row
  OBVIOUS
<1>5. table' = table \o new
  BY DEF Insert, row
<1> HIDE DEF new
<1>6. /\ table' \in Seq(Row) /\ Len(table') = Len(table) + n
      /\ \A i \in 1 .. Len(table) + n :
           table'[i] = IF i <= Len(table) THEN table[i] ELSE new[i - Len(table)]
  BY <1>1, <1>3, <1>5, ConcatProperties
<1>7. \A r \in RowIds : r \in RowIds' /\ table'[r] = table[r]
  BY <1>1, <1>6 DEF RowIds
<1>8. ASSUME NEW r \in RowIds' \ RowIds
      PROVE  table'[r] = row
  <2>1. r \in 1 .. Len(table) + n /\ ~(r <= Len(table))
    BY <1>1, <1>6 DEF RowIds
  <2>2. r - Len(table) \in 1 .. n
    BY <1>1, <2>1
  <2> QED
    BY <1>4, <1>6, <2>1, <2>2
<1> QED
  BY <1>6, <1>7, <1>8 DEF row

\* What an insert or a removal changes of a walk: what it notes.
Notes(x, y, i, s) ==
  /\ y \in Walk
  /\ y.user = x.user /\ y.limit = x.limit /\ y.offset = x.offset
  /\ y.phase = x.phase /\ y.page = x.page /\ y.count = x.count
  /\ y.shown = x.shown /\ y.repeated = x.repeated /\ y.held = x.held
  /\ y.due = x.due
  /\ y.inserts = x.inserts + i /\ y.slips = x.slips + s

\* The walks of u that are under way note it, and no other.
Noted(u, w, i, s) ==
  \/ Under(w) /\ walk[w].user = u /\ Notes(walk[w], walk'[w], i, s)
  \/ ~(Under(w) /\ walk[w].user = u) /\ walk'[w] = walk[w]

LEMMA ChangeType ==
  ASSUME TypeOK, table' \in Seq(Row), Len(table) <= Len(table'),
         \A r \in RowIds : r \in RowIds' /\ table'[r] = table[r],
         removed' \subseteq RowIds',
         walk' \in [Walks -> Walk \cup {NoWalk}],
         \A w \in Begun' : w \in Begun /\ \E i \in Nat, s \in Nat :
                             Notes(walk[w], walk'[w], i, s)
  PROVE  TypeOK'
<1>1. Len(table) \in Nat /\ Len(table') \in Nat
  BY RowsOf, LenProperties
<1>2. ASSUME NEW w \in Begun'
      PROVE  WalkOK(walk[w])'
  <2>1. w \in Begun
    BY <1>2
  <2>2. PICK i \in Nat, s \in Nat : Notes(walk[w], walk'[w], i, s)
    BY <1>2
  <2>3. walk[w].count \in Nat
    BY <2>1, WalkType DEF Walk
  <2>4. WalkOK(walk[w])
    BY <2>1, WalkType
  <2>5. walk[w].count <= Len(table)
    BY <2>4 DEF WalkOK
  <2>6. walk'[w].count <= Len(table')
    BY <1>1, <2>2, <2>3, <2>5 DEF Notes
  <2> QED
    BY <2>2, <2>4, <2>6 DEF WalkOK, Notes
<1> QED
  BY <1>2 DEF TypeOK, WalkOK

\* What the rows of an insert may slip past.
Late(x, n) == IF x.phase = "page" THEN n ELSE 0

LEMMA InsertNoted ==
  ASSUME TypeOK, NEW u \in Users, NEW n \in Nat, NoteInsert(u, n)
  PROVE  /\ walk' \in [Walks -> Walk \cup {NoWalk}]
         /\ \A w \in Walks : Noted(u, w, n, Late(walk[w], n))
<1>1. ASSUME NEW w \in Walks
      PROVE  /\ walk'[w] \in Walk \cup {NoWalk}
             /\ Noted(u, w, n, Late(walk[w], n))
  <2>1. CASE Under(w) /\ walk[w].user = u
    <3>1. PICK x : x = walk[w]
      OBVIOUS
    <3>2. x \in Walk /\ x.inserts \in Nat /\ x.slips \in Nat
      BY <2>1, <3>1, WalkType DEF Under, Begun, Walk
    <3>3. walk'[w] = [x EXCEPT !.inserts = @ + n,
                               !.slips = IF x.phase = "page" THEN @ + n ELSE @]
      BY <2>1, <3>1 DEF NoteInsert
    <3>4. /\ x.inserts + n \in Nat /\ x.slips + Late(x, n) \in Nat
          /\ x.slips + 0 = x.slips
      BY <3>2 DEF Late
    <3>5. walk'[w] = [x EXCEPT !.inserts = x.inserts + n,
                               !.slips = x.slips + Late(x, n)]
      BY <3>2, <3>3, <3>4 DEF Late, Walk
    <3>6. Notes(x, walk'[w], n, Late(x, n))
      BY <3>2, <3>4, <3>5 DEF Notes, Walk
    <3> QED
      BY <2>1, <3>1, <3>6 DEF Noted, Notes
  <2>2. CASE ~(Under(w) /\ walk[w].user = u)
    <3>1. walk'[w] = walk[w]
      BY <2>2 DEF NoteInsert
    <3> QED
      BY <2>2, <3>1 DEF Noted, TypeOK
  <2> QED
    BY <2>1, <2>2
<1>2. walk' = [w \in Walks |-> walk'[w]]
  BY DEF NoteInsert
<1> QED
  BY <1>1, <1>2

LEMMA RemoveNoted ==
  ASSUME TypeOK, NEW u \in Users, NoteRemove(u)
  PROVE  /\ walk' \in [Walks -> Walk \cup {NoWalk}]
         /\ \A w \in Walks : Noted(u, w, 0, 1)
<1>1. ASSUME NEW w \in Walks
      PROVE  walk'[w] \in Walk \cup {NoWalk} /\ Noted(u, w, 0, 1)
  <2>1. CASE Under(w) /\ walk[w].user = u
    <3>1. PICK x : x = walk[w]
      OBVIOUS
    <3>2. x \in Walk /\ x.inserts \in Nat /\ x.slips \in Nat
      BY <2>1, <3>1, WalkType DEF Under, Begun, Walk
    <3>3. walk'[w] = [x EXCEPT !.slips = @ + 1]
      BY <2>1, <3>1 DEF NoteRemove
    <3>4. x.inserts + 0 = x.inserts /\ x.slips + 1 \in Nat
      BY <3>2
    <3>5. Notes(x, walk'[w], 0, 1)
      BY <3>2, <3>3, <3>4 DEF Notes, Walk
    <3> QED
      BY <2>1, <3>1, <3>5 DEF Noted, Notes
  <2>2. CASE ~(Under(w) /\ walk[w].user = u)
    <3>1. walk'[w] = walk[w]
      BY <2>2 DEF NoteRemove
    <3> QED
      BY <2>2, <3>1 DEF Noted, TypeOK
  <2> QED
    BY <2>1, <2>2
<1>2. walk' = [w \in Walks |-> walk'[w]]
  BY DEF NoteRemove
<1> QED
  BY <1>1, <1>2

\* A walk that begun before and has noted what happened, or nothing.
LEMMA NotedBegun ==
  ASSUME TypeOK, NEW u \in Users, NEW w \in Walks, NEW i \in Nat, NEW s \in Nat,
         Noted(u, w, i, s), w \in Begun'
  PROVE  w \in Begun /\ \E j \in Nat, k \in Nat : Notes(walk[w], walk'[w], j, k)
<1>1. w \in Begun
  BY DEF Noted, Under, Begun
<1>2. walk[w] \in Walk /\ walk[w].inserts \in Nat /\ walk[w].slips \in Nat
  BY <1>1, WalkType DEF Walk
<1>3. walk'[w] = walk[w] => Notes(walk[w], walk'[w], 0, 0)
  BY <1>2 DEF Notes
<1> QED
  BY <1>1, <1>3 DEF Noted

LEMMA InsertType ==
  ASSUME TypeOK, NEW u \in Users, NEW n \in 1 .. RowBound, NEW t \in Times,
         Insert(u, n, t)
  PROVE  TypeOK'
<1>1. n \in Nat /\ Len(table) \in Nat /\ removed \subseteq RowIds
  BY RowsOf, BoundsAssumption DEF TypeOK
<1>2. /\ walk' \in [Walks -> Walk \cup {NoWalk}]
      /\ \A w \in Walks : Noted(u, w, n, Late(walk[w], n))
  BY <1>1, InsertNoted DEF Insert
<1>3. \A w \in Begun' : w \in Begun /\ \E i \in Nat, s \in Nat :
                          Notes(walk[w], walk'[w], i, s)
  <2>1. \A w \in Walks : Late(walk[w], n) \in Nat
    BY <1>1 DEF Late
  <2>2. \A w \in Begun' : w \in Walks
    BY DEF Begun
  <2> QED
    BY <1>1, <1>2, <2>1, <2>2, NotedBegun
<1>4. /\ table' \in Seq(Row) /\ Len(table) <= Len(table')
      /\ \A r \in RowIds : r \in RowIds' /\ table'[r] = table[r]
  <2>1. /\ table' \in Seq(Row) /\ Len(table') = Len(table) + n
        /\ \A r \in RowIds : r \in RowIds' /\ table'[r] = table[r]
    BY InsertIs
  <2>2. Len(table) <= Len(table) + n
    BY <1>1
  <2> QED
    BY <2>1, <2>2
<1>5. removed' \subseteq RowIds'
  BY <1>1, <1>4 DEF Insert
<1> QED
  BY <1>2, <1>3, <1>4, <1>5, ChangeType

LEMMA RemoveType ==
  ASSUME TypeOK, NEW u \in Users, NEW q \in RowIds, Remove(u, q)
  PROVE  TypeOK'
<1>1. /\ walk' \in [Walks -> Walk \cup {NoWalk}]
      /\ \A w \in Walks : Noted(u, w, 0, 1)
  BY RemoveNoted DEF Remove
<1>2. \A w \in Begun' : w \in Begun /\ \E i \in Nat, s \in Nat :
                          Notes(walk[w], walk'[w], i, s)
  <2>1. \A w \in Begun' : w \in Walks
    BY DEF Begun
  <2> QED
    BY <1>1, <2>1, NotedBegun
<1>3. /\ table' \in Seq(Row) /\ Len(table) <= Len(table')
      /\ RowIds' = RowIds
      /\ \A r \in RowIds : r \in RowIds' /\ table'[r] = table[r]
  BY RowsOf DEF Remove, TypeOK, RowIds
<1>4. removed' \subseteq RowIds'
  BY <1>3 DEF Remove, TypeOK
<1> QED
  BY <1>1, <1>2, <1>3, <1>4, ChangeType

LEMMA AbandonType ==
  ASSUME TypeOK, NEW w \in Walks, Abandon(w)
  PROVE  TypeOK'
<1>1. walk' \in [Walks -> Walk \cup {NoWalk}]
  BY DEF TypeOK, Abandon
<1>2. ASSUME NEW v \in Begun'
      PROVE  WalkOK(walk[v])'
  <2>1. v \in Begun /\ walk'[v] = walk[v]
    BY DEF Begun, TypeOK, Abandon
  <2> QED
    BY <2>1, WalkType DEF WalkOK, RowIds, Abandon
<1> QED
  BY <1>1, <1>2 DEF TypeOK, WalkOK, RowIds, Abandon

LEMMA TypeInit == Init => TypeOK
<1> SUFFICES ASSUME Init
             PROVE  TypeOK
  OBVIOUS
<1>1. <<>> \in Seq(Row)
  OBVIOUS
<1>2. Begun = {}
  BY DEF Begun, Init
<1> QED
  BY <1>1, <1>2 DEF Init, TypeOK

LEMMA TypeStep == TypeOK /\ [Next]_vars => TypeOK'
<1> SUFFICES ASSUME TypeOK, [Next]_vars
             PROVE  TypeOK'
  OBVIOUS
<1>1. ASSUME NEW u \in Users, NEW n \in 1 .. RowBound, NEW t \in Times,
             Insert(u, n, t)
      PROVE  TypeOK'
  BY <1>1, InsertType
<1>2. ASSUME NEW u \in Users, NEW r \in RowIds, Remove(u, r)
      PROVE  TypeOK'
  BY <1>2, RemoveType
<1>3. ASSUME NEW w \in Walks, NEW u \in Users, NEW limit \in Limits,
             BeginWalk(w, u, limit)
      PROVE  TypeOK'
  BY <1>3, BeginType
<1>4. ASSUME NEW w \in Walks, FindMany(w)
      PROVE  TypeOK'
  BY <1>4, FindManyIs, OneWalk
<1>5. ASSUME NEW w \in Walks, Count(w)
      PROVE  TypeOK'
  BY <1>5, CountIs, OneWalk
<1>6. ASSUME NEW w \in Walks, Abandon(w)
      PROVE  TypeOK'
  BY <1>6, AbandonType
<1>7. CASE UNCHANGED vars
  BY <1>7 DEF vars, TypeOK, Begun, RowIds
<1> QED
  BY <1>1, <1>2, <1>3, <1>4, <1>5, <1>6, <1>7 DEF Next, Query

\* The rows of a walk are rows of its user, it has got a whole number of pages
\* far, and its pages held no more rows than the pages it asked for have.
THEOREM TypeCorrect == Spec => []TypeOK
BY TypeInit, TypeStep, PTL DEF Spec

-----------------------------------------------------------------------------
(* What a walk has missed, shown twice and held                            *)

\* The untied rows a walk has passed and not shown, where this page is the last
\* it was shown and it has got this far.
Missed(x, page, far) ==
  {r \in UntiedIn((x.due \ page) \cap Listing(x.user)) : Place(r) <= far}

\* The untied rows it has shown twice, or has shown and is still to pass.
Twice(x, page, far) ==
  UntiedIn(x.repeated \cup (x.shown \cap page))
    \cup {r \in UntiedIn((x.shown \cup page) \cap Listing(x.user)) :
            Place(r) > far}

\* How far it has got: a page that is answered is passed.
Passed(x) == IF x.phase = "count" THEN x.offset + x.limit ELSE x.offset

\* How much the listing has grown or shrunk since it was counted.
Grown(x) == IF x.phase = "page" /\ Size(x.user) > x.count
            THEN Size(x.user) - x.count ELSE 0
Shrunk(x) == IF x.phase = "page" /\ Size(x.user) < x.count
             THEN x.count - Size(x.user) ELSE 0

\* How many rows its pages should have held.
Expected(x) == IF x.phase = "count"
               THEN Lower(x.offset + x.limit, Size(x.user)) ELSE x.offset

SkipInv(x) ==
  /\ Waits(x) =>
       Cardinality(Missed(x, x.page, Passed(x))) + Grown(x) <= x.slips
  /\ x.phase = "ended" => Cardinality(UntiedIn(x.due)) <= x.slips
RepeatInv(x) == Cardinality(Twice(x, x.page, Passed(x))) <= x.inserts
HeldInv(x) ==
  /\ Waits(x) => x.held + Cardinality(x.page) + x.inserts + x.slips
                   >= Expected(x) + Shrunk(x)
  /\ x.phase = "refused" => x.held + x.inserts + x.slips > MaxOffset
WalkInv(x) ==
  /\ x.phase # "count" => x.page = {}
  /\ ~Waits(x) => x.shown = {}
  /\ SkipInv(x) /\ RepeatInv(x) /\ HeldInv(x)

WalksInv == \A w \in Begun : WalkInv(walk[w])

LEMMA WalkNumbers ==
  ASSUME NEW x \in Walk
  PROVE  /\ x.offset \in Nat /\ x.limit \in Nat \ {0} /\ x.held \in Nat
         /\ x.inserts \in Nat /\ x.slips \in Nat /\ x.count \in Nat
BY LimitsAssumption DEF Walk

LEMMA RowsFinite ==
  ASSUME TypeOK, NEW S \in SUBSET RowIds
  PROVE  IsFiniteSet(S) /\ Cardinality(S) \in Nat
<1>1. IsFiniteSet(RowIds)
  BY RowsOf, FS_Interval DEF RowIds
<1> QED
  BY <1>1, FS_Subset, FS_CardinalityType

LEMMA FewerRows ==
  ASSUME TypeOK, NEW S \in SUBSET RowIds, NEW T \in SUBSET S
  PROVE  Cardinality(T) \in Nat /\ Cardinality(T) <= Cardinality(S)
<1>1. T \in SUBSET RowIds
  OBVIOUS
<1> QED
  BY <1>1, RowsFinite, FS_Subset

\* A set of rows within two others is not larger than both.
LEMMA WithinTwo ==
  ASSUME TypeOK, NEW S \in SUBSET RowIds, NEW A \in SUBSET RowIds,
         NEW B \in SUBSET RowIds, S \subseteq A \cup B
  PROVE  Cardinality(S) <= Cardinality(A) + Cardinality(B)
<1>1. A \cup B \in SUBSET RowIds /\ S \in SUBSET (A \cup B)
      /\ A \cap B \in SUBSET RowIds
  OBVIOUS
<1>2. Cardinality(S) \in Nat /\ Cardinality(S) <= Cardinality(A \cup B)
  BY <1>1, FewerRows
<1>3. Cardinality(A \cup B)
        = Cardinality(A) + Cardinality(B) - Cardinality(A \cap B)
  BY RowsFinite, FS_Union
<1>4. /\ Cardinality(A) \in Nat /\ Cardinality(B) \in Nat
      /\ Cardinality(A \cap B) \in Nat
  BY <1>1, RowsFinite
<1> QED
  BY <1>2, <1>3, <1>4

LEMMA MissedRows ==
  ASSUME TypeOK, NEW x \in Walk, WalkOK(x), NEW page \in SUBSET RowIds, NEW far
  PROVE  /\ Missed(x, page, far) \in SUBSET RowIds
         /\ Twice(x, page, far) \in SUBSET RowIds
         /\ UntiedIn(x.due) \in SUBSET RowIds
<1>1. x.repeated \in SUBSET RowIds /\ x.due \in SUBSET RowIds
      /\ x.shown \in SUBSET RowIds
  BY DEF WalkOK
<1> QED
  BY <1>1 DEF Missed, Twice, UntiedIn

-----------------------------------------------------------------------------
(* A query is answered                                                     *)

\* A page that is answered misses no row and shows none twice that was not
\* missed or shown before, and holds what is left of the listing.
LEMMA PageAdds ==
  ASSUME TypeOK, NEW x \in Walk, WalkOK(x),
         NEW page \in Pages(x.user, x.limit, x.offset),
         x.phase # "count", x.page = {}
  PROVE  LET far == x.offset + x.limit IN
         /\ Cardinality(Missed(x, page, far))
              <= Cardinality(Missed(x, x.page, Passed(x)))
         /\ Cardinality(Twice(x, page, far))
              <= Cardinality(Twice(x, x.page, Passed(x)))
         /\ page \in SUBSET RowIds /\ Cardinality(page) \in Nat
         /\ Cardinality(page) = Lower(far, Size(x.user))
                                  - Lower(x.offset, Size(x.user))
<1> DEFINE far == x.offset + x.limit
<1>1. x.offset \in Nat /\ x.limit \in Nat \ {0} /\ far \in Nat
  BY WalkNumbers
<1>2. /\ page \in SUBSET Listing(x.user)
      /\ Cardinality(page) \in Nat
      /\ Cardinality(page) = Lower(far, Size(x.user))
                               - Lower(x.offset, Size(x.user))
      /\ \A r \in UntiedIn(Listing(x.user)) :
           r \in page <=> x.offset < Place(r) /\ Place(r) <= far
  <2>1. PICK u, l, o : u = x.user /\ l = x.limit /\ o = x.offset
    OBVIOUS
  <2>2. l \in Nat /\ o \in Nat /\ page \in Pages(u, l, o)
    BY <1>1, <2>1
  <2>3. /\ page \in SUBSET Listing(u)
        /\ Cardinality(page) \in Nat
        /\ Cardinality(page) = Lower(o + l, Size(u)) - Lower(o, Size(u))
        /\ \A r \in UntiedIn(Listing(u)) :
             r \in page <=> o < Place(r) /\ Place(r) <= o + l
    BY <2>2, PageIs
  <2> QED
    BY <2>1, <2>3
<1>3. page \in SUBSET RowIds
  BY <1>2, ListingFinite
<1>4. Passed(x) = x.offset
  BY DEF Passed
<1>5. \A r \in UntiedIn(Listing(x.user)) : Place(r) \in Int
  BY PlaceType DEF UntiedIn
<1>6. Missed(x, page, far) \in SUBSET Missed(x, x.page, x.offset)
  <2> SUFFICES ASSUME NEW r \in Missed(x, page, far)
               PROVE  r \in Missed(x, x.page, x.offset)
    OBVIOUS
  <2>1. /\ r \in UntiedIn((x.due \ page) \cap Listing(x.user))
        /\ Place(r) <= far
    BY DEF Missed
  <2>2. r \in UntiedIn(Listing(x.user)) /\ r \notin page
    BY <2>1 DEF UntiedIn
  <2>3. Place(r) <= x.offset
    BY <1>1, <1>2, <1>5, <2>1, <2>2
  <2>4. r \in UntiedIn((x.due \ x.page) \cap Listing(x.user))
    BY <2>1 DEF UntiedIn
  <2> QED
    BY <2>3, <2>4 DEF Missed
<1>7. Twice(x, page, far) \in SUBSET Twice(x, x.page, x.offset)
  <2> SUFFICES ASSUME NEW r \in Twice(x, page, far)
               PROVE  r \in Twice(x, x.page, x.offset)
    OBVIOUS
  <2>1. CASE r \in UntiedIn(x.repeated)
    BY <2>1 DEF Twice, UntiedIn
  <2>2. CASE r \in UntiedIn(x.shown \cap page)
    <3>1. r \in UntiedIn(Listing(x.user)) /\ r \in page /\ r \in x.shown
      BY <1>2, <2>2 DEF UntiedIn
    <3>2. Place(r) > x.offset
      BY <1>1, <1>2, <1>5, <3>1
    <3> QED
      BY <3>1, <3>2 DEF Twice, UntiedIn
  <2>3. CASE /\ r \in UntiedIn((x.shown \cup page) \cap Listing(x.user))
             /\ Place(r) > far
    <3>1. r \in UntiedIn(Listing(x.user)) /\ r \in x.shown \cup page
      BY <2>3 DEF UntiedIn
    <3>2. ~(Place(r) <= far)
      BY <1>1, <1>5, <2>3, <3>1
    <3>3. r \in x.shown
      BY <1>2, <3>1, <3>2
    <3>4. Place(r) > x.offset
      BY <1>1, <1>5, <2>3, <3>1
    <3> QED
      BY <3>1, <3>3, <3>4 DEF Twice, UntiedIn
  <2> QED
    BY <2>1, <2>2, <2>3 DEF Twice, UntiedIn
<1>8. /\ Missed(x, x.page, x.offset) \in SUBSET RowIds
      /\ Twice(x, x.page, x.offset) \in SUBSET RowIds
  BY MissedRows
<1> HIDE DEF far
<1>9. /\ Cardinality(Missed(x, page, far))
           <= Cardinality(Missed(x, x.page, x.offset))
      /\ Cardinality(Twice(x, page, far))
           <= Cardinality(Twice(x, x.page, x.offset))
  BY <1>6, <1>7, <1>8, FewerRows
<1> QED
  BY <1>2, <1>3, <1>4, <1>9 DEF far

\* What a page and a count that are answered must satisfy.
Read(x, page, count) ==
  LET far == x.offset + x.limit IN
  /\ page \in SUBSET RowIds /\ Cardinality(page) \in Nat /\ count \in Nat
  /\ Cardinality(Missed(x, page, far))
       + (IF Size(x.user) > count THEN Size(x.user) - count ELSE 0) <= x.slips
  /\ Cardinality(Twice(x, page, far)) <= x.inserts
  /\ count > far => x.held + Cardinality(page) + x.inserts + x.slips >= far

LEMMA PageFirst ==
  ASSUME TypeOK, NEW x \in Walk, WalkOK(x), WalkInv(x), x.phase = "count"
  PROVE  Read(x, x.page, Size(x.user))
<1>1. x.page \in SUBSET RowIds
  BY DEF WalkOK
<1>2. Cardinality(x.page) \in Nat
  BY <1>1, RowsFinite
<1>3. Size(x.user) \in Nat
  BY ListingFinite
<1>4. Passed(x) = x.offset + x.limit /\ Waits(x)
  BY DEF Passed, Waits
<1>5. Grown(x) = 0 /\ Shrunk(x) = 0
  BY DEF Grown, Shrunk
<1>6. Cardinality(Missed(x, x.page, x.offset + x.limit)) + 0 <= x.slips
  BY <1>4, <1>5 DEF WalkInv, SkipInv
<1>7. Cardinality(Twice(x, x.page, x.offset + x.limit)) <= x.inserts
  BY <1>4 DEF WalkInv, RepeatInv
<1>8. x.held + Cardinality(x.page) + x.inserts + x.slips
        >= Lower(x.offset + x.limit, Size(x.user)) + 0
  BY <1>4, <1>5 DEF WalkInv, HeldInv, Expected
<1>9. Size(x.user) > x.offset + x.limit =>
        x.held + Cardinality(x.page) + x.inserts + x.slips
          >= x.offset + x.limit
  BY <1>2, <1>3, <1>8, WalkNumbers DEF Lower
<1> QED
  BY <1>1, <1>2, <1>3, <1>6, <1>7, <1>9 DEF Read

LEMMA CountFirst ==
  ASSUME TypeOK, NEW x \in Walk, WalkOK(x), WalkInv(x), x.phase = "page",
         NEW page \in Pages(x.user, x.limit, x.offset)
  PROVE  Read(x, page, x.count)
<1> DEFINE far == x.offset + x.limit
<1>1. x.page = {} /\ Waits(x)
  BY DEF WalkInv, Waits
<1>2. /\ Cardinality(Missed(x, page, far))
           <= Cardinality(Missed(x, x.page, Passed(x)))
      /\ Cardinality(Twice(x, page, far))
           <= Cardinality(Twice(x, x.page, Passed(x)))
      /\ page \in SUBSET RowIds /\ Cardinality(page) \in Nat
      /\ Cardinality(page) = Lower(far, Size(x.user))
                               - Lower(x.offset, Size(x.user))
  BY <1>1, PageAdds
<1>3. Size(x.user) \in Nat /\ x.count \in Nat
  BY ListingFinite, WalkNumbers
<1>4. /\ Missed(x, page, far) \in SUBSET RowIds
      /\ Missed(x, x.page, Passed(x)) \in SUBSET RowIds
      /\ Twice(x, page, far) \in SUBSET RowIds
      /\ Twice(x, x.page, Passed(x)) \in SUBSET RowIds
  BY <1>1, <1>2, MissedRows
<1>5. /\ Cardinality(Missed(x, page, far)) \in Nat
      /\ Cardinality(Missed(x, x.page, Passed(x))) \in Nat
      /\ Cardinality(Twice(x, page, far)) \in Nat
      /\ Cardinality(Twice(x, x.page, Passed(x))) \in Nat
  BY <1>4, RowsFinite
<1>6. Cardinality(Missed(x, x.page, Passed(x)))
        + (IF Size(x.user) > x.count THEN Size(x.user) - x.count ELSE 0)
          <= x.slips
  BY <1>1 DEF WalkInv, SkipInv, Grown
<1>7. Cardinality(Twice(x, x.page, Passed(x))) <= x.inserts
  BY DEF WalkInv, RepeatInv
<1>8. x.held + Cardinality({}) + x.inserts + x.slips
        >= x.offset + (IF Size(x.user) < x.count
                       THEN x.count - Size(x.user) ELSE 0)
  BY <1>1 DEF WalkInv, HeldInv, Expected, Shrunk
<1>9. Cardinality({}) = 0
  BY FS_EmptySet
<1>10. Cardinality(Missed(x, page, far))
        + (IF Size(x.user) > x.count THEN Size(x.user) - x.count ELSE 0)
          <= x.slips
  <2> DEFINE g == IF Size(x.user) > x.count THEN Size(x.user) - x.count ELSE 0
             a == Cardinality(Missed(x, page, far))
             b == Cardinality(Missed(x, x.page, Passed(x)))
  <2>1. g \in Nat /\ a \in Nat /\ b \in Nat /\ a <= b /\ b + g <= x.slips
        /\ x.slips \in Nat
    BY <1>2, <1>3, <1>5, <1>6, WalkNumbers
  <2> HIDE DEF g, a, b
  <2>2. a + g <= x.slips
    BY <2>1
  <2> QED
    BY <2>2 DEF g, a
<1>11. Cardinality(Twice(x, page, far)) <= x.inserts
  <2> DEFINE a == Cardinality(Twice(x, page, far))
             b == Cardinality(Twice(x, x.page, Passed(x)))
  <2>1. a \in Nat /\ b \in Nat /\ a <= b /\ b <= x.inserts /\ x.inserts \in Nat
    BY <1>2, <1>5, <1>7, WalkNumbers
  <2> HIDE DEF a, b
  <2>2. a <= x.inserts
    BY <2>1
  <2> QED
    BY <2>2 DEF a
<1>12. x.count > far =>
         x.held + Cardinality(page) + x.inserts + x.slips >= far
  BY <1>2, <1>3, <1>8, <1>9, WalkNumbers DEF Lower
<1> QED
  BY <1>2, <1>3, <1>10, <1>11, <1>12 DEF Read

\* The untied rows of a listing behind a place are no more than it has there.
LEMMA Behind ==
  ASSUME TypeOK, NEW u, NEW k \in Nat,
         NEW S \in SUBSET UntiedIn(Listing(u)), \A r \in S : Place(r) > k
  PROVE  Cardinality(S) <= IF Size(u) > k THEN Size(u) - k ELSE 0
<1>1. Size(u) \in Nat
  BY ListingFinite
<1>2. \A r \in S : Place(r) \in Int /\ k < Place(r) /\ Place(r) <= Size(u)
  BY PlaceType DEF UntiedIn
<1>3. CASE Size(u) > k
  <2>1. k <= Size(u) /\ k \in Int /\ Size(u) \in Int
    BY <1>1, <1>3
  <2>2. Cardinality(S) <= Size(u) - k
    BY <1>2, <2>1, Stretch
  <2> QED
    BY <1>3, <2>2
<1>4. CASE ~(Size(u) > k)
  <2>1. S = {}
    BY <1>1, <1>2, <1>4
  <2> QED
    BY <1>4, <2>1, FS_EmptySet
<1> QED
  BY <1>3, <1>4

LEMMA AnswerKeeps ==
  ASSUME TypeOK, NEW x \in Walk, WalkOK(x), NEW page, NEW count,
         Read(x, page, count), NEW y, Answered(x, page, count, y)
  PROVE  WalkInv(y)
<1> DEFINE far == x.offset + x.limit
           missed == Missed(x, page, far)
           grown == IF Size(x.user) > count THEN Size(x.user) - count ELSE 0
<1>1. /\ far \in Nat /\ x.slips \in Nat /\ x.inserts \in Nat
      /\ x.held \in Nat /\ MaxOffset \in Nat
      /\ Size(x.user) \in Nat /\ count \in Nat /\ Cardinality(page) \in Nat
  BY WalkNumbers, ListingFinite, BoundsAssumption DEF Read
<1>2. /\ page \in SUBSET RowIds
      /\ Cardinality(missed) + grown <= x.slips
      /\ Cardinality(Twice(x, page, far)) <= x.inserts
      /\ count > far => x.held + Cardinality(page) + x.inserts + x.slips >= far
  BY DEF Read
<1>3. missed \in SUBSET RowIds /\ Twice(x, page, far) \in SUBSET RowIds
  BY <1>2, MissedRows
<1>4. Cardinality(missed) \in Nat /\ grown \in Nat
  BY <1>1, <1>3, RowsFinite
<1>5. /\ y \in Walk /\ y.user = x.user /\ y.limit = x.limit
      /\ y.inserts = x.inserts /\ y.slips = x.slips
      /\ y.page = {} /\ y.count = 0
      /\ y.repeated = x.repeated \cup (x.shown \cap page)
      /\ y.phase \in {"ended", "both", "refused"}
  BY DEF Answered
<1>6. ASSUME y.phase \in {"ended", "refused"}
      PROVE  WalkInv(y)
  <2>1. /\ y.shown = {} /\ ~Waits(y)
        /\ y.phase = "ended" => /\ count <= far
                                /\ y.due = (x.due \ page) \cap Listing(x.user)
        /\ y.phase = "refused" => /\ count > far /\ far > MaxOffset
                                  /\ y.held = x.held + Cardinality(page)
    BY <1>6 DEF Answered, Waits
  <2>2. Twice(y, y.page, Passed(y)) \in SUBSET Twice(x, page, far)
    BY <1>5, <2>1 DEF Twice, UntiedIn
  <2>3. RepeatInv(y)
    <3>1. /\ Cardinality(Twice(y, y.page, Passed(y))) \in Nat
          /\ Cardinality(Twice(x, page, far)) \in Nat
          /\ Cardinality(Twice(y, y.page, Passed(y)))
               <= Cardinality(Twice(x, page, far))
      BY <1>3, <2>2, FewerRows, RowsFinite
    <3>2. Cardinality(Twice(y, y.page, Passed(y))) <= x.inserts
      BY <1>1, <1>2, <3>1
    <3> QED
      BY <1>5, <3>2 DEF RepeatInv
  <2>4. ASSUME y.phase = "ended"
        PROVE  Cardinality(UntiedIn(y.due)) <= y.slips
    <3> DEFINE rest == {r \in UntiedIn(y.due) : Place(r) > far}
    <3>1. UntiedIn(y.due) = UntiedIn((x.due \ page) \cap Listing(x.user))
      BY <2>1, <2>4
    <3>2. \A r \in UntiedIn(y.due) : Place(r) \in Int
      BY <3>1, PlaceType DEF UntiedIn
    <3>3. UntiedIn(y.due) \subseteq missed \cup rest
      BY <1>1, <3>1, <3>2 DEF Missed
    <3>4. rest \in SUBSET UntiedIn(Listing(x.user))
      BY <3>1 DEF UntiedIn
    <3>5. UntiedIn(y.due) \in SUBSET RowIds /\ rest \in SUBSET RowIds
      BY <3>1, ListingFinite DEF UntiedIn
    <3>6. Cardinality(rest) <= IF Size(x.user) > far
                               THEN Size(x.user) - far ELSE 0
      BY <1>1, <3>4, Behind
    <3>7. /\ Cardinality(UntiedIn(y.due)) <= Cardinality(missed) + Cardinality(rest)
          /\ Cardinality(UntiedIn(y.due)) \in Nat /\ Cardinality(rest) \in Nat
      BY <1>3, <3>3, <3>5, WithinTwo, RowsFinite
    <3>8. Cardinality(rest) <= grown
      BY <1>1, <2>1, <2>4, <3>6, <3>7
    <3> HIDE DEF missed, grown, far, rest
    <3>9. Cardinality(UntiedIn(y.due)) <= x.slips
      BY <1>1, <1>2, <1>4, <3>7, <3>8
    <3> QED
      BY <1>5, <3>9
  <2>5. SkipInv(y)
    BY <2>1, <2>4 DEF SkipInv
  <2>6. HeldInv(y)
    <3>1. y.phase = "refused" => x.held + Cardinality(page) + x.inserts + x.slips
                                   > MaxOffset
      BY <1>1, <1>2, <2>1
    <3> QED
      BY <1>5, <2>1, <3>1 DEF HeldInv
  <2> QED
    BY <1>5, <2>1, <2>3, <2>5, <2>6 DEF WalkInv
<1>7. ASSUME y.phase = "both"
      PROVE  WalkInv(y)
  <2>1. /\ Waits(y) /\ count > far /\ y.offset = far
        /\ y.shown = x.shown \cup page /\ y.due = x.due \ page
        /\ y.held = x.held + Cardinality(page)
        /\ Passed(y) = far /\ Grown(y) = 0 /\ Shrunk(y) = 0
        /\ Expected(y) = far
    BY <1>7 DEF Answered, Waits, Passed, Grown, Shrunk, Expected
  <2>2. Missed(y, y.page, Passed(y)) = missed
    BY <1>5, <2>1 DEF Missed, UntiedIn
  <2>3. Twice(y, y.page, Passed(y)) = Twice(x, page, far)
    BY <1>5, <2>1 DEF Twice, UntiedIn
  <2>4. Cardinality(missed) + 0 <= x.slips
    <3> HIDE DEF missed, grown
    <3> QED
      BY <1>1, <1>2, <1>4
  <2>5. SkipInv(y)
    BY <1>5, <1>7, <2>1, <2>2, <2>4 DEF SkipInv
  <2>6. RepeatInv(y)
    BY <1>2, <1>5, <2>3 DEF RepeatInv
  <2>7. HeldInv(y)
    <3>1. x.held + Cardinality(page) + 0 + x.inserts + x.slips >= far + 0
      BY <1>1, <1>2, <2>1
    <3> QED
      BY <1>5, <1>7, <2>1, <3>1, FS_EmptySet DEF HeldInv
  <2> QED
    BY <1>5, <2>1, <2>5, <2>6, <2>7 DEF WalkInv
<1> QED
  BY <1>5, <1>6, <1>7

LEMMA FindManyKeeps ==
  ASSUME TypeOK, NEW x \in Walk, WalkOK(x), WalkInv(x),
         NEW page \in Pages(x.user, x.limit, x.offset),
         NEW y, FoundMany(x, page, y)
  PROVE  WalkInv(y)
<1>1. x.phase \in {"both", "page"} /\ x.phase # "count" /\ x.page = {}
  BY DEF FoundMany, WalkInv
<1> DEFINE far == x.offset + x.limit
<1>2. /\ Cardinality(Missed(x, page, far))
           <= Cardinality(Missed(x, x.page, Passed(x)))
      /\ Cardinality(Twice(x, page, far))
           <= Cardinality(Twice(x, x.page, Passed(x)))
      /\ page \in SUBSET RowIds /\ Cardinality(page) \in Nat
      /\ Cardinality(page) = Lower(far, Size(x.user))
                               - Lower(x.offset, Size(x.user))
  BY <1>1, PageAdds
<1>3. page \in SUBSET Nat
  BY <1>2, RowsOf
<1>4. CASE x.phase = "page"
  <2>1. y = Answer(x, page, x.count)
    BY <1>4 DEF FoundMany
  <2>2. Answered(x, page, x.count, y)
    BY <1>2, <1>3, <2>1, WalkNumbers, AnswerIs
  <2> QED
    BY <1>4, <2>2, CountFirst, AnswerKeeps
<1>5. CASE x.phase = "both"
  <2>1. y = [x EXCEPT !.phase = "count", !.page = page]
    BY <1>5 DEF FoundMany
  <2>2. /\ y.phase = "count" /\ y.page = page
        /\ y.user = x.user /\ y.limit = x.limit /\ y.offset = x.offset
        /\ y.held = x.held /\ y.due = x.due
        /\ y.shown = x.shown /\ y.repeated = x.repeated
        /\ y.inserts = x.inserts /\ y.slips = x.slips
    BY <2>1 DEF Walk
  <2>3. Waits(y) /\ Passed(y) = far /\ Grown(y) = 0 /\ Shrunk(y) = 0
        /\ Expected(y) = Lower(far, Size(x.user))
    BY <2>2 DEF Waits, Passed, Grown, Shrunk, Expected
  <2>4. /\ Waits(x) /\ Grown(x) = 0 /\ Shrunk(x) = 0 /\ Expected(x) = x.offset
    BY <1>5 DEF Waits, Grown, Shrunk, Expected
  <2>5. /\ Missed(y, y.page, Passed(y)) = Missed(x, page, far)
        /\ Twice(y, y.page, Passed(y)) = Twice(x, page, far)
    BY <2>2, <2>3 DEF Missed, Twice
  <2>6. /\ Missed(x, page, far) \in SUBSET RowIds
        /\ Missed(x, x.page, Passed(x)) \in SUBSET RowIds
        /\ Twice(x, page, far) \in SUBSET RowIds
        /\ Twice(x, x.page, Passed(x)) \in SUBSET RowIds
    BY <1>1, <1>2, MissedRows
  <2>7. /\ Cardinality(Missed(x, page, far)) \in Nat
        /\ Cardinality(Missed(x, x.page, Passed(x))) \in Nat
        /\ Cardinality(Twice(x, page, far)) \in Nat
        /\ Cardinality(Twice(x, x.page, Passed(x))) \in Nat
    BY <2>6, RowsFinite
  <2>8. SkipInv(y)
    <3> DEFINE a == Cardinality(Missed(x, page, far))
               b == Cardinality(Missed(x, x.page, Passed(x)))
    <3>1. /\ a \in Nat /\ b \in Nat /\ a <= b /\ b + 0 <= x.slips
          /\ x.slips \in Nat
      BY <1>2, <2>4, <2>7, WalkNumbers DEF WalkInv, SkipInv
    <3> HIDE DEF a, b
    <3>2. a + 0 <= x.slips
      BY <3>1
    <3> QED
      BY <2>2, <2>3, <2>5, <3>2 DEF SkipInv, a
  <2>9. RepeatInv(y)
    <3> DEFINE a == Cardinality(Twice(x, page, far))
               b == Cardinality(Twice(x, x.page, Passed(x)))
    <3>1. /\ a \in Nat /\ b \in Nat /\ a <= b /\ b <= x.inserts
          /\ x.inserts \in Nat
      BY <1>2, <2>7, WalkNumbers DEF WalkInv, RepeatInv
    <3> HIDE DEF a, b
    <3>2. a <= x.inserts
      BY <3>1
    <3> QED
      BY <2>2, <2>5, <3>2 DEF RepeatInv, a
  <2>10. HeldInv(y)
    <3>1. x.held + 0 + x.inserts + x.slips >= x.offset + 0
      BY <1>1, <2>4, FS_EmptySet DEF WalkInv, HeldInv
    <3>2. x.held + Cardinality(page) + x.inserts + x.slips
            >= Lower(far, Size(x.user)) + 0
      <4> DEFINE c == Cardinality(page)
                 n == Size(x.user)
      <4>1. /\ c \in Nat /\ n \in Nat /\ x.offset \in Nat /\ far \in Nat
            /\ c = Lower(far, n) - Lower(x.offset, n)
            /\ x.held \in Nat /\ x.inserts \in Nat /\ x.slips \in Nat
        BY <1>2, WalkNumbers, ListingFinite
      <4> HIDE DEF c, n, far
      <4>2. x.held + c + x.inserts + x.slips >= Lower(far, n) + 0
        BY <3>1, <4>1 DEF Lower
      <4> QED
        BY <4>2 DEF c, n
    <3> QED
      BY <2>2, <2>3, <3>2 DEF HeldInv
  <2> QED
    BY <2>2, <2>3, <2>8, <2>9, <2>10 DEF WalkInv
<1> QED
  BY <1>1, <1>4, <1>5

LEMMA CountKeeps ==
  ASSUME TypeOK, NEW x \in Walk, WalkOK(x), WalkInv(x),
         NEW y, Counted(x, Size(x.user), y)
  PROVE  WalkInv(y)
<1>1. Size(x.user) \in Nat
  BY ListingFinite
<1>2. CASE x.phase = "count"
  <2>1. y = Answer(x, x.page, Size(x.user))
    BY <1>2 DEF Counted
  <2>2. Read(x, x.page, Size(x.user))
    BY <1>2, PageFirst
  <2>3. x.page \in SUBSET Nat /\ Cardinality(x.page) \in Nat
    BY <2>2, RowsOf DEF Read
  <2>4. Answered(x, x.page, Size(x.user), y)
    BY <1>1, <2>1, <2>3, AnswerIs
  <2> QED
    BY <2>2, <2>4, AnswerKeeps
<1>3. CASE x.phase = "both"
  <2>1. y = [x EXCEPT !.phase = "page", !.count = Size(x.user)]
    BY <1>3 DEF Counted
  <2>2. /\ y.phase = "page" /\ y.count = Size(x.user) /\ y.page = x.page
        /\ y.user = x.user /\ y.limit = x.limit /\ y.offset = x.offset
        /\ y.held = x.held /\ y.due = x.due
        /\ y.shown = x.shown /\ y.repeated = x.repeated
        /\ y.inserts = x.inserts /\ y.slips = x.slips
    BY <2>1 DEF Walk
  <2>3. /\ Waits(y) /\ Passed(y) = Passed(x)
        /\ Grown(y) = Grown(x) /\ Shrunk(y) = Shrunk(x)
        /\ Expected(y) = Expected(x) /\ Waits(x)
    BY <1>1, <1>3, <2>2 DEF Waits, Passed, Grown, Shrunk, Expected
  <2>4. /\ Missed(y, y.page, Passed(y)) = Missed(x, x.page, Passed(x))
        /\ Twice(y, y.page, Passed(y)) = Twice(x, x.page, Passed(x))
    BY <2>2, <2>3 DEF Missed, Twice
  <2>5. x.page = {} /\ SkipInv(x) /\ RepeatInv(x) /\ HeldInv(x)
    BY <1>3 DEF WalkInv
  <2>6. SkipInv(y)
    BY <2>2, <2>3, <2>4, <2>5 DEF SkipInv
  <2>7. RepeatInv(y)
    BY <2>2, <2>4, <2>5 DEF RepeatInv
  <2>8. HeldInv(y)
    BY <2>2, <2>3, <2>5 DEF HeldInv
  <2> QED
    BY <2>2, <2>3, <2>5, <2>6, <2>7, <2>8 DEF WalkInv
<1> QED
  BY <1>2, <1>3 DEF Counted

LEMMA BeginKeeps ==
  ASSUME TypeOK, NEW u,
         NEW y, y.user = u, y.offset = 0, y.phase = "both", y.page = {},
         y.shown = {}, y.repeated = {}, y.held = 0, y.inserts = 0, y.slips = 0,
         y.due = Listing(u)
  PROVE  WalkInv(y)
<1>1. Waits(y) /\ Passed(y) = 0 /\ Grown(y) = 0 /\ Shrunk(y) = 0
      /\ Expected(y) = 0
  BY DEF Waits, Passed, Grown, Shrunk, Expected
<1>2. \A r \in Listing(u) : Place(r) \in Int /\ 1 <= Place(r)
  BY PlaceType
<1>3. Missed(y, y.page, Passed(y)) = {}
  BY <1>1, <1>2 DEF Missed, UntiedIn
<1>4. Twice(y, y.page, Passed(y)) = {}
  BY DEF Twice, UntiedIn
<1>5. Cardinality({}) = 0
  BY FS_EmptySet
<1> QED
  BY <1>1, <1>3, <1>4, <1>5 DEF WalkInv, SkipInv, RepeatInv, HeldInv

-----------------------------------------------------------------------------
(* Rows that come and go move the others of their listing                  *)

\* No row comes back, and none is untied again.
RowsStay(u) ==
  /\ RowIds \subseteq RowIds'
  /\ \A r \in RowIds : Untied(r)' => Untied(r)
  /\ \A r \in RowIds : r \in Listing(u)' => r \in Listing(u)

\* i rows enter the listing and d leave it.
RowsMove(u, i, d) ==
  /\ Size(u)' = Size(u) + i - d
  /\ \A r \in Listing(u) : r \in Listing(u)' =>
       /\ Place(r)' \in Int
       /\ Place(r) - d <= Place(r)' /\ Place(r)' <= Place(r) + i

LEMMA NotedKeeps ==
  ASSUME TypeOK, NEW x \in Walk, WalkOK(x), WalkInv(x), RowsStay(x.user),
         NEW i \in Nat, NEW d \in Nat,
         Waits(x) => RowsMove(x.user, i, d),
         NEW y, Notes(x, y, i, d + Late(x, i))
  PROVE  WalkInv(y)'
<1>1. /\ y \in Walk /\ y.user = x.user /\ y.limit = x.limit
      /\ y.offset = x.offset /\ y.phase = x.phase /\ y.page = x.page
      /\ y.count = x.count /\ y.shown = x.shown /\ y.repeated = x.repeated
      /\ y.held = x.held /\ y.due = x.due
      /\ y.inserts = x.inserts + i /\ y.slips = x.slips + (d + Late(x, i))
  BY DEF Notes
<1>2. PICK u, far : u = x.user /\ far = Passed(x)
  OBVIOUS
<1>3. /\ far \in Nat /\ Late(x, i) \in Nat /\ Size(u) \in Nat
      /\ x.offset \in Nat /\ x.limit \in Nat /\ x.held \in Nat
      /\ x.inserts \in Nat /\ x.slips \in Nat /\ x.count \in Nat
  BY <1>2, WalkNumbers, ListingFinite DEF Passed, Late
<1>4. /\ x.due \in SUBSET RowIds /\ x.page \in SUBSET RowIds
      /\ x.shown \in SUBSET RowIds /\ x.repeated \in SUBSET RowIds
  BY DEF WalkOK
<1>5. Cardinality(x.page) \in Nat
  BY <1>4, RowsFinite
<1>6. Passed(y) = far /\ (Waits(y) <=> Waits(x))
  BY <1>1, <1>2 DEF Passed, Waits
<1>7. \A S \in SUBSET RowIds : UntiedIn(S)' \subseteq UntiedIn(S)
  BY DEF RowsStay, UntiedIn
<1>8. \A r \in UntiedIn(Listing(u)) : Place(r) \in Int
  BY PlaceType DEF UntiedIn
<1>9. /\ Missed(x, x.page, far) \in SUBSET RowIds
      /\ Twice(x, x.page, far) \in SUBSET RowIds
      /\ UntiedIn(x.due) \in SUBSET RowIds
  BY <1>4, MissedRows
<1>10. /\ Cardinality(Missed(x, x.page, far)) \in Nat
       /\ Cardinality(Twice(x, x.page, far)) \in Nat
       /\ Cardinality(UntiedIn(x.due)) \in Nat
  BY <1>9, RowsFinite
<1>11. ASSUME Waits(x)
       PROVE  Cardinality(Missed(y, y.page, Passed(y))') + Grown(y)' <= y.slips
  <2> DEFINE near == {r \in UntiedIn(Listing(u)) :
                        far < Place(r) /\ Place(r) <= far + d}
             missed == Missed(y, y.page, Passed(y))'
  <2>1. missed \subseteq Missed(x, x.page, far) \cup near
    <3> SUFFICES ASSUME NEW r \in missed
                 PROVE  r \in Missed(x, x.page, far) \cup near
      OBVIOUS
    <3>1. /\ r \in x.due \ x.page /\ Untied(r)' /\ r \in Listing(u)'
          /\ Place(r)' <= far
      BY <1>1, <1>2, <1>6 DEF Missed, UntiedIn
    <3>2. r \in RowIds /\ Untied(r) /\ r \in Listing(u)
      BY <1>2, <1>4, <3>1 DEF RowsStay
    <3>3. Place(r)' \in Int /\ Place(r) \in Int /\ Place(r) - d <= Place(r)'
      BY <1>2, <1>8, <1>11, <3>1, <3>2 DEF RowsMove, UntiedIn
    <3>4. Place(r) <= far \/ (far < Place(r) /\ Place(r) <= far + d)
      BY <1>3, <3>1, <3>3
    <3> QED
      BY <1>2, <3>1, <3>2, <3>4 DEF Missed, UntiedIn
  <2>2. Cardinality(near) <= d
    <3>1. /\ near \in SUBSET UntiedIn(Listing(u))
          /\ far \in Int /\ far + d \in Int /\ far <= far + d
          /\ (far + d) - far = d
      BY <1>3
    <3> QED
      BY <3>1, Stretch
  <2>3. near \in SUBSET RowIds /\ missed \in SUBSET RowIds
    <3>1. near \in SUBSET RowIds
      BY ListingFinite DEF UntiedIn
    <3> QED
      BY <1>9, <2>1, <3>1
  <2>4. /\ Cardinality(missed)
             <= Cardinality(Missed(x, x.page, far)) + Cardinality(near)
        /\ Cardinality(missed) \in Nat /\ Cardinality(near) \in Nat
    BY <1>9, <2>1, <2>3, WithinTwo, RowsFinite
  <2>5. /\ Grown(y)' <= Grown(x) + Late(x, i) /\ Grown(x) \in Nat
        /\ Grown(y)' \in Nat
    <3>1. Size(u)' = Size(u) + i - d
      BY <1>2, <1>11 DEF RowsMove
    <3>2. Grown(y)' = IF x.phase = "page" /\ Size(u)' > x.count
                      THEN Size(u)' - x.count ELSE 0
      BY <1>1, <1>2 DEF Grown
    <3>3. Grown(x) = IF x.phase = "page" /\ Size(u) > x.count
                     THEN Size(u) - x.count ELSE 0
      BY <1>2 DEF Grown
    <3> QED
      BY <1>3, <3>1, <3>2, <3>3 DEF Late
  <2>6. Cardinality(Missed(x, x.page, far)) + Grown(x) <= x.slips
    BY <1>2, <1>11 DEF WalkInv, SkipInv
  <2> HIDE DEF missed, near
  <2>7. Cardinality(missed) + Grown(y)' <= x.slips + (d + Late(x, i))
    BY <1>3, <1>10, <2>2, <2>4, <2>5, <2>6
  <2> QED
    BY <1>1, <2>7 DEF missed
<1>12. ASSUME x.phase = "ended"
       PROVE  Cardinality(UntiedIn(y.due)') <= y.slips
  <2>1. UntiedIn(y.due)' \in SUBSET UntiedIn(x.due)
    BY <1>1, <1>4, <1>7
  <2>2. /\ Cardinality(UntiedIn(y.due)') \in Nat
        /\ Cardinality(UntiedIn(y.due)') <= Cardinality(UntiedIn(x.due))
    BY <1>9, <2>1, FewerRows
  <2>3. Cardinality(UntiedIn(x.due)) <= x.slips
    BY <1>12 DEF WalkInv, SkipInv
  <2>4. Cardinality(UntiedIn(y.due)') <= x.slips + (d + Late(x, i))
    BY <1>3, <1>10, <2>2, <2>3
  <2> QED
    BY <1>1, <2>4
<1>13. Cardinality(Twice(y, y.page, Passed(y))') <= y.inserts
  <2> DEFINE twice == Twice(y, y.page, Passed(y))'
             near == {r \in UntiedIn(Listing(u)) :
                        far - i < Place(r) /\ Place(r) <= far}
  <2>1. twice \subseteq Twice(x, x.page, far) \cup near
    <3> SUFFICES ASSUME NEW r \in twice
                 PROVE  r \in Twice(x, x.page, far) \cup near
      OBVIOUS
    <3>1. \/ r \in UntiedIn(x.repeated \cup (x.shown \cap x.page))'
          \/ /\ r \in x.shown \cup x.page
             /\ Untied(r)' /\ r \in Listing(u)' /\ Place(r)' > far
      BY <1>1, <1>2, <1>6 DEF Twice, UntiedIn
    <3>2. CASE r \in UntiedIn(x.repeated \cup (x.shown \cap x.page))'
      <4>1. x.repeated \cup (x.shown \cap x.page) \in SUBSET RowIds
        BY <1>4
      <4>2. r \in UntiedIn(x.repeated \cup (x.shown \cap x.page))
        BY <1>7, <3>2, <4>1
      <4> QED
        BY <4>2 DEF Twice
    <3>3. CASE /\ r \in x.shown \cup x.page
               /\ Untied(r)' /\ r \in Listing(u)' /\ Place(r)' > far
      <4>1. r \in RowIds /\ Untied(r) /\ r \in Listing(u)
        BY <1>2, <1>4, <3>3 DEF RowsStay
      <4>2. Waits(x)
        <5>1. ~Waits(x) => x.shown = {} /\ x.page = {}
          BY DEF WalkInv, Waits
        <5> QED
          BY <3>3, <5>1
      <4>3. Place(r)' \in Int /\ Place(r) \in Int /\ Place(r)' <= Place(r) + i
        BY <1>2, <1>8, <3>3, <4>1, <4>2 DEF RowsMove, UntiedIn
      <4>4. Place(r) > far \/ (far - i < Place(r) /\ Place(r) <= far)
        BY <1>3, <3>3, <4>3
      <4> QED
        BY <1>2, <3>3, <4>1, <4>4 DEF Twice, UntiedIn
    <3> QED
      BY <3>1, <3>2, <3>3
  <2>2. Cardinality(near) <= i
    <3>1. /\ near \in SUBSET UntiedIn(Listing(u))
          /\ far - i \in Int /\ far \in Int /\ far - i <= far
          /\ far - (far - i) = i
      BY <1>3
    <3> QED
      BY <3>1, Stretch
  <2>3. near \in SUBSET RowIds /\ twice \in SUBSET RowIds
    <3>1. near \in SUBSET RowIds
      BY ListingFinite DEF UntiedIn
    <3> QED
      BY <1>9, <2>1, <3>1
  <2>4. /\ Cardinality(twice)
             <= Cardinality(Twice(x, x.page, far)) + Cardinality(near)
        /\ Cardinality(twice) \in Nat /\ Cardinality(near) \in Nat
    BY <1>9, <2>1, <2>3, WithinTwo, RowsFinite
  <2>5. Cardinality(Twice(x, x.page, far)) <= x.inserts
    BY <1>2 DEF WalkInv, RepeatInv
  <2> HIDE DEF twice, near
  <2>6. Cardinality(twice) <= x.inserts + i
    BY <1>3, <1>10, <2>2, <2>4, <2>5
  <2> QED
    BY <1>1, <2>6 DEF twice
<1>14. ASSUME Waits(x)
       PROVE  y.held + Cardinality(y.page) + y.inserts + y.slips
                >= Expected(y)' + Shrunk(y)'
  <2>1. x.held + Cardinality(x.page) + x.inserts + x.slips
          >= Expected(x) + Shrunk(x)
    BY <1>14 DEF WalkInv, HeldInv
  <2>2. Size(u)' = Size(u) + i - d
    BY <1>2, <1>14 DEF RowsMove
  <2>3. /\ Expected(y)' = IF x.phase = "count"
                          THEN Lower(x.offset + x.limit, Size(u)') ELSE x.offset
        /\ Shrunk(y)' = IF x.phase = "page" /\ Size(u)' < x.count
                        THEN x.count - Size(u)' ELSE 0
    BY <1>1, <1>2 DEF Expected, Shrunk, Lower
  <2>4. /\ Expected(x) = IF x.phase = "count"
                         THEN Lower(x.offset + x.limit, Size(u)) ELSE x.offset
        /\ Shrunk(x) = IF x.phase = "page" /\ Size(u) < x.count
                       THEN x.count - Size(u) ELSE 0
    BY <1>2 DEF Expected, Shrunk, Lower
  <2>5. Expected(y)' + Shrunk(y)' <= Expected(x) + Shrunk(x) + i + d
    BY <1>3, <2>2, <2>3, <2>4 DEF Lower
  <2>6. /\ Expected(x) + Shrunk(x) \in Int /\ Expected(y)' + Shrunk(y)' \in Int
    BY <1>3, <2>2, <2>3, <2>4 DEF Lower
  <2> DEFINE a == Expected(x) + Shrunk(x)
             b == Expected(y)' + Shrunk(y)'
  <2>7. /\ a \in Int /\ b \in Int /\ b <= a + i + d
        /\ x.held + Cardinality(x.page) + x.inserts + x.slips >= a
    <3>1. Expected(x) \in Int /\ Shrunk(x) \in Int
      BY <1>3, <2>4 DEF Lower
    <3> QED
      BY <2>1, <2>5, <2>6, <3>1
  <2> HIDE DEF a, b
  <2>8. x.held + Cardinality(x.page) + (x.inserts + i)
          + (x.slips + (d + Late(x, i))) >= b
    BY <1>3, <1>5, <2>7
  <2> QED
    BY <1>1, <2>8 DEF b
<1>15. x.phase = "refused" => y.held + y.inserts + y.slips > MaxOffset
  <2>1. x.phase = "refused" => x.held + x.inserts + x.slips > MaxOffset
    BY DEF WalkInv, HeldInv
  <2> QED
    BY <1>1, <1>3, <2>1, BoundsAssumption
<1>16. SkipInv(y)'
  BY <1>1, <1>6, <1>11, <1>12 DEF SkipInv, Waits
<1>17. RepeatInv(y)'
  BY <1>13 DEF RepeatInv
<1>18. HeldInv(y)'
  BY <1>1, <1>6, <1>14, <1>15 DEF HeldInv, Waits
<1>19. (y.phase # "count" => y.page = {}) /\ (~Waits(y) => y.shown = {})
  BY <1>1, <1>6 DEF WalkInv
<1> QED
  BY <1>16, <1>17, <1>18, <1>19 DEF WalkInv, Waits

LEMMA InsertMoves ==
  ASSUME TypeOK, NEW u \in Users, NEW n \in 1 .. RowBound, NEW t \in Times,
         Insert(u, n, t), NEW v
  PROVE  RowsStay(v) /\ RowsMove(v, IF v = u THEN n ELSE 0, 0)
<1> DEFINE new == RowIds' \ RowIds
<1>1. /\ Len(table) \in Nat /\ n \in Nat /\ Len(table') = Len(table) + n
      /\ \A r \in RowIds : r \in RowIds' /\ table'[r] = table[r]
      /\ \A r \in new : table'[r] = [user |-> u, createdAt |-> t]
      /\ removed \subseteq RowIds /\ removed' = removed
  <2>1. /\ Len(table') = Len(table) + n
        /\ \A r \in RowIds : r \in RowIds' /\ table'[r] = table[r]
        /\ \A r \in new : table'[r] = [user |-> u, createdAt |-> t]
    BY InsertIs
  <2>2. Len(table) \in Nat /\ n \in Nat
    BY RowsOf, BoundsAssumption
  <2>3. removed \subseteq RowIds /\ removed' = removed
    BY DEF Insert, TypeOK
  <2> HIDE DEF new
  <2> QED
    BY <2>1, <2>2, <2>3
<1>2. \A r \in RowIds : r \in RowIds' /\ table'[r] = table[r]
  BY <1>1
<1>3. Cardinality(new) = n /\ IsFiniteSet(new)
  <2>1. new = (Len(table) + 1) .. (Len(table) + n)
    BY <1>1 DEF RowIds
  <2>2. /\ IsFiniteSet((Len(table) + 1) .. (Len(table) + n))
        /\ Cardinality((Len(table) + 1) .. (Len(table) + n))
             = IF Len(table) + 1 > Len(table) + n THEN 0
               ELSE (Len(table) + n) - (Len(table) + 1) + 1
    <3>1. Len(table) + 1 \in Int /\ Len(table) + n \in Int
      BY <1>1
    <3> QED
      BY <3>1, FS_Interval
  <2>3. ~(Len(table) + 1 > Len(table) + n) /\ n >= 1
    BY <1>1
  <2>4. (Len(table) + n) - (Len(table) + 1) + 1 = n
    BY <1>1
  <2> QED
    BY <2>1, <2>2, <2>3, <2>4
<1>4. \A r \in new : table'[r].user = u
  BY <1>1
<1>5. Listing(v)' = Listing(v) \cup (IF v = u THEN new ELSE {})
  <2>1. Listing(v)' = {r \in RowIds' \ removed : table'[r].user = v}
    BY <1>1 DEF Listing
  <2>2. Listing(v) = {r \in RowIds \ removed : table[r].user = v}
    BY DEF Listing
  <2>3. \A r \in new : r \notin removed /\ r \in RowIds'
    BY <1>1
  <2>4. \A r \in RowIds' : r \in RowIds \/ r \in new
    OBVIOUS
  <2> HIDE DEF new
  <2> QED
    BY <1>2, <1>4, <2>1, <2>2, <2>3, <2>4
<1>6. \A r \in RowIds : r \notin new
  OBVIOUS
<1> HIDE DEF new
<1>7. RowsStay(v)
  <2>1. RowIds \subseteq RowIds'
    BY <1>2
  <2>2. ASSUME NEW r \in RowIds, Untied(r)'
        PROVE  Untied(r)
    <3>1. \A x \in RowIds' \ {r} : table'[x] # table'[r]
      BY <2>2 DEF Untied
    <3>2. \A x \in RowIds \ {r} : table[x] # table[r]
      BY <1>2, <3>1
    <3> QED
      BY <3>2 DEF Untied
  <2>3. ASSUME NEW r \in RowIds, r \in Listing(v)'
        PROVE  r \in Listing(v)
    BY <1>5, <1>6, <2>3
  <2> QED
    BY <2>1, <2>2, <2>3 DEF RowsStay
<1>8. /\ IsFiniteSet(Listing(v)) /\ Size(v) \in Nat
      /\ Listing(v) \in SUBSET RowIds
  BY ListingFinite
<1>9. Size(v)' = Size(v) + (IF v = u THEN n ELSE 0) - 0
  <2>1. CASE v = u
    <3>1. Listing(v) \cap new = {}
      BY <1>6, <1>8
    <3>2. Cardinality(Listing(v) \cup new)
            = Cardinality(Listing(v)) + Cardinality(new) - Cardinality({})
      BY <1>3, <1>8, <3>1, FS_Union
    <3>3. Size(v)' = Cardinality(Listing(v) \cup new)
      BY <1>5, <2>1 DEF Size
    <3>4. Cardinality({}) = 0 /\ Cardinality(Listing(v)) = Size(v)
      BY FS_EmptySet DEF Size
    <3> QED
      BY <1>1, <1>3, <1>8, <2>1, <3>2, <3>3, <3>4
  <2>2. CASE v # u
    <3>1. Size(v)' = Size(v)
      BY <1>5, <2>2 DEF Size
    <3> QED
      BY <1>8, <2>2, <3>1
  <2> QED
    BY <2>1, <2>2
<1>10. ASSUME NEW r \in Listing(v), r \in Listing(v)'
       PROVE  /\ Place(r)' \in Int
              /\ Place(r) - 0 <= Place(r)'
              /\ Place(r)' <= Place(r) + (IF v = u THEN n ELSE 0)
  <2>1. /\ r \in RowIds /\ table'[r] = table[r] /\ table[r].user = v
    BY <1>2, <1>8, ListingFinite
  <2>2. /\ Above(r) \in SUBSET Listing(v) /\ IsFiniteSet(Above(r))
        /\ Place(r) \in Nat
    BY PlaceType
  <2>3. Above(r)' = {x \in Listing(v)' : table'[x].createdAt >= table[r].createdAt}
    BY <2>1 DEF Above
  <2>4. Above(r) = {x \in Listing(v) : table[x].createdAt >= table[r].createdAt}
    BY <2>1 DEF Above
  <2>5. \A x \in Listing(v) : table'[x] = table[x]
    BY <1>2, <1>8
  <2>6. CASE v = u
    <3>1. /\ Above(r) \in SUBSET Above(r)'
          /\ Above(r)' \in SUBSET (Above(r) \cup new)
      BY <1>5, <2>3, <2>4, <2>5, <2>6
    <3>2. IsFiniteSet(Above(r) \cup new) /\ Cardinality(Above(r) \cap new) \in Nat
          /\ Cardinality(Above(r) \cup new)
               = Place(r) + n - Cardinality(Above(r) \cap new)
      BY <1>3, <2>2, FS_Union, FS_Intersection, FS_CardinalityType DEF Place
    <3>3. /\ IsFiniteSet(Above(r)')
          /\ Cardinality(Above(r)') <= Cardinality(Above(r) \cup new)
      BY <3>1, <3>2, FS_Subset
    <3>4. Place(r) <= Cardinality(Above(r)')
      BY <3>1, <3>3, FS_Subset DEF Place
    <3>5. Cardinality(Above(r)') \in Nat
      BY <3>3, FS_CardinalityType
    <3>6. Place(r)' = Cardinality(Above(r)')
      BY DEF Place
    <3> QED
      BY <1>1, <2>2, <2>6, <3>2, <3>3, <3>4, <3>5, <3>6
  <2>7. CASE v # u
    <3>1. Above(r)' = Above(r)
      BY <1>5, <2>3, <2>4, <2>5, <2>7
    <3>2. Place(r)' = Place(r)
      BY <3>1 DEF Place
    <3> QED
      BY <2>2, <2>7, <3>2
  <2> QED
    BY <2>6, <2>7
<1> QED
  BY <1>7, <1>9, <1>10 DEF RowsMove

LEMMA RemoveMoves ==
  ASSUME TypeOK, NEW u \in Users, NEW q \in RowIds, Remove(u, q), NEW v
  PROVE  RowsStay(v) /\ RowsMove(v, 0, IF v = u THEN 1 ELSE 0)
<1>1. /\ RowIds' = RowIds /\ table' = table
      /\ removed' = removed \cup {q} /\ q \in Listing(u)
      /\ table[q].user = u
  BY DEF Remove, RowIds, Listing
<1>2. Listing(v)' = Listing(v) \ {q}
  BY <1>1 DEF Listing
<1>3. \A r : Untied(r)' <=> Untied(r)
  BY <1>1 DEF Untied
<1>4. RowsStay(v)
  BY <1>1, <1>2, <1>3 DEF RowsStay
<1>5. IsFiniteSet(Listing(v)) /\ Size(v) \in Nat /\ (v # u => q \notin Listing(v))
  BY <1>1, ListingFinite
<1>6. Size(v)' = Size(v) + 0 - (IF v = u THEN 1 ELSE 0)
  <2>1. CASE v = u
    <3>1. Cardinality(Listing(v) \ {q}) = Cardinality(Listing(v)) - 1
      BY <1>1, <1>5, <2>1, FS_RemoveElement
    <3>2. Size(v)' = Size(v) - 1
      BY <1>2, <3>1 DEF Size
    <3> QED
      BY <1>5, <2>1, <3>2
  <2>2. CASE v # u
    <3>1. Listing(v)' = Listing(v)
      BY <1>2, <1>5, <2>2
    <3>2. Size(v)' = Size(v)
      BY <3>1 DEF Size
    <3> QED
      BY <1>5, <2>2, <3>2
  <2> QED
    BY <2>1, <2>2
<1>7. ASSUME NEW r \in Listing(v), r \in Listing(v)'
      PROVE  /\ Place(r)' \in Int
             /\ Place(r) - (IF v = u THEN 1 ELSE 0) <= Place(r)'
             /\ Place(r)' <= Place(r) + 0
  <2>1. table[r].user = v
    BY ListingFinite
  <2>2. /\ Above(r) \in SUBSET Listing(v) /\ IsFiniteSet(Above(r))
        /\ Place(r) \in Nat
    BY PlaceType
  <2>3. Above(r)' = Above(r) \ {q}
    BY <1>1, <1>2, <2>1 DEF Above
  <2>4. Place(r)' = Cardinality(Above(r) \ {q})
    BY <2>3 DEF Place
  <2>5. CASE q \in Above(r)
    <3>1. v = u
      BY <1>5, <2>2, <2>5
    <3>2. Cardinality(Above(r) \ {q}) = Cardinality(Above(r)) - 1
      BY <2>2, <2>5, FS_RemoveElement
    <3>3. Place(r)' = Place(r) - 1
      BY <2>4, <3>2 DEF Place
    <3> QED
      BY <2>2, <3>1, <3>3
  <2>6. CASE q \notin Above(r)
    <3>1. Above(r) \ {q} = Above(r)
      BY <2>6
    <3>2. Place(r)' = Place(r)
      BY <2>4, <3>1 DEF Place
    <3> QED
      BY <2>2, <3>2
  <2> QED
    BY <2>5, <2>6
<1> QED
  BY <1>4, <1>6, <1>7 DEF RowsMove

-----------------------------------------------------------------------------
(* The inductive invariant, and what follows from it                       *)

\* A walk of which no step changes anything, among rows that move.
LEMMA InsertKeeps ==
  ASSUME TypeOK, WalksInv, NEW u \in Users, NEW n \in 1 .. RowBound,
         NEW t \in Times, Insert(u, n, t), NEW w \in Begun'
  PROVE  WalkInv(walk[w])'
<1>1. n \in Nat /\ w \in Walks
  BY BoundsAssumption DEF Begun
<1>2. Noted(u, w, n, Late(walk[w], n))
  BY <1>1, InsertNoted DEF Insert
<1>3. w \in Begun
  BY <1>2 DEF Noted, Under, Begun
<1>4. PICK x, y : x = walk[w] /\ y = walk'[w]
  OBVIOUS
<1>5. x \in Walk /\ WalkOK(x) /\ WalkInv(x)
  BY <1>3, <1>4, WalkType DEF WalksInv
<1>6. RowsStay(x.user) /\ RowsMove(x.user, IF x.user = u THEN n ELSE 0, 0)
  BY InsertMoves
<1>7. CASE Under(w) /\ x.user = u
  <2>1. Notes(x, y, n, Late(x, n))
    BY <1>2, <1>4, <1>7 DEF Noted
  <2>2. 0 + Late(x, n) = Late(x, n)
    BY <1>1 DEF Late
  <2>3. WalkInv(y)'
    BY <1>1, <1>5, <1>6, <1>7, <2>1, <2>2, NotedKeeps
  <2> QED
    BY <1>4, <2>3
<1>8. CASE ~(Under(w) /\ x.user = u)
  <2>1. y = x
    BY <1>2, <1>4, <1>8 DEF Noted
  <2>2. Late(x, 0) = 0 /\ 0 + 0 = 0
    BY DEF Late
  <2>3. Notes(x, y, 0, 0)
    BY <1>5, <2>1, WalkNumbers DEF Notes
  <2>4. Waits(x) => x.user # u
    BY <1>3, <1>4, <1>8 DEF Under, Begun, Waits
  <2>5. Waits(x) => RowsMove(x.user, 0, 0)
    BY <1>6, <2>4
  <2>6. WalkInv(y)'
    BY <1>5, <1>6, <2>2, <2>3, <2>5, NotedKeeps
  <2> QED
    BY <1>4, <2>6
<1> QED
  BY <1>7, <1>8

LEMMA RemoveKeeps ==
  ASSUME TypeOK, WalksInv, NEW u \in Users, NEW q \in RowIds, Remove(u, q),
         NEW w \in Begun'
  PROVE  WalkInv(walk[w])'
<1>1. w \in Walks
  BY DEF Begun
<1>2. Noted(u, w, 0, 1)
  BY <1>1, RemoveNoted DEF Remove
<1>3. w \in Begun
  BY <1>2 DEF Noted, Under, Begun
<1>4. PICK x, y : x = walk[w] /\ y = walk'[w]
  OBVIOUS
<1>5. x \in Walk /\ WalkOK(x) /\ WalkInv(x)
  BY <1>3, <1>4, WalkType DEF WalksInv
<1>6. RowsStay(x.user) /\ RowsMove(x.user, 0, IF x.user = u THEN 1 ELSE 0)
  BY RemoveMoves
<1>7. Late(x, 0) = 0 /\ 0 + 0 = 0 /\ 1 + 0 = 1
  BY DEF Late
<1>8. CASE Under(w) /\ x.user = u
  <2>1. Notes(x, y, 0, 1)
    BY <1>2, <1>4, <1>8 DEF Noted
  <2>2. WalkInv(y)'
    BY <1>5, <1>6, <1>7, <1>8, <2>1, NotedKeeps
  <2> QED
    BY <1>4, <2>2
<1>9. CASE ~(Under(w) /\ x.user = u)
  <2>1. y = x
    BY <1>2, <1>4, <1>9 DEF Noted
  <2>2. Notes(x, y, 0, 0)
    BY <1>5, <2>1, WalkNumbers DEF Notes
  <2>3. Waits(x) => x.user # u
    BY <1>3, <1>4, <1>9 DEF Under, Begun, Waits
  <2>4. Waits(x) => RowsMove(x.user, 0, 0)
    BY <1>6, <2>3
  <2>5. WalkInv(y)'
    BY <1>5, <1>6, <1>7, <2>2, <2>4, NotedKeeps
  <2> QED
    BY <1>4, <2>5
<1> QED
  BY <1>8, <1>9

\* The rows stay where they are, and so does what holds of a walk.
LEMMA SameRows ==
  ASSUME UNCHANGED <<table, removed>>, NEW y, WalkInv(y)
  PROVE  WalkInv(y)'
<1>1. /\ \A u : Listing(u)' = Listing(u)
      /\ \A r : Untied(r)' <=> Untied(r)
  BY DEF Listing, RowIds, Untied
<1>2. \A r : Above(r)' = Above(r)
  BY <1>1 DEF Above
<1>3. /\ \A u : Size(u)' = Size(u)
      /\ \A r : Place(r)' = Place(r)
      /\ \A S : UntiedIn(S)' = UntiedIn(S)
  BY <1>1, <1>2 DEF Size, Place, UntiedIn
<1>4. /\ Missed(y, y.page, Passed(y))' = Missed(y, y.page, Passed(y))
      /\ Twice(y, y.page, Passed(y))' = Twice(y, y.page, Passed(y))
      /\ Grown(y)' = Grown(y) /\ Shrunk(y)' = Shrunk(y)
      /\ Expected(y)' = Expected(y)
  BY <1>1, <1>3 DEF Missed, Twice, Grown, Shrunk, Expected, Passed, UntiedIn
<1>5. SkipInv(y)' /\ RepeatInv(y)' /\ HeldInv(y)'
  BY <1>3, <1>4 DEF WalkInv, SkipInv, RepeatInv, HeldInv, Waits
<1> QED
  BY <1>5 DEF WalkInv, Waits

LEMMA OneWalkKeeps ==
  ASSUME TypeOK, WalksInv, NEW w \in Walks, NEW y, WalkInv(y),
         walk' = [walk EXCEPT ![w] = y], UNCHANGED <<table, removed>>
  PROVE  WalksInv'
<1> SUFFICES ASSUME NEW v \in Begun'
             PROVE  WalkInv(walk[v])'
  BY DEF WalksInv
<1>1. PICK z : z = walk'[v]
  OBVIOUS
<1>2. z = y \/ (v \in Begun /\ z = walk[v])
  BY <1>1 DEF Begun, TypeOK
<1>3. WalkInv(z)
  BY <1>2 DEF WalksInv
<1>4. WalkInv(z)'
  BY <1>3, SameRows
<1> QED
  BY <1>1, <1>4

LEMMA WalksInit == Init => WalksInv
BY DEF Init, WalksInv, Begun

LEMMA WalksStep == TypeOK /\ WalksInv /\ [Next]_vars => WalksInv'
<1> SUFFICES ASSUME TypeOK, WalksInv, [Next]_vars
             PROVE  WalksInv'
  OBVIOUS
<1>1. ASSUME NEW u \in Users, NEW n \in 1 .. RowBound, NEW t \in Times,
             Insert(u, n, t)
      PROVE  WalksInv'
  BY <1>1, InsertKeeps DEF WalksInv
<1>2. ASSUME NEW u \in Users, NEW r \in RowIds, Remove(u, r)
      PROVE  WalksInv'
  BY <1>2, RemoveKeeps DEF WalksInv
<1>3. ASSUME NEW w \in Walks, NEW u \in Users, NEW limit \in Limits,
             BeginWalk(w, u, limit)
      PROVE  WalksInv'
  <2> DEFINE y == [user |-> u, limit |-> limit, offset |-> 0, phase |-> "both",
                   page |-> {}, count |-> 0, shown |-> {}, repeated |-> {},
                   held |-> 0, due |-> Listing(u), inserts |-> 0, slips |-> 0]
  <2>1. walk' = [walk EXCEPT ![w] = y] /\ UNCHANGED <<table, removed>>
    BY <1>3 DEF BeginWalk
  <2>2. /\ y.user = u /\ y.offset = 0 /\ y.phase = "both" /\ y.page = {}
        /\ y.shown = {} /\ y.repeated = {} /\ y.held = 0 /\ y.inserts = 0
        /\ y.slips = 0 /\ y.due = Listing(u)
    OBVIOUS
  <2> HIDE DEF y
  <2>3. WalkInv(y)
    BY <2>2, BeginKeeps
  <2> QED
    BY <2>1, <2>3, OneWalkKeeps
<1>4. ASSUME NEW w \in Walks, FindMany(w)
      PROVE  WalksInv'
  <2>1. PICK x : x = walk[w]
    OBVIOUS
  <2>2. x \in Walk /\ WalkOK(x) /\ WalkInv(x)
    BY <1>4, <2>1, FindManyIs, WalkType DEF WalksInv
  <2>3. PICK page \in Pages(x.user, x.limit, x.offset), y \in Walk :
          FoundMany(x, page, y) /\ walk' = [walk EXCEPT ![w] = y]
    BY <1>4, <2>1, FindManyIs
  <2>4. WalkInv(y)
    BY <2>2, <2>3, FindManyKeeps
  <2> QED
    BY <1>4, <2>3, <2>4, FindManyIs, OneWalkKeeps
<1>5. ASSUME NEW w \in Walks, Count(w)
      PROVE  WalksInv'
  <2>1. PICK x : x = walk[w]
    OBVIOUS
  <2>2. x \in Walk /\ WalkOK(x) /\ WalkInv(x)
    BY <1>5, <2>1, CountIs, WalkType DEF WalksInv
  <2>3. PICK y \in Walk :
          Counted(x, Size(x.user), y) /\ walk' = [walk EXCEPT ![w] = y]
    BY <1>5, <2>1, CountIs
  <2>4. WalkInv(y)
    BY <2>2, <2>3, CountKeeps
  <2> QED
    BY <1>5, <2>3, <2>4, CountIs, OneWalkKeeps
<1>6. ASSUME NEW w \in Walks, Abandon(w)
      PROVE  WalksInv'
  <2> SUFFICES ASSUME NEW v \in Begun'
               PROVE  WalkInv(walk[v])'
    BY DEF WalksInv
  <2>1. PICK z : z = walk'[v]
    OBVIOUS
  <2>2. v \in Begun /\ z = walk[v] /\ UNCHANGED <<table, removed>>
    BY <1>6, <2>1 DEF Abandon, Begun, TypeOK
  <2>3. WalkInv(z)'
    BY <2>2, SameRows DEF WalksInv
  <2> QED
    BY <2>1, <2>3
<1>7. CASE UNCHANGED vars
  <2> SUFFICES ASSUME NEW v \in Begun'
               PROVE  WalkInv(walk[v])'
    BY DEF WalksInv
  <2>1. PICK z : z = walk'[v]
    OBVIOUS
  <2>2. v \in Begun /\ z = walk[v] /\ UNCHANGED <<table, removed>>
    BY <1>7, <2>1 DEF vars, Begun
  <2>3. WalkInv(z)'
    BY <2>2, SameRows DEF WalksInv
  <2> QED
    BY <2>1, <2>3
<1> QED
  BY <1>1, <1>2, <1>3, <1>4, <1>5, <1>6, <1>7 DEF Next, Query

LEMMA WalksHold == Spec => []WalksInv
BY TypeCorrect, WalksInit, WalksStep, PTL DEF Spec

\* A walk that ends has missed no more untied rows than could slip.
THEOREM FewAreSkipped == Spec => []SkipsAreBounded
<1>1. WalksInv => SkipsAreBounded
  BY DEF WalksInv, WalkInv, SkipInv, SkipsAreBounded, UntiedIn
<1> QED
  BY <1>1, WalksHold, PTL

\* A walk has shown no more untied rows twice than entered its listing.
THEOREM FewAreRepeated == Spec => []RepeatsAreBounded
<1>1. ASSUME TypeOK, WalksInv
      PROVE  RepeatsAreBounded
  <2> SUFFICES ASSUME NEW w \in Begun
               PROVE  Cardinality({r \in walk[w].repeated : Untied(r)})
                        <= walk[w].inserts
    BY DEF RepeatsAreBounded
  <2>1. PICK x : x = walk[w]
    OBVIOUS
  <2>2. x \in Walk /\ WalkOK(x) /\ WalkInv(x)
    BY <1>1, <2>1, WalkType DEF WalksInv
  <2> DEFINE some == {r \in x.repeated : Untied(r)}
             twice == Twice(x, x.page, Passed(x))
  <2>3. some \in SUBSET twice
    BY DEF Twice, UntiedIn
  <2>4. x.page \in SUBSET RowIds
    BY <2>2 DEF WalkOK
  <2>5. twice \in SUBSET RowIds
    BY <1>1, <2>2, <2>4, MissedRows
  <2>6. /\ Cardinality(some) \in Nat /\ Cardinality(twice) \in Nat
        /\ Cardinality(some) <= Cardinality(twice)
    BY <1>1, <2>3, <2>5, FewerRows, RowsFinite
  <2>7. Cardinality(twice) <= x.inserts /\ x.inserts \in Nat
    BY <2>2, WalkNumbers DEF WalkInv, RepeatInv
  <2> HIDE DEF some, twice
  <2>8. Cardinality(some) <= x.inserts
    BY <2>6, <2>7
  <2> QED
    BY <2>1, <2>8 DEF some
<1> QED
  BY <1>1, TypeCorrect, WalksHold, PTL

\* A walk is refused only past as many rows as the greatest offset.
THEOREM RefusalsAreFarOut == Spec => []RefusedFarOut
<1>1. WalksInv => RefusedFarOut
  BY DEF WalksInv, WalkInv, HeldInv, RefusedFarOut
<1> QED
  BY <1>1, WalksHold, PTL
=============================================================================
