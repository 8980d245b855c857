-------------------------- MODULE OrderSyncProofs --------------------------
(***************************************************************************)
(* Theorems about OrderSync for every number of users, keys, accounts,     *)
(* orders and imports, every page size and every bound.                    *)
(***************************************************************************)
EXTENDS OrderSync, Sums, FiniteSetTheorems, TLAPS

\* A set of order ids has a number of elements.
LEMMA OrdersCount ==
  ASSUME NEW S \in SUBSET OrderIds
  PROVE  IsFiniteSet(S) /\ Cardinality(S) \in Nat
  BY FS_Subset, FS_CardinalityType, OrdersAssumption

\* The windows _getSyncDateRange computes are made of times.
LEMMA RangeType ==
  ASSUME TypeOK, NEW u \in Users, NEW k \in Keys, NEW mode \in Modes,
         NEW w \in SyncDateRange(u, k, mode)
  PROVE  w.from \in Nat /\ w.to \in Nat
<1> DEFINE T == KeyTimes(u, k)
<1>1. T \subseteq Nat
  BY DEF TypeOK, KeyTimes, Row
<1>2. AllEnd(T) \subseteq Nat /\ RecentStart(T) \subseteq Nat
  BY <1>1 DEF AllEnd, RecentStart, Oldest, Newest, TypeOK
<1>3. Times \subseteq Nat
  BY BoundsAssumption DEF Times
<1>4. CASE mode = "ALL"
  BY <1>2, <1>4 DEF SyncDateRange
<1>5. CASE mode = "RECENT"
  BY <1>2, <1>5 DEF SyncDateRange, TypeOK
<1>6. CASE mode = "RANGE"
  BY <1>3, <1>6 DEF SyncDateRange
<1> QED
  BY <1>4, <1>5, <1>6, OrdersAssumption

LEMMA PageType ==
  ASSUME NEW s \in Syncs
  PROVE  /\ Window(s) \in SUBSET OrderIds
         /\ Page(s) \in SUBSET OrderIds
         /\ Cardinality(Page(s)) \in Nat
<1>1. Window(s) \in SUBSET OrderIds /\ Page(s) \in SUBSET OrderIds
  BY DEF Page, Window, Closed
<1> QED
  BY <1>1, OrdersCount

-----------------------------------------------------------------------------
(* Type correctness, one lemma per group of actions *)

LEMMA InitType == Init => TypeOK
  BY BoundsAssumption DEF Init, TypeOK, InFlight, Ended

LEMMA ExchangeType ==
  ASSUME TypeOK, \/ Tick
                 \/ \E a \in Accounts, o \in OrderIds, t \in Times :
                      CloseOrder(a, o, t)
  PROVE  TypeOK'
<1>1. CASE Tick
  BY <1>1 DEF Tick, TypeOK, exchange, memory, database, history
<1>2. ASSUME NEW a \in Accounts, NEW o \in OrderIds, NEW t \in Times,
             CloseOrder(a, o, t)
      PROVE  TypeOK'
  <2>1. Cardinality(Closed) + 1 \in Nat
    BY OrdersCount DEF Closed
  <2>2. t \in Nat
    BY BoundsAssumption DEF Times
  <2> QED
    BY <1>2, <2>1, <2>2 DEF CloseOrder, TypeOK, memory, database, history
<1> QED
  BY <1>1, <1>2

LEMMA AskType ==
  ASSUME TypeOK, NEW s \in Syncs, AskSync(s)
  PROVE  TypeOK'
<1> PICK u \in Users, k \in Keys :
       \/ \E mode \in Modes : BeginSync(s, u, k, mode)
       \/ \E mode \in Modes \cup {"OTHER"} : RejectSync(s, u, k, mode)
       \/ UnsupportedSync(s, u, k)
  BY DEF AskSync
<1>1. ASSUME NEW mode \in Modes, BeginSync(s, u, k, mode)
      PROVE  TypeOK'
  <2>1. PICK w \in SyncDateRange(u, k, mode) :
          req' = [req EXCEPT ![s] = [user |-> u, key |-> k,
                                     from |-> w.from, to |-> w.to]]
    BY <1>1 DEF BeginSync
  <2>2. [user |-> u, key |-> k, from |-> w.from, to |-> w.to] \in Request
    BY <1>1, RangeType DEF BeginSync, Request
  <2> QED
    BY <1>1, <2>1, <2>2
    DEF BeginSync, TypeOK, exchange, database, history, InFlight, Ended
<1>2. ASSUME NEW mode, RejectSync(s, u, k, mode)
      PROVE  TypeOK'
  BY <1>2 DEF RejectSync, TypeOK, exchange, database, history, InFlight, Ended
<1>3. CASE UnsupportedSync(s, u, k)
  BY <1>3 DEF UnsupportedSync, TypeOK, exchange, database, history, InFlight, Ended
<1> QED
  BY <1>1, <1>2, <1>3

LEMMA ReadPageType ==
  ASSUME TypeOK, NEW s \in Syncs, ReadPage(s)
  PROVE  /\ fetched' \in [Syncs -> SUBSET OrderIds]
         /\ due' \in [Syncs -> SUBSET OrderIds]
  BY PageType DEF ReadPage, TypeOK

LEMMA NewRowType ==
  ASSUME TypeOK, NEW s \in Syncs, insert[s] = "sent", NEW o \in sent[s]
  PROVE  NewRow(s, o) \in Row
<1>1. req[s] \in Request /\ o \in OrderIds /\ when[o] \in Nat
  BY DEF TypeOK
<1> QED
  BY <1>1, KeysAssumption DEF NewRow, Row, Request

LEMMA StepType ==
  ASSUME TypeOK, NEW s \in Syncs, SyncStep(s)
  PROVE  TypeOK'
<1>1. CASE FetchFullPage(s)
  BY <1>1, PageType, ReadPageType
  DEF FetchFullPage, ReadPage, NextOfs, TypeOK, exchange, database
<1>2. CASE FetchLastPage(s)
  BY <1>2, ReadPageType
  DEF FetchLastPage, ReadPage, TypeOK, exchange, database, InFlight, Ended
<1>3. CASE FindExisting(s)
  BY <1>3 DEF FindExisting, TypeOK, exchange, database, history, InFlight, Ended
<1>4. CASE SaveOrders(s)
  <2>1. Fresh(s) \in SUBSET OrderIds
    BY DEF Fresh, TypeOK
  <2>2. Cardinality(Fresh(s)) \in Nat /\ req[s] \in Request
    BY <1>4, <2>1, OrdersCount DEF SaveOrders, TypeOK, InFlight
  <2> QED
    BY <1>4, <2>1, <2>2
    DEF SaveOrders, Release, TypeOK, exchange, history, InFlight, Ended
<1>5. CASE CommitInsert(s)
  <2>1. Inserted(s) \subseteq sent[s] /\ sent[s] \subseteq OrderIds
    BY DEF Inserted, TypeOK
  <2>2. Cardinality(Inserted(s)) \in Nat
    BY <2>1, OrdersCount
  <2>3. orders' \subseteq Row
    BY <1>5, <2>1, NewRowType DEF CommitInsert, TypeOK
  <2> QED
    BY <1>5, <2>2, <2>3 DEF CommitInsert, TypeOK, exchange, memory, history
<1>6. CASE Respond(s)
  BY <1>6 DEF Respond, Release, CountReported, TypeOK, exchange, database,
              history, InFlight, Ended
<1>7. CASE MappingFails(s)
  BY <1>7 DEF MappingFails, Release, TypeOK, exchange, database, history,
              InFlight, Ended
<1>8. CASE CallFails(s)
  BY <1>8 DEF CallFails, Release, TypeOK, exchange, database, history,
              InFlight, Ended
<1> QED
  BY <1>1, <1>2, <1>3, <1>4, <1>5, <1>6, <1>7, <1>8 DEF SyncStep, Proceed

LEMMA RestartType ==
  ASSUME TypeOK, Restart
  PROVE  TypeOK'
  BY DEF Restart, TypeOK, exchange, database, history, InFlight, Ended

LEMMA EditType ==
  ASSUME TypeOK, EditTable
  PROVE  TypeOK'
<1> PICK u \in Users :
       \/ \E o \in OrderIds : CreateOrder(u, o)
       \/ \E r \in orders : DeleteOrder(u, r)
       \/ \E r \in orders, o \in OrderIds, t \in Times : UpdateOrder(u, r, o, t)
  BY DEF EditTable
<1>1. ASSUME NEW o \in OrderIds, CreateOrder(u, o)
      PROVE  TypeOK'
  BY <1>1 DEF CreateOrder, TypeOK, Row, exchange, memory, database
<1>2. ASSUME NEW r \in orders, DeleteOrder(u, r)
      PROVE  TypeOK'
  BY <1>2 DEF DeleteOrder, NoteRemoval, TypeOK, Row, exchange, memory, database
<1>3. ASSUME NEW r \in orders, NEW o \in OrderIds, NEW t \in Times,
             UpdateOrder(u, r, o, t)
      PROVE  TypeOK'
  <2>1. Edited(r, o, t) \in Row
    BY BoundsAssumption DEF Edited, TypeOK, Row, Times
  <2>2. orders' \subseteq Row
    BY <1>3, <2>1 DEF UpdateOrder, TypeOK
  <2>3. removed' \in [Syncs -> SUBSET OrderIds]
    BY <1>3 DEF UpdateOrder, NoteRemoval, TypeOK, Row
  <2>4. tally' \in [created : Nat, deleted : Nat, edited : Nat]
    BY <1>3 DEF UpdateOrder, TypeOK
  <2> QED
    BY <1>3, <2>2, <2>3, <2>4 DEF UpdateOrder, TypeOK, exchange, memory, database
<1> QED
  BY <1>1, <1>2, <1>3

LEMMA StutterType ==
  ASSUME TypeOK, UNCHANGED vars
  PROVE  TypeOK'
  BY DEF TypeOK, vars, exchange, memory, database, history

\* Every variable keeps its type: windows are made of times, counts and offsets
\* are naturals, and a running import knows what it was asked.
THEOREM TypeCorrect == Spec => []TypeOK
<1>1. TypeOK /\ [Next]_vars => TypeOK'
  BY ExchangeType, AskType, StepType, RestartType, EditType, StutterType
  DEF Next
<1> QED
  BY <1>1, InitType, PTL DEF Spec

-----------------------------------------------------------------------------
(* Uniqueness: the insert checks the table it inserts into, so what the lookup *)
(* returned earlier does not matter                                            *)

\* Of an import's steps only the insert touches the table.
LEMMA OthersInsertNothing ==
  ASSUME NEW s \in Syncs, SyncStep(s), ~CommitInsert(s)
  PROVE  UNCHANGED orders
  BY DEF SyncStep, Proceed, FetchFullPage, FetchLastPage, FindExisting,
         SaveOrders, Respond, MappingFails, CallFails

LEMMA StepKeepsIdsUnique ==
  ASSUME OrderIdsUnique, NEW s \in Syncs, SyncStep(s)
  PROVE  OrderIdsUnique'
<1>1. CASE CommitInsert(s)
  <2>1. \A r \in orders : r.orderId \in StoredIds
    BY DEF StoredIds
  <2>2. ASSUME NEW r \in orders'
        PROVE  \/ r \in orders
               \/ \E o \in Inserted(s) : r = NewRow(s, o)
    BY <1>1 DEF CommitInsert
  <2>3. \A o \in Inserted(s) : o \notin StoredIds /\ NewRow(s, o).orderId = o
    BY DEF Inserted, NewRow
  <2> QED
    BY <2>1, <2>2, <2>3 DEF OrderIdsUnique
<1>2. CASE ~CommitInsert(s)
  <2>1. UNCHANGED orders
    BY <1>2, OthersInsertNothing
  <2> QED
    BY <2>1 DEF OrderIdsUnique
<1> QED
  BY <1>1, <1>2

LEMMA EditKeepsIdsUnique ==
  ASSUME OrderIdsUnique, EditTable
  PROVE  OrderIdsUnique'
<1>0. \A r \in orders : r.orderId \in StoredIds
  BY DEF StoredIds
<1> PICK u \in Users :
       \/ \E o \in OrderIds : CreateOrder(u, o)
       \/ \E r \in orders : DeleteOrder(u, r)
       \/ \E r \in orders, o \in OrderIds, t \in Times : UpdateOrder(u, r, o, t)
  BY DEF EditTable
<1>1. ASSUME NEW o \in OrderIds, CreateOrder(u, o)
      PROVE  OrderIdsUnique'
  BY <1>0, <1>1 DEF CreateOrder, OrderIdsUnique
<1>2. ASSUME NEW r \in orders, DeleteOrder(u, r)
      PROVE  OrderIdsUnique'
  BY <1>2 DEF DeleteOrder, OrderIdsUnique
<1>3. ASSUME NEW r \in orders, NEW o \in OrderIds, NEW t \in Times,
             UpdateOrder(u, r, o, t)
      PROVE  OrderIdsUnique'
  <2>1. orders' = (orders \ {r}) \cup {Edited(r, o, t)}
    BY <1>3 DEF UpdateOrder
  <2>2. \A x \in orders \ {r} : x.orderId # o
    BY <1>0, <1>3 DEF UpdateOrder, OrderIdsUnique
  <2>3. Edited(r, o, t).orderId = o
    BY DEF Edited
  <2> QED
    BY <2>1, <2>2, <2>3 DEF OrderIdsUnique
<1> QED
  BY <1>1, <1>2, <1>3

\* The actions that leave the table alone.
LEMMA OthersKeepTable ==
  ASSUME Next, ~EditTable, \A s \in Syncs : ~SyncStep(s)
  PROVE  UNCHANGED orders
<1>1. CASE Tick
  BY <1>1 DEF Tick
<1>2. ASSUME NEW a \in Accounts, NEW o \in OrderIds, NEW t \in Times,
             CloseOrder(a, o, t)
      PROVE  UNCHANGED orders
  BY <1>2 DEF CloseOrder
<1>3. ASSUME NEW s \in Syncs, AskSync(s)
      PROVE  UNCHANGED orders
  BY <1>3 DEF AskSync, BeginSync, RejectSync, UnsupportedSync
<1>4. CASE Restart
  BY <1>4 DEF Restart
<1> QED
  BY <1>1, <1>2, <1>3, <1>4 DEF Next

\* No exchange order is in the table twice, whatever imports and edits overlap.
THEOREM IdsUnique == Spec => []OrderIdsUnique
<1>1. Init => OrderIdsUnique
  BY DEF Init, OrderIdsUnique
<1>2. OrderIdsUnique /\ [Next]_vars => OrderIdsUnique'
  <2>1. CASE UNCHANGED vars
    BY <2>1 DEF vars, OrderIdsUnique
  <2>2. ASSUME OrderIdsUnique, Next
        PROVE  OrderIdsUnique'
    <3>1. CASE EditTable
      BY <2>2, <3>1, EditKeepsIdsUnique
    <3>2. CASE \E s \in Syncs : SyncStep(s)
      BY <2>2, <3>2, StepKeepsIdsUnique
    <3>3. CASE ~EditTable /\ \A s \in Syncs : ~SyncStep(s)
      BY <2>2, <3>3, OthersKeepTable DEF OrderIdsUnique
    <3> QED
      BY <3>1, <3>2, <3>3
  <2> QED
    BY <2>1, <2>2
<1> QED
  BY <1>1, <1>2, PTL DEF Spec

-----------------------------------------------------------------------------
(* The inductive invariant *)

\* The places of the closed orders are distinct, and none is past their number:
\* the next order to close heads every list it is in.
HistoryOrdered ==
  \A o \in Closed :
    /\ closedNo[o] <= Cardinality(Closed)
    /\ \A p \in Closed : closedNo[o] = closedNo[p] => o = p

\* Paging begins at the first page.
BeginsAtTop(s) == pc[s] = "idle" => ofs[s] = 0

\* After the first page each order that is due is in the window still, and has
\* either been fetched or is listed at or after the next offset: what closes
\* meanwhile only moves it further.
PagesCover(s) ==
  pc[s] = "paging" /\ ofs[s] # 0 =>
    \A o \in due[s] :
      /\ o \in Window(s)
      /\ o \in fetched[s] \/ ofs[s] <= Cardinality(Newer(s, o))

\* After the last page everything due has been fetched.
FetchComplete(s) == pc[s] \in {"check", "save"} => due[s] \subseteq fetched[s]

\* What the lookup found is stored, or has been taken out since.
LookupHolds(s) ==
  pc[s] = "save" => existing[s] \subseteq StoredIds \cup removed[s]

\* What has been sent to the database covers what is due, until it is inserted
\* and covers it there.  What became of the import meanwhile does not matter.
SentCovers(s) ==
  insert[s] = "sent" => due[s] \subseteq sent[s] \cup StoredIds \cup removed[s]
CommitCovers(s) ==
  insert[s] = "committed" => due[s] \subseteq StoredIds \cup removed[s]

\* What one import has to keep.
Delivers(s) ==
  /\ BeginsAtTop(s)
  /\ PagesCover(s)
  /\ FetchComplete(s)
  /\ LookupHolds(s)
  /\ SentCovers(s)
  /\ CommitCovers(s)

DeliveryInv == HistoryOrdered /\ \A s \in Syncs : Delivers(s)

-----------------------------------------------------------------------------
(* The rank of an order, how many of its window are newer: no two orders have  *)
(* the same, and no rank below an order's is missing                           *)

LEMMA RankType ==
  ASSUME NEW s \in Syncs, NEW o
  PROVE  /\ Newer(s, o) \in SUBSET OrderIds
         /\ IsFiniteSet(Newer(s, o))
         /\ Cardinality(Newer(s, o)) \in Nat
<1>1. Newer(s, o) \in SUBSET OrderIds
  BY DEF Newer, Window, Closed
<1> QED
  BY <1>1, OrdersCount

\* A newer order has a smaller rank.
LEMMA RankFalls ==
  ASSUME TypeOK, NEW s \in Syncs, NEW o \in Window(s), NEW p \in Newer(s, o)
  PROVE  Cardinality(Newer(s, p)) < Cardinality(Newer(s, o))
<1>1. o \in OrderIds /\ p \in OrderIds
  BY DEF Newer, Window, Closed
<1>2. closedNo \in [OrderIds -> Nat]
  BY DEF TypeOK
<1>3. ASSUME NEW q \in Newer(s, p)
      PROVE  q \in Newer(s, o)
  BY <1>1, <1>2 DEF Newer, Window, Closed
<1>4. p \notin Newer(s, p)
  BY <1>1, <1>2 DEF Newer
<1>5. Newer(s, p) \in SUBSET Newer(s, o) /\ Newer(s, p) # Newer(s, o)
  BY <1>3, <1>4
<1> QED
  BY <1>5, RankType, FS_Subset

LEMMA RanksDiffer ==
  ASSUME TypeOK, HistoryOrdered, NEW s \in Syncs,
         NEW o \in Window(s), NEW p \in Window(s),
         Cardinality(Newer(s, o)) = Cardinality(Newer(s, p))
  PROVE  o = p
<1>1. o \in Closed /\ p \in Closed /\ o \in OrderIds /\ p \in OrderIds
  BY DEF Window, Closed
<1>2. closedNo[o] \in Nat /\ closedNo[p] \in Nat
  BY <1>1 DEF TypeOK
<1>3. CASE closedNo[o] < closedNo[p]
  <2>1. p \in Newer(s, o)
    BY <1>2, <1>3 DEF Newer
  <2> QED
    BY <2>1, RankFalls, RankType
<1>4. CASE closedNo[p] < closedNo[o]
  <2>1. o \in Newer(s, p)
    BY <1>2, <1>4 DEF Newer
  <2> QED
    BY <2>1, RankFalls, RankType
<1>5. CASE closedNo[o] = closedNo[p]
  BY <1>1, <1>5 DEF HistoryOrdered
<1> QED
  BY <1>2, <1>3, <1>4, <1>5

\* A page holds at most PageSize orders.
LEMMA PageBound ==
  ASSUME TypeOK, HistoryOrdered, NEW s \in Syncs
  PROVE  Cardinality(Page(s)) <= PageSize
<1> DEFINE Ranks == ofs[s] .. ofs[s] + PageSize - 1
           rank == [o \in Page(s) |-> Cardinality(Newer(s, o))]
<1>1. ofs[s] \in Nat /\ PageSize \in Nat \ {0}
  BY PageSizeAssumption DEF TypeOK
<1>2. IsFiniteSet(Ranks) /\ Cardinality(Ranks) = PageSize
  <2>1. ofs[s] \in Int /\ ofs[s] + PageSize - 1 \in Int
    BY <1>1
  <2>2. /\ IsFiniteSet(Ranks)
        /\ Cardinality(Ranks) = IF ofs[s] > ofs[s] + PageSize - 1 THEN 0
                                ELSE (ofs[s] + PageSize - 1) - ofs[s] + 1
    BY <2>1, FS_Interval
  <2> QED
    BY <1>1, <2>2
<1>3. rank \in [Page(s) -> Ranks]
  <2>1. ASSUME NEW o \in Page(s)
        PROVE  Cardinality(Newer(s, o)) \in Ranks
    BY <1>1, RankType DEF Page
  <2> QED
    BY <2>1
<1>4. rank \in Injection(Page(s), Ranks)
  <2>1. ASSUME NEW o \in Page(s), NEW p \in Page(s), rank[o] = rank[p]
        PROVE  o = p
    BY <2>1, RanksDiffer DEF Page
  <2> QED
    BY <1>3, <2>1 DEF Injection, IsInjective
<1> QED
  BY <1>2, <1>4, FS_Injection

\* Behind a page there is nothing unless it is full.
LEMMA PageFull ==
  ASSUME TypeOK, HistoryOrdered, NEW s \in Syncs, NEW o \in Window(s),
         ofs[s] + PageSize <= Cardinality(Newer(s, o))
  PROVE  PageSize <= Cardinality(Page(s))
<1> DEFINE n == Cardinality(Newer(s, o))
           Ranks == ofs[s] .. ofs[s] + PageSize - 1
           Below == 0 .. n - 1
           rank == [p \in Newer(s, o) |-> Cardinality(Newer(s, p))]
<1>1. ofs[s] \in Nat /\ PageSize \in Nat \ {0} /\ n \in Nat
  BY PageSizeAssumption, RankType DEF TypeOK
<1>2. IsFiniteSet(Ranks) /\ Cardinality(Ranks) = PageSize
  <2>1. ofs[s] \in Int /\ ofs[s] + PageSize - 1 \in Int
    BY <1>1
  <2>2. /\ IsFiniteSet(Ranks)
        /\ Cardinality(Ranks) = IF ofs[s] > ofs[s] + PageSize - 1 THEN 0
                                ELSE (ofs[s] + PageSize - 1) - ofs[s] + 1
    BY <2>1, FS_Interval
  <2> QED
    BY <1>1, <2>2
<1>3. IsFiniteSet(Below) /\ Cardinality(Below) = n
  <2>1. 0 \in Int /\ n - 1 \in Int
    BY <1>1
  <2>2. /\ IsFiniteSet(Below)
        /\ Cardinality(Below) = IF 0 > n - 1 THEN 0 ELSE (n - 1) - 0 + 1
    BY <2>1, FS_Interval
  <2> QED
    BY <1>1, <2>2
<1>4. Newer(s, o) \subseteq Window(s)
  BY DEF Newer
<1>5. rank \in Injection(Newer(s, o), Below)
  <2>1. ASSUME NEW p \in Newer(s, o)
        PROVE  Cardinality(Newer(s, p)) \in Below
    BY <1>1, RankType, RankFalls
  <2>2. ASSUME NEW p \in Newer(s, o), NEW q \in Newer(s, o), rank[p] = rank[q]
        PROVE  p = q
    BY <1>4, <2>2, RanksDiffer
  <2> QED
    BY <2>1, <2>2 DEF Injection, IsInjective
<1>6. rank \in Surjection(Newer(s, o), Below)
  BY <1>3, <1>5, FS_Injection
<1>7. Ranks \subseteq Below
  BY <1>1
<1>8. ASSUME NEW i \in Ranks
      PROVE  \E p \in Page(s) : Cardinality(Newer(s, p)) = i
  <2>1. PICK p \in Newer(s, o) : rank[p] = i
    BY <1>6, <1>7 DEF Surjection
  <2>2. Cardinality(Newer(s, p)) = i /\ p \in Window(s)
    BY <1>4, <2>1
  <2>3. ofs[s] <= i /\ i < ofs[s] + PageSize
    BY <1>1
  <2> QED
    BY <2>2, <2>3 DEF Page
<1> DEFINE at == [i \in Ranks |->
                    CHOOSE p \in Page(s) : Cardinality(Newer(s, p)) = i]
<1>9. \A i \in Ranks : at[i] \in Page(s) /\ Cardinality(Newer(s, at[i])) = i
  BY <1>8
<1>10. at \in Injection(Ranks, Page(s))
  BY <1>9 DEF Injection, IsInjective
<1>11. IsFiniteSet(Page(s))
  BY PageType, OrdersCount
<1> QED
  BY <1>2, <1>10, <1>11, FS_Injection

\* An order at or after the offset is on the page, or the page is full and the
\* order is at or after the next offset.
LEMMA ReadCovers ==
  ASSUME TypeOK, HistoryOrdered, NEW s \in Syncs, NEW o \in Window(s),
         ofs[s] <= Cardinality(Newer(s, o)), o \notin Page(s)
  PROVE  ~IsLastPage(s) /\ NextOfs(s) <= Cardinality(Newer(s, o))
<1>1. ofs[s] \in Nat /\ PageSize \in Nat /\ Cardinality(Newer(s, o)) \in Nat
  BY PageSizeAssumption, RankType DEF TypeOK
<1>2. ofs[s] + PageSize <= Cardinality(Newer(s, o))
  BY <1>1 DEF Page
<1>3. Cardinality(Page(s)) = PageSize
  BY <1>1, <1>2, PageFull, PageBound, PageType
<1> QED
  BY <1>1, <1>2, <1>3 DEF IsLastPage, NextOfs

-----------------------------------------------------------------------------
(* What a step leaves as it was *)

\* A closed order stays what it is, and a new one is placed after all of them.
LEMMA ClosingPlaces ==
  ASSUME TypeOK, HistoryOrdered, NEW a \in Accounts, NEW o \in OrderIds,
         NEW t \in Times, CloseOrder(a, o, t)
  PROVE  /\ HistoryOrdered'
         /\ \A p \in Closed : /\ account'[p] = account[p]
                              /\ when'[p] = when[p]
                              /\ closedNo'[p] = closedNo[p]
<1> DEFINE n == Cardinality(Closed)
<1>1. o \notin Closed /\ Closed \in SUBSET OrderIds
  BY DEF CloseOrder, Closed
<1>2. Closed' = Closed \cup {o}
  BY KeysAssumption DEF CloseOrder, Closed, TypeOK
<1>3. n \in Nat /\ Cardinality(Closed') = n + 1
  BY <1>1, <1>2, OrdersCount, FS_AddElement
<1>4. \A p \in Closed : /\ account'[p] = account[p]
                        /\ when'[p] = when[p]
                        /\ closedNo'[p] = closedNo[p]
  BY <1>1 DEF CloseOrder, TypeOK
<1>5. closedNo'[o] = n + 1
  BY DEF CloseOrder, TypeOK
<1>6. \A p \in Closed : closedNo[p] \in Nat /\ closedNo[p] <= n
  BY <1>1 DEF HistoryOrdered, TypeOK
<1>7. ASSUME NEW p \in Closed'
      PROVE  closedNo'[p] <= Cardinality(Closed')
  BY <1>2, <1>3, <1>4, <1>5, <1>6
<1>8. ASSUME NEW p \in Closed', NEW q \in Closed', closedNo'[p] = closedNo'[q]
      PROVE  p = q
  BY <1>2, <1>3, <1>4, <1>5, <1>6, <1>8 DEF HistoryOrdered
<1> QED
  BY <1>4, <1>7, <1>8 DEF HistoryOrdered

\* Only CloseOrder touches what the exchange lists.
LEMMA ExchangeStays ==
  ASSUME Next, ~\E a \in Accounts, o \in OrderIds, t \in Times :
                  CloseOrder(a, o, t)
  PROVE  UNCHANGED exchange
<1>1. CASE Tick
  BY <1>1 DEF Tick
<1>2. ASSUME NEW s \in Syncs, AskSync(s) \/ SyncStep(s)
      PROVE  UNCHANGED exchange
  BY <1>2 DEF AskSync, BeginSync, RejectSync, UnsupportedSync, SyncStep,
              Proceed, FetchFullPage, FetchLastPage, FindExisting, SaveOrders,
              CommitInsert, Respond, MappingFails, CallFails
<1>3. CASE Restart
  BY <1>3 DEF Restart
<1>4. CASE EditTable
  BY <1>4 DEF EditTable, CreateOrder, DeleteOrder, UpdateOrder
<1> QED
  BY <1>1, <1>2, <1>3, <1>4 DEF Next

\* While an import keeps its request, its window keeps its orders and the newer
\* ones of each.
WindowGrows(s) ==
  \A o \in Window(s) : /\ o \in Window(s)'
                       /\ Cardinality(Newer(s, o)) <= Cardinality(Newer(s, o)')

LEMMA WindowsGrow ==
  ASSUME TypeOK, HistoryOrdered, Next, NEW s \in Syncs,
         req'[s] = req[s]
  PROVE  WindowGrows(s)
<1>1. ASSUME NEW a \in Accounts, NEW o \in OrderIds, NEW t \in Times,
             CloseOrder(a, o, t), NEW p \in Window(s)
      PROVE  p \in Window(s)' /\ Newer(s, p) \subseteq Newer(s, p)'
  <2>1. ASSUME NEW q \in Window(s)
        PROVE  q \in Window(s)' /\ closedNo'[q] = closedNo[q]
    BY <1>1, ClosingPlaces DEF Window, Closed
  <2> QED
    BY <2>1 DEF Newer
<1>2. ASSUME UNCHANGED exchange, NEW p \in Window(s)
      PROVE  p \in Window(s)' /\ Newer(s, p) \subseteq Newer(s, p)'
  BY <1>2 DEF exchange, Newer, Window, Closed
<1>3. ASSUME NEW p \in Window(s)
      PROVE  p \in Window(s)' /\ Newer(s, p) \subseteq Newer(s, p)'
  BY <1>1, <1>2, ExchangeStays
<1>4. ASSUME NEW p \in Window(s)
      PROVE  Newer(s, p)' \in SUBSET OrderIds
  BY DEF Newer, Window, Closed
<1> QED
  BY <1>3, <1>4, OrdersCount, FS_Subset DEF WindowGrows

\* An order leaves the table only by a removal every running import is told of.
RemovalsNoted(s) ==
  pc[s] # "idle" => /\ removed[s] \subseteq removed'[s]
                    /\ StoredIds \subseteq StoredIds' \cup removed'[s]

LEMMA RemovalsAreNoted ==
  ASSUME TypeOK, Next, NEW s \in Syncs
  PROVE  RemovalsNoted(s)
<1>1. ASSUME orders \subseteq orders', removed' = removed
      PROVE  RemovalsNoted(s)
  BY <1>1 DEF RemovalsNoted, StoredIds
<1>2. ASSUME NEW r \in orders, NoteRemoval(r.orderId),
             orders \ {r} \subseteq orders'
      PROVE  RemovalsNoted(s)
  <2>1. StoredIds \subseteq StoredIds' \cup {r.orderId}
    BY <1>2 DEF StoredIds
  <2>2. pc[s] # "idle" => removed'[s] = removed[s] \cup {r.orderId}
    BY <1>2 DEF NoteRemoval, TypeOK
  <2> QED
    BY <2>1, <2>2 DEF RemovalsNoted
<1>3. CASE Tick
  BY <1>1, <1>3 DEF Tick, history
<1>4. ASSUME NEW a \in Accounts, NEW o \in OrderIds, NEW t \in Times,
             CloseOrder(a, o, t)
      PROVE  RemovalsNoted(s)
  BY <1>1, <1>4 DEF CloseOrder, history
<1>5. ASSUME NEW x \in Syncs, AskSync(x)
      PROVE  RemovalsNoted(s)
  BY <1>1, <1>5 DEF AskSync, BeginSync, RejectSync, UnsupportedSync, history
<1>6. ASSUME NEW x \in Syncs, SyncStep(x)
      PROVE  RemovalsNoted(s)
  BY <1>1, <1>6 DEF SyncStep, Proceed, FetchFullPage, FetchLastPage,
                    FindExisting, SaveOrders, CommitInsert, Respond,
                    MappingFails, CallFails, history
<1>7. CASE Restart
  BY <1>1, <1>7 DEF Restart, history
<1>8. ASSUME NEW u \in Users, NEW o \in OrderIds, CreateOrder(u, o)
      PROVE  RemovalsNoted(s)
  BY <1>1, <1>8 DEF CreateOrder
<1>9. ASSUME NEW u \in Users, NEW r \in orders, DeleteOrder(u, r)
      PROVE  RemovalsNoted(s)
  BY <1>2, <1>9 DEF DeleteOrder
<1>10. ASSUME NEW u \in Users, NEW r \in orders, NEW o \in OrderIds,
              NEW t \in Times, UpdateOrder(u, r, o, t)
       PROVE  RemovalsNoted(s)
  <2>1. CASE o = r.orderId
    <3>1. removed' = removed /\ orders' = (orders \ {r}) \cup {Edited(r, o, t)}
      BY <1>10, <2>1 DEF UpdateOrder
    <3>2. Edited(r, o, t).orderId = r.orderId
      BY <2>1 DEF Edited
    <3>3. StoredIds \subseteq StoredIds'
      BY <3>1, <3>2 DEF StoredIds
    <3> QED
      BY <3>1, <3>3 DEF RemovalsNoted
  <2>2. CASE o # r.orderId
    BY <1>2, <1>10, <2>2 DEF UpdateOrder
  <2> QED
    BY <2>1, <2>2
<1> QED
  BY <1>3, <1>4, <1>5, <1>6, <1>7, <1>8, <1>9, <1>10 DEF Next, EditTable

\* The step leaves to the database what it had of the import.
Entrusted(s) ==
  insert'[s] = insert[s] /\ sent'[s] = sent[s] /\ due'[s] = due[s]

\* The step is another import's, the exchange's or a user's.
Left(s) ==
  /\ Entrusted(s)
  /\ pc'[s] = pc[s] /\ req'[s] = req[s] /\ ofs'[s] = ofs[s]
  /\ fetched'[s] = fetched[s] /\ existing'[s] = existing[s]

LEMMA EntrustedHolds ==
  ASSUME TypeOK, NEW s \in Syncs, Delivers(s), Entrusted(s), RemovalsNoted(s)
  PROVE  SentCovers(s)' /\ CommitCovers(s)'
<1>1. insert[s] # "none" => pc[s] # "idle"
  BY DEF TypeOK
<1> QED
  BY <1>1 DEF Delivers, Entrusted, RemovalsNoted, SentCovers, CommitCovers

LEMMA LeftAlone ==
  ASSUME NEW s \in Syncs, Delivers(s), Left(s), WindowGrows(s),
         RemovalsNoted(s), TypeOK
  PROVE  Delivers(s)'
<1>1. PagesCover(s)'
  <2> SUFFICES ASSUME pc[s] = "paging", ofs[s] # 0, NEW o \in due[s]
               PROVE  /\ o \in Window(s)'
                      /\ o \in fetched[s] \/ ofs[s] <= Cardinality(Newer(s, o)')
    BY DEF Left, Entrusted, PagesCover
  <2>1. /\ o \in Window(s)
        /\ o \in fetched[s] \/ ofs[s] <= Cardinality(Newer(s, o))
    BY DEF Delivers, PagesCover
  <2>2. Newer(s, o)' \in SUBSET OrderIds /\ Newer(s, o) \in SUBSET OrderIds
    BY DEF Newer, Window, Closed
  <2>3. /\ Cardinality(Newer(s, o)') \in Nat /\ Cardinality(Newer(s, o)) \in Nat
        /\ ofs[s] \in Nat
    BY <2>2, OrdersCount DEF TypeOK
  <2> QED
    BY <2>1, <2>3 DEF WindowGrows
<1>2. BeginsAtTop(s)' /\ FetchComplete(s)' /\ LookupHolds(s)'
  BY DEF Delivers, Left, Entrusted, BeginsAtTop, FetchComplete, LookupHolds,
         RemovalsNoted
<1>3. SentCovers(s)' /\ CommitCovers(s)'
  BY EntrustedHolds DEF Left
<1> QED
  BY <1>1, <1>2, <1>3 DEF Delivers

-----------------------------------------------------------------------------
(* The steps of an import *)

LEMMA FullPageDelivers ==
  ASSUME TypeOK, HistoryOrdered, NEW s \in Syncs, Delivers(s),
         FetchFullPage(s)
  PROVE  Delivers(s)'
<1>1. /\ pc[s] = "paging" /\ pc' = pc /\ req' = req
      /\ insert[s] = "none" /\ insert' = insert
      /\ fetched'[s] = fetched[s] \cup Page(s)
      /\ ofs'[s] = NextOfs(s)
      /\ due'[s] = IF ofs[s] = 0 THEN Window(s) ELSE due[s]
  BY DEF FetchFullPage, ReadPage, TypeOK, database
<1>2. Window(s)' = Window(s) /\ \A o : Newer(s, o)' = Newer(s, o)
  BY DEF FetchFullPage, exchange, Window, Newer, Closed
<1>3. ASSUME NEW o \in due'[s]
      PROVE  /\ o \in Window(s)'
             /\ \/ o \in fetched'[s]
                \/ ofs'[s] <= Cardinality(Newer(s, o)')
  <2>1. o \in Window(s) /\ (o \in fetched[s] \/ ofs[s] <= Cardinality(Newer(s, o)))
    BY <1>1, <1>3, RankType DEF Delivers, PagesCover, TypeOK
  <2>2. CASE o \in fetched'[s]
    BY <1>2, <2>1, <2>2
  <2>3. CASE o \notin fetched'[s]
    <3>1. o \notin Page(s) /\ ofs[s] <= Cardinality(Newer(s, o))
      BY <1>1, <2>1, <2>3
    <3>2. NextOfs(s) <= Cardinality(Newer(s, o))
      BY <2>1, <3>1, ReadCovers
    <3> QED
      BY <1>1, <1>2, <2>1, <3>2
  <2> QED
    BY <2>2, <2>3
<1>4. PagesCover(s)'
  BY <1>3 DEF PagesCover
<1> QED
  BY <1>1, <1>4 DEF Delivers, BeginsAtTop, FetchComplete, LookupHolds,
                    SentCovers, CommitCovers

LEMMA LastPageDelivers ==
  ASSUME TypeOK, HistoryOrdered, NEW s \in Syncs, Delivers(s),
         FetchLastPage(s)
  PROVE  Delivers(s)'
<1>1. /\ pc[s] = "paging" /\ pc'[s] = "check"
      /\ insert[s] = "none" /\ insert' = insert
      /\ fetched'[s] = fetched[s] \cup Page(s)
      /\ due'[s] = IF ofs[s] = 0 THEN Window(s) ELSE due[s]
      /\ IsLastPage(s)
  BY DEF FetchLastPage, ReadPage, TypeOK, database
<1>2. ASSUME NEW o \in due'[s]
      PROVE  o \in fetched'[s]
  <2>1. o \in Window(s) /\ (o \in fetched[s] \/ ofs[s] <= Cardinality(Newer(s, o)))
    BY <1>1, <1>2, RankType DEF Delivers, PagesCover, TypeOK
  <2> QED
    BY <1>1, <2>1, ReadCovers
<1> QED
  BY <1>1, <1>2 DEF Delivers, BeginsAtTop, PagesCover, FetchComplete,
                    LookupHolds, SentCovers, CommitCovers

LEMMA LookupDelivers ==
  ASSUME TypeOK, NEW s \in Syncs, Delivers(s), FindExisting(s)
  PROVE  Delivers(s)'
<1>1. /\ pc[s] = "check" /\ pc'[s] = "save"
      /\ insert[s] = "none" /\ insert' = insert
      /\ existing'[s] = fetched[s] \cap StoredIds
      /\ fetched' = fetched /\ due' = due /\ orders' = orders
      /\ removed' = removed
  BY DEF FindExisting, TypeOK, database, history
<1>2. StoredIds' = StoredIds
  BY <1>1 DEF StoredIds
<1> QED
  BY <1>1, <1>2 DEF Delivers, BeginsAtTop, PagesCover, FetchComplete,
                    LookupHolds, SentCovers, CommitCovers

\* What is sent is what was fetched but for what the lookup found.
LEMMA SaveDelivers ==
  ASSUME TypeOK, NEW s \in Syncs, Delivers(s), SaveOrders(s)
  PROVE  Delivers(s)'
<1>1. /\ pc[s] = "save" /\ pc'[s] = "insert" /\ insert'[s] = "sent"
      /\ sent'[s] = Fresh(s)
      /\ due' = due /\ removed' = removed /\ orders' = orders
  BY DEF SaveOrders, Release, TypeOK, history
<1>2. due[s] \subseteq fetched[s] /\ existing[s] \subseteq StoredIds \cup removed[s]
  BY <1>1 DEF Delivers, FetchComplete, LookupHolds
<1>3. due[s] \subseteq Fresh(s) \cup StoredIds \cup removed[s]
  BY <1>2 DEF Fresh
<1>4. StoredIds' = StoredIds
  BY <1>1 DEF StoredIds
<1> QED
  BY <1>1, <1>3, <1>4 DEF Delivers, BeginsAtTop, PagesCover, FetchComplete,
                          LookupHolds, SentCovers, CommitCovers

\* What the table holds after an insert.
LEMMA InsertedIds ==
  ASSUME NEW s \in Syncs, CommitInsert(s)
  PROVE  StoredIds' = StoredIds \cup Inserted(s)
<1>1. orders' = orders \cup {NewRow(s, o) : o \in Inserted(s)}
  BY DEF CommitInsert
<1>2. \A o : NewRow(s, o).orderId = o
  BY DEF NewRow
<1> QED
  BY <1>1, <1>2 DEF StoredIds

LEMMA CommitDelivers ==
  ASSUME TypeOK, NEW s \in Syncs, Delivers(s), CommitInsert(s)
  PROVE  /\ Delivers(s)'
         /\ due[s] \subseteq StoredIds \cup Inserted(s) \cup removed[s]
<1>1. /\ insert[s] = "sent" /\ insert'[s] = "committed"
      /\ pc' = pc /\ due' = due /\ removed' = removed
  BY DEF CommitInsert, TypeOK, memory, history
<1>2. pc[s] \notin {"idle", "paging", "check", "save"}
  BY <1>1 DEF TypeOK
<1>3. due[s] \subseteq StoredIds \cup Inserted(s) \cup removed[s]
  BY <1>1 DEF Delivers, SentCovers, Inserted
<1> QED
  BY <1>1, <1>2, <1>3, InsertedIds
  DEF Delivers, BeginsAtTop, PagesCover, FetchComplete, LookupHolds,
      SentCovers, CommitCovers

\* An import that leaves memory is at none of the places Delivers speaks of, and
\* its insert is where it was.
LEMMA EndDelivers ==
  ASSUME TypeOK, NEW s \in Syncs, Delivers(s), Entrusted(s), RemovalsNoted(s),
         pc'[s] \in Ended
  PROVE  Delivers(s)'
  BY EntrustedHolds
  DEF Ended, Delivers, BeginsAtTop, PagesCover, FetchComplete, LookupHolds

\* A step of s keeps what s has to keep.
LEMMA OwnStepDelivers ==
  ASSUME TypeOK, HistoryOrdered, NEW s \in Syncs, Delivers(s), SyncStep(s),
         RemovalsNoted(s)
  PROVE  Delivers(s)'
<1>1. CASE FetchFullPage(s)
  BY <1>1, FullPageDelivers
<1>2. CASE FetchLastPage(s)
  BY <1>2, LastPageDelivers
<1>3. CASE FindExisting(s)
  BY <1>3, LookupDelivers
<1>4. CASE SaveOrders(s)
  BY <1>4, SaveDelivers
<1>5. CASE CommitInsert(s)
  BY <1>5, CommitDelivers
<1>6. CASE Respond(s) \/ MappingFails(s) \/ CallFails(s)
  <2>1. pc'[s] \in Ended /\ Entrusted(s)
    BY <1>6 DEF Respond, MappingFails, CallFails, Release, TypeOK, Ended,
                Entrusted, database, history
  <2> QED
    BY <2>1, EndDelivers
<1> QED
  BY <1>1, <1>2, <1>3, <1>4, <1>5, <1>6 DEF SyncStep, Proceed

LEMMA AskDelivers ==
  ASSUME TypeOK, NEW s \in Syncs, Delivers(s), AskSync(s)
  PROVE  Delivers(s)'
<1>1. /\ pc[s] = "idle" /\ ofs' = ofs /\ insert[s] = "none" /\ insert' = insert
      /\ pc'[s] \in {"paging", "rejected", "failed"}
  BY DEF AskSync, BeginSync, RejectSync, UnsupportedSync, TypeOK, database
<1> QED
  BY <1>1
  DEF Delivers, BeginsAtTop, PagesCover, FetchComplete, LookupHolds,
      SentCovers, CommitCovers

\* A step that is not of s leaves it alone, or is the restart that loses it.
LEMMA OtherSteps ==
  ASSUME TypeOK, Next, NEW s \in Syncs, ~AskSync(s), ~SyncStep(s)
  PROVE  Left(s) \/ (pc'[s] = "lost" /\ Entrusted(s) /\ req'[s] = req[s])
<1>1. CASE Tick
  BY <1>1 DEF Tick, memory, database, history, Left, Entrusted
<1>2. ASSUME NEW a \in Accounts, NEW o \in OrderIds, NEW t \in Times,
             CloseOrder(a, o, t)
      PROVE  Left(s)
  BY <1>2 DEF CloseOrder, memory, database, history, Left, Entrusted
<1>3. ASSUME NEW x \in Syncs, x # s, AskSync(x)
      PROVE  Left(s)
  BY <1>3 DEF AskSync, BeginSync, RejectSync, UnsupportedSync, database, history,
              Left, Entrusted, TypeOK
<1>4. ASSUME NEW x \in Syncs, x # s, SyncStep(x)
      PROVE  Left(s)
  <2>1. CASE FetchFullPage(x) \/ FetchLastPage(x)
    BY <1>4, <2>1 DEF FetchFullPage, FetchLastPage, ReadPage, Left, Entrusted,
                      database, TypeOK
  <2>2. CASE FindExisting(x)
    BY <1>4, <2>2 DEF FindExisting, database, history, Left,
                      Entrusted, TypeOK
  <2>3. CASE Respond(x) \/ MappingFails(x) \/ CallFails(x)
    BY <1>4, <2>3 DEF Respond, MappingFails, CallFails, Release, database,
                      history, Left, Entrusted, TypeOK
  <2>4. CASE SaveOrders(x)
    BY <1>4, <2>4 DEF SaveOrders, Release, history, Left, Entrusted, TypeOK
  <2>5. CASE CommitInsert(x)
    BY <1>4, <2>5 DEF CommitInsert, memory, history, Left, Entrusted, TypeOK
  <2> QED
    BY <1>4, <2>1, <2>2, <2>3, <2>4, <2>5 DEF SyncStep, Proceed
<1>5. CASE Restart
  BY <1>5 DEF Restart, database, history, Left, Entrusted
<1>6. CASE EditTable
  BY <1>6 DEF EditTable, CreateOrder, DeleteOrder, UpdateOrder, memory, database, Left, Entrusted
<1> QED
  BY <1>1, <1>2, <1>3, <1>4, <1>5, <1>6 DEF Next

LEMMA DeliversStays ==
  ASSUME TypeOK, HistoryOrdered, Next, NEW s \in Syncs, Delivers(s)
  PROVE  Delivers(s)'
<1>1. CASE SyncStep(s)
  BY <1>1, OwnStepDelivers, RemovalsAreNoted
<1>2. CASE AskSync(s)
  BY <1>2, AskDelivers
<1>3. CASE Left(s)
  <2>1. WindowGrows(s)
    BY <1>3, WindowsGrow DEF Left
  <2> QED
    BY <1>3, <2>1, RemovalsAreNoted, LeftAlone
<1>4. CASE pc'[s] = "lost" /\ Entrusted(s)
  BY <1>4, EndDelivers, RemovalsAreNoted DEF Ended
<1> QED
  BY <1>1, <1>2, <1>3, <1>4, OtherSteps

-----------------------------------------------------------------------------
(* The theorems *)

LEMMA DeliveryStays ==
  ASSUME TypeOK, DeliveryInv, [Next]_vars
  PROVE  DeliveryInv'
<1>1. HistoryOrdered /\ \A s \in Syncs : Delivers(s)
  BY DEF DeliveryInv
<1>2. CASE UNCHANGED vars
  <2>1. ASSUME NEW s \in Syncs
        PROVE  /\ Left(s) /\ RemovalsNoted(s)
               /\ Window(s)' = Window(s) /\ \A o : Newer(s, o)' = Newer(s, o)
    BY <1>2 DEF vars, exchange, memory, database, history, Left, Entrusted, RemovalsNoted,
                StoredIds, Window, Newer, Closed
  <2>2. ASSUME NEW s \in Syncs
        PROVE  WindowGrows(s)
    BY <2>1, RankType DEF WindowGrows
  <2>3. \A s \in Syncs : Delivers(s)'
    BY <1>1, <2>1, <2>2, LeftAlone
  <2>4. HistoryOrdered'
    BY <1>1, <1>2 DEF vars, exchange, HistoryOrdered, Closed
  <2> QED
    BY <2>3, <2>4 DEF DeliveryInv
<1>3. CASE Next
  <2>1. HistoryOrdered'
    <3>1. CASE UNCHANGED exchange
      BY <1>1, <3>1 DEF exchange, HistoryOrdered, Closed
    <3> QED
      BY <1>1, <1>3, <3>1, ClosingPlaces, ExchangeStays
  <2>2. \A s \in Syncs : Delivers(s)'
    BY <1>1, <1>3, DeliversStays
  <2> QED
    BY <2>1, <2>2 DEF DeliveryInv
<1> QED
  BY <1>2, <1>3

\* The places of an account's orders and the progress of every import stay in
\* step: what is due has been fetched or is still ahead of the offset.
THEOREM DeliveryCorrect == Spec => []DeliveryInv
<1>1. Init => DeliveryInv
  <2> SUFFICES ASSUME Init
               PROVE  DeliveryInv
    OBVIOUS
  <2>1. Closed = {}
    BY DEF Init, Closed
  <2> QED
    BY <2>1
    DEF Init, DeliveryInv, HistoryOrdered, Delivers, BeginsAtTop, PagesCover,
        FetchComplete, LookupHolds, SentCovers, CommitCovers
<1>2. TypeOK /\ DeliveryInv /\ [Next]_vars => DeliveryInv'
  BY DeliveryStays
<1> QED
  BY <1>1, <1>2, TypeCorrect, PTL DEF Spec

\* An import that succeeds accounts for every order of its window, whatever
\* closes while its pages are read and whatever else writes the table.
THEOREM NothingIsLost == Spec => []NothingLost
<1>1. TypeOK /\ DeliveryInv => NothingLost
  BY DEF TypeOK, DeliveryInv, Delivers, CommitCovers, NothingLost
<1> QED
  BY <1>1, TypeCorrect, DeliveryCorrect, PTL

-----------------------------------------------------------------------------
(* Ownership and all or nothing: a running import, and an insert it left     *)
(* with the database, work for the owner of the key                          *)

ImportsWorkForOwners ==
  \A s \in Syncs : pc[s] \in InFlight \/ insert[s] # "none" =>
    /\ req[s] \in Request
    /\ KeyOwner[req[s].key] = req[s].user

\* What a row says of the import that saved it.
RowKnown(r) ==
  /\ r.key # NoKey => r.createdBy \in Syncs
  /\ r.createdBy \in Syncs =>
       /\ insert[r.createdBy] = "committed"
       /\ req[r.createdBy].user = r.userId
       /\ req[r.createdBy].key = r.key
RowsKnown == \A r \in orders : RowKnown(r)

OwnersInv == TypeOK /\ ImportsWorkForOwners /\ RowsKnown

\* An insert that was carried out stays so, and its import keeps its request.
LEMMA CommittedStays ==
  ASSUME TypeOK, Next, NEW s \in Syncs, insert[s] = "committed"
  PROVE  insert'[s] = "committed" /\ req'[s] = req[s]
<1>1. CASE \/ Tick \/ EditTable \/ Restart
           \/ \E a \in Accounts, o \in OrderIds, t \in Times : CloseOrder(a, o, t)
  BY <1>1 DEF Tick, CloseOrder, EditTable, CreateOrder, DeleteOrder,
              UpdateOrder, Restart, memory, database
<1>2. ASSUME NEW x \in Syncs, AskSync(x)
      PROVE  insert'[s] = "committed" /\ req'[s] = req[s]
  BY <1>2 DEF AskSync, BeginSync, RejectSync, UnsupportedSync, TypeOK, database
<1>3. ASSUME NEW x \in Syncs, SyncStep(x)
      PROVE  insert'[s] = "committed" /\ req'[s] = req[s]
  <2>1. req' = req
    BY <1>3 DEF SyncStep, Proceed, FetchFullPage, FetchLastPage, FindExisting,
                SaveOrders, CommitInsert, Respond, MappingFails, CallFails, memory
  <2>2. CASE SaveOrders(x)
    BY <2>1, <2>2 DEF SaveOrders, TypeOK
  <2>3. CASE CommitInsert(x)
    BY <2>1, <2>3 DEF CommitInsert, TypeOK
  <2>4. CASE ~SaveOrders(x) /\ ~CommitInsert(x)
    BY <1>3, <2>1, <2>4 DEF SyncStep, Proceed, FetchFullPage, FetchLastPage,
       FindExisting, Respond, MappingFails, CallFails, database
  <2> QED
    BY <2>2, <2>3, <2>4
<1> QED
  BY <1>1, <1>2, <1>3 DEF Next

\* The request of an import is checked by the guard and never rewritten.
LEMMA OwnersStay ==
  ASSUME TypeOK, ImportsWorkForOwners, Next
  PROVE  ImportsWorkForOwners'
<1>1. CASE \/ Tick \/ EditTable
           \/ \E a \in Accounts, o \in OrderIds, t \in Times : CloseOrder(a, o, t)
  BY <1>1 DEF Tick, CloseOrder, EditTable, CreateOrder, DeleteOrder,
              UpdateOrder, memory, database, ImportsWorkForOwners
<1>2. ASSUME NEW s \in Syncs, AskSync(s)
      PROVE  ImportsWorkForOwners'
  <2> PICK u \in Users, k \in Keys :
         \/ \E mode \in Modes : BeginSync(s, u, k, mode)
         \/ \E mode \in Modes \cup {"OTHER"} : RejectSync(s, u, k, mode)
         \/ UnsupportedSync(s, u, k)
    BY <1>2 DEF AskSync
  <2>1. ASSUME NEW mode \in Modes, BeginSync(s, u, k, mode)
        PROVE  ImportsWorkForOwners'
    <3>1. PICK w \in SyncDateRange(u, k, mode) :
            req' = [req EXCEPT ![s] = [user |-> u, key |-> k,
                                       from |-> w.from, to |-> w.to]]
      BY <2>1 DEF BeginSync
    <3>2. [user |-> u, key |-> k, from |-> w.from, to |-> w.to] \in Request
      BY <2>1, RangeType DEF BeginSync, Request
    <3>3. /\ \A x \in Syncs \ {s} : req'[x] = req[x] /\ pc'[x] = pc[x]
          /\ insert' = insert
      BY <2>1, <3>1 DEF BeginSync, TypeOK, database
    <3>4. req'[s] \in Request /\ KeyOwner[req'[s].key] = req'[s].user
      BY <2>1, <3>1, <3>2 DEF BeginSync, OwnsKey, TypeOK
    <3> QED
      BY <3>3, <3>4 DEF ImportsWorkForOwners
  <2>2. ASSUME RejectSync(s, u, k, "OTHER") \/ UnsupportedSync(s, u, k)
               \/ \E mode \in Modes : RejectSync(s, u, k, mode)
        PROVE  ImportsWorkForOwners'
    BY <2>2 DEF RejectSync, UnsupportedSync, ImportsWorkForOwners, TypeOK,
                InFlight, database
  <2> QED
    BY <2>1, <2>2
<1>3. ASSUME NEW s \in Syncs, SyncStep(s)
      PROVE  ImportsWorkForOwners'
  <2>1. req' = req
    BY <1>3 DEF SyncStep, Proceed, FetchFullPage, FetchLastPage, FindExisting,
                SaveOrders, CommitInsert, Respond, MappingFails, CallFails, memory
  <2>2. /\ pc[s] \in InFlight \/ insert[s] # "none"
        /\ \A x \in Syncs \ {s} : pc'[x] = pc[x] /\ insert'[x] = insert[x]
    <3>1. CASE SaveOrders(s)
      BY <3>1 DEF SaveOrders, Release, InFlight, TypeOK
    <3>2. CASE CommitInsert(s)
      BY <3>2 DEF CommitInsert, memory, TypeOK
    <3>3. CASE ~SaveOrders(s) /\ ~CommitInsert(s)
      BY <1>3, <3>3 DEF SyncStep, Proceed, FetchFullPage, FetchLastPage, ReadPage,
         FindExisting, Respond, MappingFails, CallFails, Release, InFlight,
         TypeOK, database
    <3> QED
      BY <3>1, <3>2, <3>3
  <2> QED
    BY <2>1, <2>2 DEF ImportsWorkForOwners
<1>4. CASE Restart
  BY <1>4 DEF Restart, ImportsWorkForOwners, InFlight, database
<1> QED
  BY <1>1, <1>2, <1>3, <1>4 DEF Next

LEMMA RowsStay ==
  ASSUME OwnersInv, Next
  PROVE  RowsKnown'
<1>1. ASSUME NEW r, RowKnown(r)
      PROVE  RowKnown(r)'
  BY <1>1, CommittedStays DEF OwnersInv, RowKnown
<1>2. ASSUME NEW r \in orders'
      PROVE  RowKnown(r)'
  <2>1. CASE r \in orders
    BY <1>1, <2>1 DEF OwnersInv, RowsKnown
  <2>2. ASSUME NEW s \in Syncs, CommitInsert(s), r \notin orders
        PROVE  RowKnown(r)'
    <3>1. PICK o \in Inserted(s) : r = NewRow(s, o)
      BY <1>2, <2>2 DEF CommitInsert
    <3>2. insert'[s] = "committed" /\ req' = req
      BY <2>2 DEF CommitInsert, OwnersInv, TypeOK, memory
    <3>3. r.createdBy = s /\ r.userId = req[s].user /\ r.key = req[s].key
      BY <3>1 DEF NewRow
    <3> QED
      BY <3>2, <3>3 DEF RowKnown
  <2>3. ASSUME NEW u \in Users, NEW o \in OrderIds, CreateOrder(u, o),
               r \notin orders
        PROVE  RowKnown(r)'
    <3>1. r.createdBy = "USER" /\ r.key = NoKey
      BY <1>2, <2>3 DEF CreateOrder
    <3> QED
      BY <3>1, OrdersAssumption DEF RowKnown
  <2>4. ASSUME NEW u \in Users, NEW x \in orders, NEW o \in OrderIds,
               NEW t \in Times, UpdateOrder(u, x, o, t), r \notin orders
        PROVE  RowKnown(r)'
    <3>1. r = Edited(x, o, t)
      BY <1>2, <2>4 DEF UpdateOrder
    <3>2. r.createdBy = x.createdBy /\ r.userId = x.userId /\ r.key = x.key
      BY <3>1 DEF Edited
    <3>3. RowKnown(r)
      BY <3>2 DEF RowKnown, RowsKnown, OwnersInv
    <3> QED
      BY <1>1, <3>3
  <2>5. ASSUME NEW u \in Users, NEW x \in orders, DeleteOrder(u, x),
               r \notin orders
        PROVE  RowKnown(r)'
    BY <1>2, <2>5 DEF DeleteOrder
  <2>6. ASSUME NEW s \in Syncs, SyncStep(s), ~CommitInsert(s), r \notin orders
        PROVE  RowKnown(r)'
    BY <1>2, <2>6, OthersInsertNothing
  <2>7. CASE r \notin orders /\ EditTable
    BY <2>7, <2>3, <2>4, <2>5 DEF EditTable
  <2>8. CASE r \notin orders /\ \E s \in Syncs : SyncStep(s)
    BY <2>8, <2>2, <2>6
  <2>9. CASE ~EditTable /\ \A s \in Syncs : ~SyncStep(s)
    BY <1>2, <2>9, <2>1, OthersKeepTable
  <2> QED
    BY <2>1, <2>7, <2>8, <2>9
<1> QED
  BY <1>2 DEF RowsKnown

\* A row saved by an import belongs to the owner of the key it was saved with,
\* and the import saved all its window held or nothing, also one that failed or
\* was lost with its createMany under way.
THEOREM RowsFollowImports == Spec => []RowsFollowTheirImport
<1>1. Init => OwnersInv
  BY InitType DEF Init, OwnersInv, ImportsWorkForOwners, RowsKnown, InFlight
<1>2. OwnersInv /\ [Next]_vars => OwnersInv'
  <2>1. CASE UNCHANGED vars
    BY <2>1, StutterType DEF vars, memory, database, OwnersInv,
                             ImportsWorkForOwners, RowsKnown, RowKnown
  <2>2. ASSUME OwnersInv, Next
        PROVE  OwnersInv'
    BY <2>2, OwnersStay, RowsStay, ExchangeType, AskType, StepType, RestartType,
       EditType DEF OwnersInv, Next
  <2> QED
    BY <2>1, <2>2
<1>3. OwnersInv /\ DeliveryInv => RowsFollowTheirImport
  <2> SUFFICES ASSUME OwnersInv, DeliveryInv, NEW r \in orders,
                      r.createdBy \in Syncs
               PROVE  /\ pc[r.createdBy] \in {"insert", "done", "failed", "lost"}
                      /\ req[r.createdBy].user = r.userId
                      /\ req[r.createdBy].key = r.key
                      /\ KeyOwner[r.key] = r.userId
                      /\ due[r.createdBy] \subseteq
                           StoredIds \cup removed[r.createdBy]
    BY DEF OwnersInv, RowsKnown, RowKnown, RowsFollowTheirImport
  <2> DEFINE s == r.createdBy
  <2>1. /\ insert[s] = "committed"
        /\ req[s].user = r.userId /\ req[s].key = r.key
    BY DEF OwnersInv, RowsKnown, RowKnown
  <2>2. pc[s] \in {"insert", "done", "failed", "lost"}
    BY <2>1 DEF OwnersInv, TypeOK, InFlight, Ended
  <2>3. due[s] \subseteq StoredIds \cup removed[s]
    BY <2>1 DEF DeliveryInv, Delivers, CommitCovers
  <2> QED
    BY <2>1, <2>2, <2>3 DEF OwnersInv, ImportsWorkForOwners
<1> QED
  BY <1>1, <1>2, <1>3, DeliveryCorrect, PTL DEF Spec

-----------------------------------------------------------------------------
(* OrderSync implements OrderImport: the initial states map to initial     *)
(* states, and every step of an import, of a user or of the exchange maps  *)
(* to a step of the promise or to a stutter                                *)

\* What the mapping of a step needs: what an import has in hand or has left with
\* the database covers what it owes, and no orderId is in the table twice, so that deleting its row removes
\* it.
MappingInv == TypeOK /\ DeliveryInv /\ OrderIdsUnique

\* The abstract variables do not change.
Stutters == UNCHANGED Promise!vars

\* The phase of each import and what it owes are kept.
ImportsKept ==
  \A s \in Syncs : Phase(s)' = Phase(s) /\ due'[s] = due[s]

LEMMA KeptStutters ==
  ASSUME ImportsKept, StoredIds' = StoredIds, removed' = removed
  PROVE  Stutters
  BY DEF ImportsKept, Stutters, Promise!vars

\* The phase of an import depends on its place, its offset and its insert only.
LEMMA PhaseKept ==
  ASSUME NEW s \in Syncs, pc'[s] = pc[s], ofs'[s] = ofs[s],
         insert'[s] = insert[s]
  PROVE  Phase(s)' = Phase(s)
  BY DEF Phase

-----------------------------------------------------------------------------
(* Steps of the exchange and of users *)

LEMMA ExchangeMaps ==
  ASSUME \/ Tick
         \/ \E a \in Accounts, o \in OrderIds, t \in Times : CloseOrder(a, o, t)
  PROVE  Stutters
<1>1. UNCHANGED <<orders, memory, database, history>>
  BY DEF Tick, CloseOrder
<1>2. ImportsKept
  BY <1>1, PhaseKept DEF ImportsKept, memory, database, history
<1> QED
  BY <1>1, <1>2, KeptStutters DEF StoredIds, history

\* The imports that have been asked for.
Asked == {s \in Syncs : pc[s] # "idle"}

LEMMA RemovalMaps ==
  ASSUME MappingInv, UNCHANGED <<memory, database, due>>,
         NEW r \in orders, NoteRemoval(r.orderId),
         NEW new \in SUBSET OrderIds,
         StoredIds' = (StoredIds \ {r.orderId}) \cup new
  PROVE  Promise!Remove(r.orderId, new, Asked)
<1>1. ImportsKept
  BY PhaseKept DEF ImportsKept, memory, database
<1>2. removed' = [s \in Syncs |-> IF s \in Asked
                                  THEN removed[s] \cup {r.orderId}
                                  ELSE removed[s]]
  BY DEF NoteRemoval, Asked
<1>3. \A s \in Syncs : Phase(s) # "waiting" => s \in Asked
  BY DEF Phase, Asked
<1>4. UNCHANGED <<[s \in Syncs |-> Phase(s)], [s \in Syncs |-> due[s]]>>
  BY <1>1 DEF ImportsKept
<1> QED
  BY <1>2, <1>3, <1>4 DEF Promise!Remove

LEMMA EditMaps ==
  ASSUME MappingInv, EditTable
  PROVE  Promise!Next \/ Stutters
<1>0. \A x \in orders : x.orderId \in StoredIds /\ x.orderId \in OrderIds
  BY DEF StoredIds, MappingInv, TypeOK, Row
<1>1. ASSUME NEW u \in Users, NEW o \in OrderIds, CreateOrder(u, o)
      PROVE  Promise!Next
  <2>1. StoredIds' = StoredIds \cup {o}
    <3> DEFINE row == [orderId |-> o, createdBy |-> "USER", userId |-> u,
                       key |-> NoKey, datetime |-> now]
    <3>1. orders' = orders \cup {row} /\ row.orderId = o
      BY <1>1 DEF CreateOrder
    <3> HIDE DEF row
    <3> QED
      BY <3>1 DEF StoredIds
  <2>2. UNCHANGED <<memory, database, due, removed>>
    BY <1>1 DEF CreateOrder
  <2>3. ImportsKept
    BY <2>2, PhaseKept DEF ImportsKept, memory, database
  <2>4. UNCHANGED <<[s \in Syncs |-> Phase(s)], [s \in Syncs |-> due[s]]>>
    BY <2>3 DEF ImportsKept
  <2>5. Promise!Add(o)
    BY <2>1, <2>2, <2>4 DEF Promise!Add
  <2> QED
    BY <2>5 DEF Promise!Next
<1>2. ASSUME NEW u \in Users, NEW r \in orders, DeleteOrder(u, r)
      PROVE  Promise!Next
  <2>1. StoredIds' = (StoredIds \ {r.orderId}) \cup {}
    BY <1>2 DEF DeleteOrder, StoredIds, MappingInv, OrderIdsUnique
  <2>2. NoteRemoval(r.orderId) /\ UNCHANGED <<memory, database, due>>
    BY <1>2 DEF DeleteOrder
  <2>3. Promise!Remove(r.orderId, {}, Asked)
    BY <2>1, <2>2, RemovalMaps
  <2>4. r.orderId \in OrderIds /\ Asked \in SUBSET Syncs
    BY <1>0 DEF Asked
  <2> QED
    BY <2>3, <2>4 DEF Promise!Next
<1>3. ASSUME NEW u \in Users, NEW r \in orders, NEW o \in OrderIds,
             NEW t \in Times, UpdateOrder(u, r, o, t)
      PROVE  Promise!Next \/ Stutters
  <2>1. orders' = (orders \ {r}) \cup {Edited(r, o, t)}
    BY <1>3 DEF UpdateOrder
  <2>2. Edited(r, o, t).orderId = o
    BY DEF Edited
  <2>3. StoredIds' = (StoredIds \ {r.orderId}) \cup {o}
    BY <2>1, <2>2 DEF StoredIds, MappingInv, OrderIdsUnique
  <2>4. UNCHANGED <<memory, database, due>>
    BY <1>3 DEF UpdateOrder
  <2>5. CASE o = r.orderId
    <3>1. StoredIds' = StoredIds /\ removed' = removed
      BY <1>0, <1>3, <2>3, <2>5 DEF UpdateOrder
    <3>2. ImportsKept
      BY <2>4, PhaseKept DEF ImportsKept, memory, database
    <3> QED
      BY <3>1, <3>2, KeptStutters
  <2>6. CASE o # r.orderId
    <3>1. NoteRemoval(r.orderId)
      BY <1>3, <2>6 DEF UpdateOrder
    <3>2. Promise!Remove(r.orderId, {o}, Asked)
      BY <2>3, <2>4, <3>1, RemovalMaps
    <3>3. r.orderId \in OrderIds /\ Asked \in SUBSET Syncs
      BY <1>0 DEF Asked
    <3> QED
      BY <3>2, <3>3 DEF Promise!Next
  <2> QED
    BY <2>5, <2>6
<1> QED
  BY <1>1, <1>2, <1>3 DEF EditTable

-----------------------------------------------------------------------------
(* Steps of imports *)

\* The step leaves the others' places, offsets and inserts alone.
OthersWait(s) ==
  \A x \in Syncs \ {s} :
    pc'[x] = pc[x] /\ ofs'[x] = ofs[x] /\ insert'[x] = insert[x]

\* The imports of S are given up, in the process: those whose insert has been
\* sent are in doubt, those whose insert is carried out keep it.
LEMMA AbandonMaps ==
  ASSUME MappingInv, NEW S \in SUBSET Syncs,
         \A s \in S : /\ pc[s] \in InFlight \cup {"idle"}
                      /\ pc'[s] \in {"failed", "lost"},
         \A s \in Syncs \ S : pc'[s] = pc[s] /\ ofs'[s] = ofs[s],
         UNCHANGED <<orders, insert, due, removed>>
  PROVE  Promise!Next
<1> DEFINE D == {s \in S : insert[s] = "sent"}
<1>1. StoredIds' = StoredIds
  BY DEF StoredIds
<1>2. \A s \in Syncs \ S : Phase(s)' = Phase(s)
  BY PhaseKept
<1>3. ASSUME NEW s \in S
      PROVE  /\ s \in D => Phase(s) = "owing" /\ Phase(s)' = "doubtful"
             /\ Phase(s) \in {"waiting", "owing", "stored"}
             /\ Phase(s)' = IF Phase(s) = "stored" THEN "kept"
                            ELSE IF s \in D THEN "doubtful" ELSE "abandoned"
  <2>0. insert[s] \in {"none", "sent", "committed"} /\ insert'[s] = insert[s]
    BY <1>3 DEF MappingInv, TypeOK
  <2>1. CASE insert[s] = "none"
    <3>1. pc[s] \in {"idle", "paging", "check", "save"}
      BY <1>3, <2>1 DEF MappingInv, TypeOK, InFlight
    <3> QED
      BY <1>3, <2>0, <2>1, <3>1 DEF Phase
  <2>2. CASE insert[s] # "none"
    <3>1. pc[s] = "insert"
      BY <1>3, <2>2 DEF MappingInv, TypeOK, InFlight
    <3> QED
      BY <1>3, <2>0, <2>2, <3>1 DEF Phase
  <2> QED
    BY <2>1, <2>2
<1>4. Promise!Abandon(S, D)
  BY <1>1, <1>2, <1>3 DEF Promise!Abandon
<1>5. D \in SUBSET Syncs
  OBVIOUS
<1> QED
  BY <1>4, <1>5 DEF Promise!Next

LEMMA FailureMaps ==
  ASSUME MappingInv, NEW s \in Syncs, pc[s] \in InFlight \cup {"idle"},
         pc'[s] = "failed", OthersWait(s), UNCHANGED <<orders, insert, due, removed>>
  PROVE  Promise!Next
<1>1. {s} \in SUBSET Syncs
  OBVIOUS
<1> QED
  BY <1>1, AbandonMaps DEF OthersWait

LEMMA AskMaps ==
  ASSUME MappingInv, NEW s \in Syncs, AskSync(s)
  PROVE  Promise!Next \/ Stutters
<1>1. /\ pc[s] = "idle" /\ ofs[s] = 0 /\ UNCHANGED <<orders, ofs, insert, due, removed>>
      /\ pc'[s] \in {"paging", "rejected", "failed"}
      /\ OthersWait(s)
  BY DEF AskSync, BeginSync, RejectSync, UnsupportedSync, MappingInv, TypeOK,
         DeliveryInv, Delivers, BeginsAtTop, OthersWait, history, database
<1>2. CASE pc'[s] = "failed"
  BY <1>1, <1>2, FailureMaps
<1>3. CASE pc'[s] \in {"paging", "rejected"}
  <2>1. Phase(s)' = Phase(s)
    BY <1>1, <1>3 DEF Phase
  <2>2. ImportsKept
    BY <1>1, <2>1, PhaseKept DEF ImportsKept, OthersWait
  <2> QED
    BY <1>1, <2>2, KeptStutters DEF StoredIds
<1> QED
  BY <1>1, <1>2, <1>3

\* The first page is the look at what is owed, a later one changes nothing.
LEMMA ReadMaps ==
  ASSUME MappingInv, NEW s \in Syncs, ReadPage(s), Phase(s)' = "owing",
         OthersWait(s), UNCHANGED <<orders, removed>>
  PROVE  Promise!Next \/ Stutters
<1>1. pc[s] = "paging"
  BY DEF ReadPage
<1>2. StoredIds' = StoredIds
  BY DEF StoredIds
<1>3. \A x \in Syncs \ {s} : Phase(x)' = Phase(x)
  BY PhaseKept DEF OthersWait
<1>4. CASE ofs[s] = 0
  <2>1. Phase(s) = "waiting"
    BY <1>1, <1>4 DEF Phase
  <2>2. PICK W \in SUBSET OrderIds : W = Window(s)
    BY PageType
  <2>3. [x \in Syncs |-> Phase(x)]'
          = [[x \in Syncs |-> Phase(x)] EXCEPT ![s] = "owing"]
    BY <1>3
  <2>4. [x \in Syncs |-> due[x]]'
          = [[x \in Syncs |-> due[x]] EXCEPT ![s] = W]
    BY <1>4, <2>2 DEF ReadPage, MappingInv, TypeOK
  <2>5. Promise!Look(s, W)
    BY <1>2, <2>1, <2>3, <2>4 DEF Promise!Look
  <2> QED
    BY <2>5 DEF Promise!Next
<1>5. CASE ofs[s] # 0
  <2>1. Phase(s) = "owing"
    BY <1>1, <1>5 DEF Phase
  <2>2. due' = due
    BY <1>5 DEF ReadPage
  <2>3. ImportsKept
    BY <1>3, <2>1, <2>2 DEF ImportsKept
  <2> QED
    BY <1>2, <2>3, KeptStutters
<1> QED
  BY <1>4, <1>5

\* The insert is what adds the orders, whether or not anyone waits for it.
LEMMA CommitMaps ==
  ASSUME MappingInv, NEW s \in Syncs, CommitInsert(s)
  PROVE  Promise!Next
<1>1. /\ insert[s] = "sent" /\ insert'[s] = "committed"
      /\ OthersWait(s) /\ UNCHANGED <<pc, due, removed>>
  BY DEF CommitInsert, OthersWait, memory, history, MappingInv, TypeOK
<1>2. pc[s] \in {"insert", "failed", "lost"}
  BY <1>1 DEF MappingInv, TypeOK, InFlight, Ended
<1>3. /\ Phase(s) \in {"owing", "doubtful"}
      /\ Phase(s)' = IF Phase(s) = "owing" THEN "stored" ELSE "kept"
  BY <1>1, <1>2 DEF Phase
<1>4. \A x \in Syncs \ {s} : Phase(x)' = Phase(x)
  BY <1>1, PhaseKept DEF OthersWait
<1>5. due[s] \subseteq StoredIds \cup Inserted(s) \cup removed[s]
  BY CommitDelivers DEF MappingInv, DeliveryInv
<1>6. StoredIds' = StoredIds \cup Inserted(s)
  BY InsertedIds
<1>7. Inserted(s) \in SUBSET OrderIds
  BY DEF Inserted, MappingInv, TypeOK
<1>8. Promise!Import(s, Inserted(s))
  BY <1>1, <1>3, <1>4, <1>5, <1>6 DEF Promise!Import
<1> QED
  BY <1>7, <1>8 DEF Promise!Next

LEMMA RespondMaps ==
  ASSUME MappingInv, NEW s \in Syncs, Respond(s)
  PROVE  Promise!Next
<1>1. /\ pc[s] = "insert" /\ insert[s] = "committed" /\ pc'[s] = "done"
      /\ OthersWait(s) /\ UNCHANGED <<orders, due, removed>>
  BY DEF Respond, Release, OthersWait, database, history, MappingInv, TypeOK
<1>2. Phase(s) = "stored" /\ Phase(s)' = "imported"
  BY <1>1 DEF Phase
<1>3. \A x \in Syncs \ {s} : Phase(x)' = Phase(x)
  BY <1>1, PhaseKept DEF OthersWait
<1>4. StoredIds' = StoredIds
  BY <1>1 DEF StoredIds
<1>5. Promise!Report(s)
  BY <1>1, <1>2, <1>3, <1>4 DEF Promise!Report
<1> QED
  BY <1>5 DEF Promise!Next

LEMMA StepMaps ==
  ASSUME MappingInv, NEW s \in Syncs, SyncStep(s)
  PROVE  Promise!Next \/ Stutters
<1>1. CASE FetchFullPage(s)
  <2>1. /\ ReadPage(s) /\ OthersWait(s) /\ UNCHANGED <<orders, removed>>
        /\ pc'[s] = "paging" /\ ofs'[s] = NextOfs(s)
    BY <1>1 DEF FetchFullPage, ReadPage, OthersWait, database, MappingInv, TypeOK
  <2>2. NextOfs(s) # 0
    BY <1>1, PageType, PageSizeAssumption
    DEF FetchFullPage, IsLastPage, NextOfs, MappingInv, TypeOK
  <2>3. Phase(s)' = "owing"
    BY <2>1, <2>2 DEF Phase
  <2> QED
    BY <2>1, <2>3, ReadMaps
<1>2. CASE FetchLastPage(s)
  <2>1. /\ ReadPage(s) /\ OthersWait(s) /\ UNCHANGED <<orders, removed>>
        /\ pc'[s] = "check"
    BY <1>2 DEF FetchLastPage, ReadPage, OthersWait, database, MappingInv, TypeOK
  <2>2. Phase(s)' = "owing"
    BY <2>1 DEF Phase
  <2> QED
    BY <2>1, <2>2, ReadMaps
<1>3. CASE FindExisting(s) \/ SaveOrders(s)
  <2>1. /\ \/ pc[s] = "check" /\ pc'[s] = "save"
           \/ pc[s] = "save" /\ pc'[s] = "insert" /\ insert'[s] = "sent"
        /\ OthersWait(s) /\ UNCHANGED <<orders, due, removed>>
    BY <1>3 DEF FindExisting, SaveOrders, Release, OthersWait, database, history,
                MappingInv, TypeOK
  <2>2. Phase(s) = "owing" /\ Phase(s)' = "owing"
    BY <2>1 DEF Phase
  <2>3. ImportsKept
    BY <2>1, <2>2, PhaseKept DEF ImportsKept, OthersWait
  <2> QED
    BY <2>1, <2>3, KeptStutters DEF StoredIds
<1>4. CASE CommitInsert(s)
  BY <1>4, CommitMaps
<1>5. CASE Respond(s)
  BY <1>5, RespondMaps
<1>6. CASE MappingFails(s) \/ CallFails(s)
  <2>1. /\ pc[s] \in InFlight /\ pc'[s] = "failed" /\ OthersWait(s)
        /\ UNCHANGED <<orders, insert, due, removed>>
    BY <1>6 DEF MappingFails, CallFails, Release, InFlight, OthersWait,
                database, history, MappingInv, TypeOK
  <2> QED
    BY <2>1, FailureMaps
<1> QED
  BY <1>1, <1>2, <1>3, <1>4, <1>5, <1>6 DEF SyncStep, Proceed

LEMMA RestartMaps ==
  ASSUME MappingInv, Restart
  PROVE  Promise!Next
<1> DEFINE S == {s \in Syncs : pc[s] \in InFlight}
<1>1. \A s \in S : pc[s] \in InFlight /\ pc'[s] = "lost"
  BY DEF Restart
<1>2. \A s \in Syncs \ S : pc'[s] = pc[s] /\ ofs'[s] = ofs[s]
  BY DEF Restart
<1>3. UNCHANGED <<orders, insert, due, removed>>
  BY DEF Restart, database, history
<1>4. S \in SUBSET Syncs
  OBVIOUS
<1> HIDE DEF S
<1> QED
  BY <1>1, <1>2, <1>3, <1>4, AbandonMaps

-----------------------------------------------------------------------------
(* The theorem *)

LEMMA InitMaps == Init => Promise!Init
<1> SUFFICES ASSUME Init
             PROVE  Promise!Init
  OBVIOUS
<1>1. StoredIds = {}
  BY DEF Init, StoredIds
<1>2. \A s \in Syncs : Phase(s) = "waiting" /\ due[s] = {}
  BY DEF Init, Phase
<1> QED
  BY <1>1, <1>2 DEF Init, Promise!Init

LEMMA NextMaps ==
  ASSUME MappingInv, [Next]_vars
  PROVE  [Promise!Next]_Promise!vars
<1>1. CASE UNCHANGED vars
  <2>1. ImportsKept /\ StoredIds' = StoredIds /\ removed' = removed
    BY <1>1, PhaseKept DEF vars, memory, database, history, ImportsKept, StoredIds
  <2> QED
    BY <2>1, KeptStutters DEF Stutters
<1>2. CASE Next
  <2>1. Promise!Next \/ Stutters
    BY <1>2, ExchangeMaps, EditMaps, AskMaps, StepMaps, RestartMaps DEF Next
  <2> QED
    BY <2>1 DEF Stutters
<1> QED
  BY <1>1, <1>2

\* Every behaviour of the import is one OrderImport allows: an import looks once
\* at what it owes and adds its orders in one step, by which everything it owes
\* is accounted for, before it reports; one that fails or is lost first has
\* changed nothing, or leaves to the database that one step or nothing.
THEOREM ImportsImplementPromise == Spec => Implements
<1>1. MappingInv /\ [Next]_vars => [Promise!Next]_Promise!vars
  BY NextMaps
<1>2. Spec => []MappingInv
  BY TypeCorrect, DeliveryCorrect, IdsUnique, PTL DEF MappingInv
<1>3. Init => Promise!Init
  BY InitMaps
<1> QED
  BY <1>1, <1>2, <1>3, PTL DEF Spec, Implements, Promise!Spec

-----------------------------------------------------------------------------
(* The stored history of a key has no gaps, where no range is imported, no *)
(* row edited and no order closes late                                     *)

\* The instances NoGaps is about.
OnlyContinues == ~LateFills /\ "RANGE" \notin Modes /\ EditBound = 0

\* The orders of a key's account that are older than t.
Before(k, t) == {o \in Closed : account[o] = KeyAccount[k] /\ when[o] < t}

\* Nothing is dated ahead of the clock, and no row is taken out.
InTime ==
  /\ \A o \in Closed : when[o] <= now
  /\ \A r \in orders : r.datetime <= now
  /\ \A s \in Syncs : removed[s] = {}

\* An import is under way until its insert is carried out or it ends without
\* one; once it was sent, nobody needs to wait for it.
UnderWay(s) == pc[s] \in {"paging", "check", "save"} \/ insert[s] = "sent"
FirstPageRead(s) ==
  \/ pc[s] \in {"check", "save"} \/ (pc[s] = "paging" /\ ofs[s] # 0)
  \/ insert[s] = "sent"
InHand(s) == IF insert[s] = "sent" THEN sent[s] ELSE fetched[s]

\* An import begins where everything older is stored.  Once its first page is
\* read, what is older than its end is stored or due.
Continues(s) ==
  UnderWay(s) =>
    /\ req[s].from <= now /\ req[s].to <= now
    /\ InHand(s) \subseteq Window(s)
    /\ Before(req[s].key, req[s].from) \subseteq StoredIds
    /\ FirstPageRead(s) =>
         Before(req[s].key, req[s].to) \subseteq due[s] \cup StoredIds

BeginsEmpty(s) == pc[s] = "idle" => fetched[s] = {}

GapsInv ==
  /\ InTime
  /\ \A s \in Syncs : Continues(s) /\ BeginsEmpty(s)
  /\ NoGaps

\* What a step leaves of the past.
PastStays ==
  /\ now <= now' /\ Closed \subseteq Closed'
  /\ \A o \in Closed : account'[o] = account[o] /\ when'[o] = when[o]
  /\ \A o \in Closed' : when'[o] <= now'
  /\ \A k \in Keys, t \in Nat : t <= now => Before(k, t)' = Before(k, t)

LEMMA PastIsSettled ==
  ASSUME OnlyContinues, TypeOK, InTime, Next
  PROVE  PastStays
<1>1. now \in Nat /\ \A o \in Closed : when[o] \in Nat /\ when[o] <= now
  BY DEF TypeOK, InTime, Closed
<1>2. ASSUME NEW a \in Accounts, NEW o \in OrderIds, NEW t \in Times,
             CloseOrder(a, o, t)
      PROVE  PastStays
  <2>1. /\ t = now /\ now' = now /\ account[o] = NoAccount
        /\ account'[o] = a /\ when'[o] = now
        /\ \A p \in OrderIds \ {o} : account'[p] = account[p] /\ when'[p] = when[p]
    BY <1>2 DEF CloseOrder, OnlyContinues, TypeOK
  <2>2. Closed' = Closed \cup {o} /\ o \notin Closed
    BY <2>1, KeysAssumption DEF Closed
  <2>3. \A p \in Closed : p \in OrderIds \ {o}
    BY <2>1 DEF Closed
  <2>4. \A p \in Closed : account'[p] = account[p] /\ when'[p] = when[p]
    BY <2>1, <2>3
  <2>5. ASSUME NEW k \in Keys, NEW u \in Nat, u <= now
        PROVE  Before(k, u)' = Before(k, u)
    <3>1. ~(when'[o] < u)
      BY <1>1, <2>1, <2>5
    <3> QED
      BY <2>2, <2>4, <3>1 DEF Before
  <2>6. \A p \in Closed' : when'[p] <= now'
    BY <1>1, <2>1, <2>2, <2>4
  <2> QED
    BY <1>1, <2>1, <2>2, <2>4, <2>5, <2>6 DEF PastStays
<1>3. ASSUME UNCHANGED exchange, now <= now', now' \in Nat
      PROVE  PastStays
  <2>1. Closed' = Closed /\ \A k \in Keys, t \in Nat : Before(k, t)' = Before(k, t)
    BY <1>3 DEF exchange, Closed, Before
  <2>2. \A o \in Closed : account'[o] = account[o] /\ when'[o] = when[o]
    BY <1>3 DEF exchange
  <2>3. \A o \in Closed' : when'[o] <= now'
    BY <1>1, <1>3, <2>1, <2>2
  <2> QED
    BY <1>3, <2>1, <2>2, <2>3 DEF PastStays
<1>4. now <= now' /\ now' \in Nat
  <2>1. CASE Tick
    BY <1>1, <2>1 DEF Tick
  <2>2. CASE ~Tick
    <3>1. now' = now
      <4>1. ASSUME NEW s \in Syncs, AskSync(s) \/ SyncStep(s)
            PROVE  now' = now
        BY <4>1 DEF AskSync, BeginSync, RejectSync, UnsupportedSync, SyncStep,
              Proceed, FetchFullPage, FetchLastPage, FindExisting, SaveOrders,
              CommitInsert, Respond, MappingFails, CallFails
      <4>2. CASE Restart
        BY <4>2 DEF Restart
      <4>3. CASE EditTable
        BY <4>3 DEF EditTable, CreateOrder, DeleteOrder, UpdateOrder
      <4>4. ASSUME NEW a \in Accounts, NEW o \in OrderIds, NEW t \in Times,
                   CloseOrder(a, o, t)
            PROVE  now' = now
        BY <4>4 DEF CloseOrder
      <4> QED
        BY <2>2, <4>1, <4>2, <4>3, <4>4 DEF Next
    <3> QED
      BY <1>1, <3>1
  <2> QED
    BY <2>1, <2>2
<1> QED
  BY <1>2, <1>3, <1>4, ExchangeStays

\* Nobody edits the table, so that it only grows.
LEMMA NobodyEdits ==
  ASSUME OnlyContinues, TypeOK, Next
  PROVE  ~EditTable
<1>1. ~MayEdit
  <2>1. /\ tally.created \in Nat /\ tally.deleted \in Nat
        /\ tally.edited \in Nat
    BY DEF TypeOK
  <2> QED
    BY <2>1 DEF MayEdit, OnlyContinues
<1> QED
  BY <1>1 DEF EditTable, CreateOrder, DeleteOrder, UpdateOrder

LEMMA TableGrows ==
  ASSUME OnlyContinues, TypeOK, Next
  PROVE  /\ orders \subseteq orders' /\ StoredIds \subseteq StoredIds'
         /\ removed' = removed
<1>1. ~EditTable
  BY NobodyEdits
<1>2. orders \subseteq orders' /\ removed' = removed
  <2>1. ASSUME NEW s \in Syncs, AskSync(s) \/ SyncStep(s)
        PROVE  orders \subseteq orders' /\ removed' = removed
    BY <2>1 DEF AskSync, BeginSync, RejectSync, UnsupportedSync, SyncStep,
          Proceed, FetchFullPage, FetchLastPage, FindExisting, SaveOrders,
          CommitInsert, Respond, MappingFails, CallFails, history
  <2>2. CASE Restart \/ Tick
    BY <2>2 DEF Restart, Tick, history
  <2>3. ASSUME NEW a \in Accounts, NEW o \in OrderIds, NEW t \in Times,
               CloseOrder(a, o, t)
        PROVE  orders \subseteq orders' /\ removed' = removed
    BY <2>3 DEF CloseOrder, history
  <2> QED
    BY <1>1, <2>1, <2>2, <2>3 DEF Next
<1> QED
  BY <1>2 DEF StoredIds

\* The step takes nothing in hand, and ends the import or lets it go on where it
\* was.
GoesOn(s) ==
  /\ req'[s] = req[s] /\ due'[s] = due[s]
  /\ UnderWay(s)' => /\ UnderWay(s) /\ (FirstPageRead(s)' <=> FirstPageRead(s))
                     /\ InHand(s)' \subseteq InHand(s)

LEMMA GoingOnContinues ==
  ASSUME TypeOK, HistoryOrdered, Next, PastStays, StoredIds \subseteq StoredIds',
         NEW s \in Syncs, Continues(s), GoesOn(s)
  PROVE  Continues(s)'
<1> SUFFICES ASSUME UnderWay(s)'
             PROVE  Continues(s)'
  BY DEF Continues
<1>1. /\ UnderWay(s) /\ req'[s] = req[s] /\ due'[s] = due[s]
      /\ InHand(s)' \subseteq InHand(s) /\ (FirstPageRead(s)' <=> FirstPageRead(s))
  BY DEF GoesOn
<1>2. /\ req[s].key \in Keys /\ req[s].from \in Nat /\ req[s].to \in Nat
      /\ now \in Nat /\ now' \in Nat
  <2>1. req[s] \in Request /\ now \in Nat
    BY <1>1 DEF UnderWay, TypeOK, InFlight
  <2>2. req[s].key \in Keys /\ req[s].from \in Nat /\ req[s].to \in Nat
    BY <2>1, KeysAssumption DEF Request
  <2>3. now' \in Nat
    BY ExchangeType, AskType, StepType, RestartType, EditType DEF Next, TypeOK
  <2> QED
    BY <2>1, <2>2, <2>3
<1>3. /\ req[s].from <= now /\ req[s].to <= now
      /\ InHand(s) \subseteq Window(s)
      /\ Before(req[s].key, req[s].from) \subseteq StoredIds
      /\ FirstPageRead(s) =>
           Before(req[s].key, req[s].to) \subseteq due[s] \cup StoredIds
  BY <1>1 DEF Continues
<1>4. /\ Before(req[s].key, req[s].from)' = Before(req[s].key, req[s].from)
      /\ Before(req[s].key, req[s].to)' = Before(req[s].key, req[s].to)
  <2>1. PICK k, f, t : k = req[s].key /\ f = req[s].from /\ t = req[s].to
    OBVIOUS
  <2>2. Before(k, f)' = Before(k, f) /\ Before(k, t)' = Before(k, t)
    BY <1>2, <1>3, <2>1 DEF PastStays
  <2> QED
    BY <1>1, <2>1, <2>2 DEF Before
<1>5. Window(s) \subseteq Window(s)'
  BY <1>1, WindowsGrow DEF WindowGrows
<1>6. req[s].from <= now' /\ req[s].to <= now'
  BY <1>2, <1>3 DEF PastStays
<1> QED
  BY <1>1, <1>3, <1>4, <1>5, <1>6 DEF Continues

\* Of an import's steps only a page read takes orders in hand.
LEMMA StepGoesOn ==
  ASSUME TypeOK, NEW s \in Syncs,
         SyncStep(s), ~FetchFullPage(s), ~FetchLastPage(s)
  PROVE  GoesOn(s)
<1>0. req' = req /\ due' = due
  BY DEF SyncStep, Proceed, FindExisting, SaveOrders, CommitInsert, Respond,
         MappingFails, CallFails, memory, history
<1>1. CASE FindExisting(s)
  BY <1>0, <1>1 DEF FindExisting, GoesOn, UnderWay, FirstPageRead, InHand,
                    database, TypeOK
<1>2. CASE SaveOrders(s)
  <2>1. /\ pc[s] = "save" /\ insert[s] = "none" /\ pc'[s] = "insert"
        /\ insert'[s] = "sent" /\ sent'[s] = Fresh(s)
    BY <1>2 DEF SaveOrders, Release, TypeOK
  <2>2. InHand(s)' \subseteq InHand(s)
    BY <2>1 DEF InHand, Fresh
  <2> QED
    BY <1>0, <2>1, <2>2 DEF GoesOn, UnderWay, FirstPageRead
<1>3. CASE CommitInsert(s)
  <2>1. insert[s] = "sent" /\ insert'[s] = "committed" /\ pc'[s] = pc[s]
    BY <1>3 DEF CommitInsert, memory, TypeOK
  <2>2. ~UnderWay(s)'
    BY <2>1 DEF UnderWay, TypeOK
  <2> QED
    BY <1>0, <2>2 DEF GoesOn
<1>4. CASE Respond(s) \/ MappingFails(s) \/ CallFails(s)
  <2>1. pc'[s] \in {"done", "failed"} /\ insert'[s] = insert[s] /\ sent'[s] = sent[s]
    BY <1>4 DEF Respond, MappingFails, CallFails, Release, database, TypeOK
  <2> QED
    BY <1>0, <2>1 DEF GoesOn, UnderWay, FirstPageRead, InHand
<1> QED
  BY <1>1, <1>2, <1>3, <1>4 DEF SyncStep, Proceed

\* Reading a page.
LEMMA ReadContinues ==
  ASSUME TypeOK, NEW s \in Syncs, Continues(s), FetchFullPage(s) \/ FetchLastPage(s)
  PROVE  Continues(s)'
<1>1. /\ pc[s] = "paging" /\ insert[s] = "none" /\ insert' = insert
      /\ req' = req /\ now' = now /\ orders' = orders /\ UNCHANGED exchange
      /\ fetched'[s] = fetched[s] \cup Page(s)
      /\ due'[s] = IF ofs[s] = 0 THEN Window(s) ELSE due[s]
  BY DEF FetchFullPage, FetchLastPage, ReadPage, TypeOK, database
<1>2. /\ Window(s)' = Window(s) /\ StoredIds' = StoredIds
      /\ Before(req[s].key, req[s].from)' = Before(req[s].key, req[s].from)
      /\ Before(req[s].key, req[s].to)' = Before(req[s].key, req[s].to)
  BY <1>1 DEF exchange, Window, Closed, Before, StoredIds
<1>3. /\ req[s].from <= now /\ req[s].to <= now
      /\ fetched[s] \subseteq Window(s)
      /\ Before(req[s].key, req[s].from) \subseteq StoredIds
      /\ FirstPageRead(s) =>
           Before(req[s].key, req[s].to) \subseteq due[s] \cup StoredIds
  BY <1>1 DEF Continues, UnderWay, InHand
<1>4. InHand(s)' \subseteq Window(s)
  BY <1>1, <1>3 DEF Page, InHand
<1>5. Before(req[s].key, req[s].to) \subseteq due'[s] \cup StoredIds
  <2>1. CASE ofs[s] = 0
    <3>1. req[s].from \in Nat /\ req[s].to \in Nat
      BY <1>1 DEF TypeOK, Request, InFlight
    <3>2. \A o \in Closed : when[o] \in Nat
      BY DEF TypeOK, Closed
    <3>3. Before(req[s].key, req[s].to)
            \subseteq Window(s) \cup Before(req[s].key, req[s].from)
      BY <3>1, <3>2 DEF Before, Window, Closed
    <3> QED
      BY <1>1, <1>3, <2>1, <3>3
  <2>2. CASE ofs[s] # 0
    BY <1>1, <1>3, <2>2 DEF FirstPageRead
  <2> QED
    BY <2>1, <2>2
<1> QED
  BY <1>1, <1>2, <1>3, <1>4, <1>5 DEF Continues

\* ALL and RECENT begin and end at rows of the key, or at the ends of time.
LEMMA RangeContinues ==
  ASSUME OnlyContinues, TypeOK, GapsInv, NEW k \in SyncableKeys,
         NEW mode \in Modes, NEW w \in SyncDateRange(KeyOwner[k], k, mode)
  PROVE  /\ w.from <= now /\ w.to <= now
         /\ Before(k, w.from) \subseteq StoredIds
<1> DEFINE T == KeyTimes(KeyOwner[k], k)
<1>1. now \in Nat /\ \A t \in T : t \in Nat /\ t <= now
  BY DEF KeyTimes, GapsInv, InTime, TypeOK, Row
<1>2. \A t \in T : Before(k, t) \subseteq StoredIds
  BY DEF GapsInv, NoGaps, Before
<1>3. Before(k, 0) = {}
  <2>1. \A o \in Closed : when[o] \in Nat
    BY DEF TypeOK, Closed
  <2> QED
    BY <2>1 DEF Before
<1>4. mode = "ALL" \/ mode = "RECENT"
  BY OrdersAssumption DEF OnlyContinues
<1> HIDE DEF T
<1>5. CASE mode = "ALL"
  <2>1. w \in [from : {0}, to : AllEnd(T)]
    BY <1>5 DEF SyncDateRange, T
  <2>2. w.from = 0 /\ w.to \in AllEnd(T)
    BY <2>1
  <2>3. w.to = now \/ w.to \in T
    BY <2>2 DEF AllEnd, Oldest
  <2> QED
    BY <1>1, <1>3, <2>2, <2>3
<1>6. CASE mode = "RECENT"
  <2>1. w \in [from : RecentStart(T), to : {now}]
    BY <1>6 DEF SyncDateRange, T
  <2>2. w.from \in RecentStart(T) /\ w.to = now
    BY <2>1
  <2>3. w.from = 0 \/ w.from \in T
    BY <2>2 DEF RecentStart, Newest
  <2> QED
    BY <1>1, <1>2, <1>3, <2>2, <2>3
<1> QED
  BY <1>4, <1>5, <1>6

LEMMA AskContinues ==
  ASSUME OnlyContinues, TypeOK, DeliveryInv, GapsInv, NEW s \in Syncs, AskSync(s)
  PROVE  Continues(s)'
<1> PICK u \in Users, k \in Keys :
       \/ \E mode \in Modes : BeginSync(s, u, k, mode)
       \/ \E mode \in Modes \cup {"OTHER"} : RejectSync(s, u, k, mode)
       \/ UnsupportedSync(s, u, k)
  BY DEF AskSync
<1>1. ASSUME NEW mode \in Modes, BeginSync(s, u, k, mode)
      PROVE  Continues(s)'
  <2>1. u = KeyOwner[k] /\ k \in SyncableKeys
    BY <1>1 DEF BeginSync, OwnsKey
  <2>2. PICK w \in SyncDateRange(u, k, mode) :
          req' = [req EXCEPT ![s] = [user |-> u, key |-> k,
                                     from |-> w.from, to |-> w.to]]
    BY <1>1 DEF BeginSync
  <2>3. /\ req'[s].key = k /\ req'[s].from = w.from /\ req'[s].to = w.to
        /\ pc[s] = "idle" /\ pc'[s] = "paging" /\ ofs'[s] = ofs[s]
        /\ now' = now /\ fetched'[s] = fetched[s] /\ orders' = orders
        /\ insert[s] = "none" /\ insert' = insert /\ UNCHANGED exchange
    BY <1>1, <2>2 DEF BeginSync, TypeOK, database
  <2>4. ofs'[s] = 0 /\ InHand(s)' = {}
    BY <2>3 DEF DeliveryInv, Delivers, BeginsAtTop, GapsInv, BeginsEmpty, InHand
  <2>5. ~FirstPageRead(s)'
    BY <2>3, <2>4 DEF FirstPageRead
  <2>6. /\ w.from <= now /\ w.to <= now
        /\ Before(k, w.from) \subseteq StoredIds
    BY <2>1, <2>2, RangeContinues
  <2>7. StoredIds' = StoredIds
        /\ Before(req[s].key, req[s].from)' = Before(k, w.from)
    BY <2>3 DEF StoredIds, Before, exchange, Closed
  <2> QED
    BY <2>3, <2>4, <2>5, <2>6, <2>7 DEF Continues
<1>2. ASSUME \/ \E mode \in Modes \cup {"OTHER"} : RejectSync(s, u, k, mode)
             \/ UnsupportedSync(s, u, k)
      PROVE  Continues(s)'
  <2>1. pc'[s] \in {"rejected", "failed"} /\ insert'[s] = "none"
    BY <1>2 DEF RejectSync, UnsupportedSync, TypeOK, database
  <2> QED
    BY <2>1 DEF Continues, UnderWay
<1> QED
  BY <1>1, <1>2

LEMMA ImportContinues ==
  ASSUME OnlyContinues, TypeOK, DeliveryInv, GapsInv, Next, PastStays,
         StoredIds \subseteq StoredIds', NEW s \in Syncs
  PROVE  Continues(s)' /\ BeginsEmpty(s)'
<1>1. Continues(s) /\ BeginsEmpty(s) /\ HistoryOrdered
  BY DEF GapsInv, DeliveryInv
<1>2. CASE Left(s)
  BY <1>1, <1>2, GoingOnContinues
  DEF BeginsEmpty, Left, Entrusted, GoesOn, UnderWay, FirstPageRead, InHand
<1>3. CASE pc'[s] = "lost" /\ Entrusted(s) /\ req'[s] = req[s]
  <2>1. GoesOn(s)
    BY <1>3 DEF Entrusted, GoesOn, UnderWay, FirstPageRead, InHand
  <2> QED
    BY <1>1, <1>3, <2>1, GoingOnContinues DEF BeginsEmpty
<1>4. CASE AskSync(s)
  <2>1. pc'[s] # "idle"
    BY <1>4 DEF AskSync, BeginSync, RejectSync, UnsupportedSync, TypeOK
  <2> QED
    BY <1>4, <2>1, AskContinues DEF BeginsEmpty
<1>5. CASE SyncStep(s)
  <2>1. Continues(s)'
    BY <1>1, <1>5, ReadContinues, StepGoesOn, GoingOnContinues
  <2>2. pc'[s] # "idle"
    <3>1. insert[s] = "sent" => pc[s] # "idle"
      BY DEF TypeOK
    <3> QED
      BY <1>5, <3>1 DEF SyncStep, Proceed, FetchFullPage, FetchLastPage, ReadPage,
         FindExisting, SaveOrders, CommitInsert, Respond, MappingFails,
         CallFails, Release, memory, TypeOK
  <2> QED
    BY <2>1, <2>2 DEF BeginsEmpty
<1> QED
  BY <1>2, <1>3, <1>4, <1>5, OtherSteps

\* The rows of a key are where they were, or an import has saved more of them.
LEMMA TableSteps ==
  ASSUME OnlyContinues, TypeOK, Next
  PROVE  orders' = orders \/ \E s \in Syncs : CommitInsert(s)
  BY NobodyEdits, OthersInsertNothing, OthersKeepTable

\* The rows an import saves, and what is older than each of them.
LEMMA SavedInOrder ==
  ASSUME TypeOK, DeliveryInv, GapsInv, NEW s \in Syncs, CommitInsert(s),
         NEW r \in orders', r \notin orders
  PROVE  /\ r.datetime \in Nat /\ r.datetime <= now
         /\ r.key = req[s].key
         /\ Before(req[s].key, r.datetime) \subseteq StoredIds'
<1>1. PICK o \in Inserted(s) : r = NewRow(s, o)
  BY DEF CommitInsert
<1>2. r.datetime = when[o] /\ r.key = req[s].key /\ o \in sent[s]
  BY <1>1 DEF NewRow, Inserted
<1>3. insert[s] = "sent" /\ UnderWay(s) /\ FirstPageRead(s)
  BY DEF CommitInsert, UnderWay, FirstPageRead
<1>4. /\ sent[s] \subseteq Window(s)
      /\ Before(req[s].key, req[s].to) \subseteq due[s] \cup StoredIds
  BY <1>3 DEF GapsInv, Continues, InHand
<1>5. o \in Closed /\ when[o] <= req[s].to
  BY <1>2, <1>4 DEF Window
<1>6. when[o] \in Nat /\ when[o] <= now /\ req[s].to \in Nat
  BY <1>3, <1>5 DEF TypeOK, GapsInv, InTime, Closed, Request
<1>7. Before(req[s].key, when[o]) \subseteq Before(req[s].key, req[s].to)
  <2>1. \A p \in Closed : when[p] \in Nat
    BY DEF TypeOK, Closed
  <2> QED
    BY <1>5, <1>6, <2>1 DEF Before
<1>8. due[s] \subseteq StoredIds'
  <2>1. due[s] \subseteq StoredIds \cup Inserted(s) \cup removed[s]
    BY CommitDelivers DEF DeliveryInv
  <2>2. removed[s] = {}
    BY DEF GapsInv, InTime
  <2> QED
    BY <2>1, <2>2, InsertedIds
<1>9. StoredIds \subseteq StoredIds'
  BY InsertedIds
<1> QED
  BY <1>2, <1>4, <1>6, <1>7, <1>8, <1>9

LEMMA GapsStay ==
  ASSUME OnlyContinues, TypeOK, DeliveryInv, GapsInv, Next
  PROVE  GapsInv'
<1>1. InTime /\ NoGaps
  BY DEF GapsInv
<1>2. PastStays
  BY <1>1, PastIsSettled
<1>3. orders \subseteq orders' /\ StoredIds \subseteq StoredIds' /\ removed' = removed
  BY TableGrows
<1>4. \A s \in Syncs : Continues(s)' /\ BeginsEmpty(s)'
  BY <1>2, <1>3, ImportContinues
<1>5. now \in Nat /\ now' \in Nat /\ now <= now'
  BY <1>2, ExchangeType, AskType, StepType, RestartType, EditType
  DEF Next, TypeOK, PastStays
<1>6. ASSUME NEW r \in orders'
      PROVE  /\ r.datetime \in Nat /\ r.datetime <= now
             /\ r.key \in SyncableKeys =>
                  r \in orders \/ Before(r.key, r.datetime) \subseteq StoredIds'
  <2>1. CASE r \in orders
    BY <1>1, <2>1 DEF InTime, TypeOK, Row
  <2>2. CASE r \notin orders
    <3>1. PICK s \in Syncs : CommitInsert(s)
      BY <2>2, TableSteps
    <3> QED
      BY <2>2, <3>1, SavedInOrder
  <2> QED
    BY <2>1, <2>2
<1>7. InTime'
  <2>1. \A r \in orders' : r.datetime <= now'
    BY <1>5, <1>6
  <2> QED
    BY <1>1, <1>2, <1>3, <2>1 DEF InTime, PastStays
<1>8. NoGaps'
  <2> SUFFICES ASSUME NEW k \in SyncableKeys, NEW r \in orders',
                      r.userId = KeyOwner[k], r.key = k
               PROVE  Before(k, r.datetime)' \subseteq StoredIds'
    BY DEF NoGaps, KeyTimes, Before
  <2>1. k \in Keys
    BY KeysAssumption
  <2>2. Before(k, r.datetime)' = Before(k, r.datetime)
    <3>1. PICK t : t = r.datetime
      OBVIOUS
    <3>2. Before(k, t)' = Before(k, t)
      BY <1>2, <1>6, <2>1, <3>1 DEF PastStays
    <3>3. UNCHANGED r.datetime
      OBVIOUS
    <3> QED
      BY <3>1, <3>2
  <2>3. Before(k, r.datetime) \subseteq StoredIds'
    <3>1. CASE r \in orders
      <4>1. r.datetime \in KeyTimes(KeyOwner[k], k)
        BY <3>1 DEF KeyTimes
      <4>2. Before(k, r.datetime) \subseteq StoredIds
        BY <1>1, <4>1 DEF NoGaps, Before
      <4> QED
        BY <1>3, <4>2
    <3>2. CASE r \notin orders
      BY <1>6, <3>2
    <3> QED
      BY <3>1, <3>2
  <2> QED
    BY <2>2, <2>3
<1> QED
  BY <1>4, <1>7, <1>8 DEF GapsInv

\* A key whose rows are written by its ALL and RECENT imports only, on an
\* account whose orders close in the order of their datetimes, has a stored
\* history without gaps.
THEOREM HistoriesAreWhole == OnlyContinues => (Spec => []NoGaps)
<1> SUFFICES ASSUME OnlyContinues
             PROVE  Spec => []NoGaps
  OBVIOUS
<1>1. Init => GapsInv
  <2> SUFFICES ASSUME Init
               PROVE  GapsInv
    OBVIOUS
  <2>1. Closed = {} /\ orders = {}
    BY DEF Init, Closed
  <2> QED
    BY <2>1 DEF Init, GapsInv, InTime, Continues, UnderWay, BeginsEmpty, NoGaps,
                KeyTimes
<1>2. TypeOK /\ DeliveryInv /\ GapsInv /\ [Next]_vars => GapsInv'
  <2> SUFFICES ASSUME TypeOK, DeliveryInv, GapsInv, [Next]_vars
               PROVE  GapsInv'
    OBVIOUS
  <2>1. CASE Next
    BY <2>1, GapsStay
  <2>2. CASE UNCHANGED vars
    <3>1. /\ now' = now /\ Closed' = Closed /\ StoredIds' = StoredIds
          /\ \A s \in Syncs : Window(s)' = Window(s)
          /\ \A s \in Syncs : /\ FirstPageRead(s)' <=> FirstPageRead(s)
                              /\ UnderWay(s)' <=> UnderWay(s)
                              /\ InHand(s)' = InHand(s)
          /\ UNCHANGED vars
      BY <2>2 DEF vars, exchange, memory, database, Closed, StoredIds, Window,
                  FirstPageRead, UnderWay, InHand
    <3>2. InTime' /\ NoGaps'
      BY <3>1 DEF GapsInv, InTime, NoGaps, KeyTimes, vars, exchange, history
    <3>3. \A s \in Syncs : Continues(s)' /\ BeginsEmpty(s)'
      BY <3>1 DEF GapsInv, Continues, BeginsEmpty, Before, vars, exchange,
                  memory, history
    <3> QED
      BY <3>2, <3>3 DEF GapsInv
  <2> QED
    BY <2>1, <2>2
<1>3. GapsInv => NoGaps
  BY DEF GapsInv
<1> QED
  BY <1>1, <1>2, <1>3, TypeCorrect, DeliveryCorrect, PTL DEF Spec

-----------------------------------------------------------------------------
(* The counts that are reported add up to the table, with those of the       *)
(* inserts whose answer nobody has                                           *)

UnansweredTotal == SumFunctionOnSet(count, Unanswered)

\* Finitely many imports have inserted, each a number of rows.
CountsInv ==
  /\ IsFiniteSet(orders)
  /\ IsFiniteSet(Reported) /\ IsFiniteSet(Unanswered)
  /\ CountsAddUp

LEMMA SumTyped ==
  ASSUME TypeOK, CountsInv
  PROVE  /\ \A s \in Reported : saved[s] \in Nat
         /\ \A s \in Unanswered : count[s] \in Nat
         /\ SavedTotal \in Nat /\ UnansweredTotal \in Nat
         /\ Cardinality(orders) \in Nat
         /\ tally.created \in Nat /\ tally.deleted \in Nat
<1>1. /\ \A s \in Reported : saved[s] \in Nat
      /\ \A s \in Unanswered : count[s] \in Nat
      /\ tally.created \in Nat /\ tally.deleted \in Nat
  BY DEF TypeOK, Reported, Unanswered
<1>2. SavedTotal \in Nat
  BY <1>1, SumIsNatural DEF CountsInv, SavedTotal
<1>3. UnansweredTotal \in Nat
  BY <1>1, SumIsNatural DEF CountsInv, UnansweredTotal
<1> QED
  BY <1>1, <1>2, <1>3, FS_CardinalityType DEF CountsInv

LEMMA CountsBegin ==
  ASSUME Init
  PROVE  CountsInv
<1>1. orders = {} /\ Reported = {} /\ Unanswered = {}
  BY DEF Init, Reported, Unanswered
<1>2. tally.deleted = 0 /\ tally.created = 0
  BY DEF Init
<1>3. SavedTotal = 0 /\ UnansweredTotal = 0
  BY <1>1, SumOfNone DEF SavedTotal, UnansweredTotal
<1>4. IsFiniteSet({}) /\ Cardinality({}) = 0
  BY FS_EmptySet
<1> QED
  BY <1>1, <1>2, <1>3, <1>4 DEF CountsInv, CountsAddUp, UnansweredTotal

\* Where no import inserts or reports, both sums stay.
LEMMA SumsStay ==
  ASSUME TypeOK, CountsInv, Reported' = Reported, Unanswered' = Unanswered,
         count' = count, \A s \in Reported : saved'[s] = saved[s]
  PROVE  SavedTotal' = SavedTotal /\ UnansweredTotal' = UnansweredTotal
<1>1. SumFunctionOnSet(saved', Reported) = SumFunctionOnSet(saved, Reported)
  <2>1. IsFiniteSet(Reported) /\ \A s \in Reported : saved[s] \in Nat
    BY SumTyped DEF CountsInv
  <2> QED
    BY <2>1, SumOfSame
<1> QED
  BY <1>1 DEF SavedTotal, UnansweredTotal

-----------------------------------------------------------------------------
(* The insert and its answer *)

\* An import adds a row for every order it inserts.
LEMMA RowsAdded ==
  ASSUME TypeOK, IsFiniteSet(orders), NEW s \in Syncs, CommitInsert(s)
  PROVE  /\ IsFiniteSet(orders')
         /\ Cardinality(Inserted(s)) \in Nat
         /\ Cardinality(orders') = Cardinality(orders) + Cardinality(Inserted(s))
<1> DEFINE Rows == {NewRow(s, o) : o \in Inserted(s)}
           row == [o \in Inserted(s) |-> NewRow(s, o)]
<1>1. Inserted(s) \in SUBSET OrderIds
  BY DEF TypeOK, Inserted
<1>2. IsFiniteSet(Inserted(s)) /\ Cardinality(Inserted(s)) \in Nat
  BY <1>1, OrdersCount
<1>3. \A o : NewRow(s, o).orderId = o
  BY DEF NewRow
<1>4. row \in Surjection(Inserted(s), Rows)
  BY DEF Surjection
<1>5. row \in Injection(Inserted(s), Rows)
  BY <1>3 DEF Injection, IsInjective
<1>6. IsFiniteSet(Rows) /\ Cardinality(Rows) = Cardinality(Inserted(s))
  BY <1>2, <1>4, <1>5, FS_Surjection
<1>7. orders \cap Rows = {}
  BY <1>3 DEF Inserted, StoredIds
<1>8. orders' = orders \cup Rows
  BY DEF CommitInsert
<1> HIDE DEF Rows
<1>9. /\ IsFiniteSet(orders \cup Rows)
      /\ Cardinality(orders \cup Rows)
           = Cardinality(orders) + Cardinality(Rows) - Cardinality(orders \cap Rows)
  BY <1>6, FS_Union
<1>10. Cardinality(orders \cap Rows) = 0 /\ Cardinality(orders) \in Nat
  BY <1>7, FS_EmptySet, FS_CardinalityType
<1> QED
  BY <1>2, <1>6, <1>8, <1>9, <1>10

LEMMA CommitCounts ==
  ASSUME TypeOK, CountsInv, NEW s \in Syncs, CommitInsert(s)
  PROVE  CountsInv'
<1> DEFINE n == Cardinality(Inserted(s))
<1>1. /\ IsFiniteSet(orders') /\ n \in Nat
      /\ Cardinality(orders') = Cardinality(orders) + n
  BY RowsAdded DEF CountsInv
<1>2. /\ insert[s] = "sent" /\ insert'[s] = "committed"
      /\ \A x \in Syncs \ {s} : insert'[x] = insert[x]
      /\ UNCHANGED <<pc, saved, tally>>
      /\ count'[s] = n /\ \A x \in Syncs \ {s} : count'[x] = count[x]
  BY DEF CommitInsert, memory, history, TypeOK
<1>3. pc[s] # "done"
  BY <1>2 DEF TypeOK
<1>4. /\ Reported' = Reported
      /\ s \notin Unanswered /\ Unanswered' = Unanswered \cup {s}
  BY <1>2, <1>3 DEF Reported, Unanswered
<1>5. SavedTotal' = SavedTotal
  BY <1>2, <1>4 DEF SavedTotal
<1>6. /\ IsFiniteSet(Unanswered) /\ \A x \in Unanswered : count[x] \in Nat
      /\ \A x \in Unanswered : count'[x] = count[x]
  BY <1>2, <1>4, SumTyped DEF CountsInv, Unanswered
<1> HIDE DEF n
<1>7. UnansweredTotal' = n + UnansweredTotal
  <2>1. SumFunctionOnSet(count', Unanswered \cup {s})
          = count'[s] + SumFunctionOnSet(count, Unanswered)
    BY <1>1, <1>2, <1>4, <1>6, SumWithOneMore
  <2> QED
    BY <1>2, <1>4, <2>1 DEF UnansweredTotal
<1>8. IsFiniteSet(Unanswered')
  BY <1>4, <1>6, FS_AddElement
<1> QED
  BY <1>1, <1>2, <1>4, <1>5, <1>7, <1>8, SumTyped
  DEF CountsInv, CountsAddUp, UnansweredTotal

LEMMA RespondCounts ==
  ASSUME TypeOK, CountsInv, NEW s \in Syncs, Respond(s)
  PROVE  CountsInv'
<1>1. /\ pc[s] = "insert" /\ pc'[s] = "done" /\ insert[s] = "committed"
      /\ \A x \in Syncs \ {s} : pc'[x] = pc[x] /\ saved'[x] = saved[x]
      /\ saved'[s] = count[s] /\ UNCHANGED <<orders, insert, count, tally>>
  BY DEF Respond, Release, CountReported, database, history, TypeOK
<1>2. /\ s \notin Reported /\ Reported' = Reported \cup {s}
      /\ s \in Unanswered /\ Unanswered' = Unanswered \ {s}
  BY <1>1 DEF Reported, Unanswered
<1>3. /\ IsFiniteSet(Reported) /\ \A x \in Reported : saved[x] \in Nat
      /\ IsFiniteSet(Unanswered) /\ \A x \in Unanswered : count[x] \in Nat
      /\ \A x \in Reported : saved'[x] = saved[x]
  BY <1>1, <1>2, SumTyped DEF CountsInv, Reported
<1>4. SavedTotal' = count[s] + SavedTotal
  <2>1. SumFunctionOnSet(saved', Reported \cup {s})
          = saved'[s] + SumFunctionOnSet(saved, Reported)
    BY <1>1, <1>2, <1>3, SumWithOneMore
  <2> QED
    BY <1>1, <1>2, <2>1 DEF SavedTotal
<1>5. UnansweredTotal = count[s] + UnansweredTotal'
  <2>1. SumFunctionOnSet(count, Unanswered)
          = count[s] + SumFunctionOnSet(count, Unanswered \ {s})
    BY <1>2, <1>3, SumWithout
  <2> QED
    BY <1>1, <1>2, <2>1 DEF UnansweredTotal
<1>6. IsFiniteSet(Reported') /\ IsFiniteSet(Unanswered')
  BY <1>2, <1>3, FS_AddElement, FS_RemoveElement
<1>7. SavedTotal' \in Nat /\ UnansweredTotal' \in Nat /\ count[s] \in Nat
  <2>1. /\ \A x \in Reported' : saved'[x] \in Nat
        /\ \A x \in Unanswered' : count'[x] \in Nat
    BY <1>1, <1>2, <1>3 DEF TypeOK
  <2>2. SumFunctionOnSet(saved', Reported') \in Nat
    BY <1>6, <2>1, SumIsNatural
  <2>3. SumFunctionOnSet(count', Unanswered') \in Nat
    BY <1>6, <2>1, SumIsNatural
  <2> QED
    BY <1>2, <1>3, <2>2, <2>3 DEF SavedTotal, UnansweredTotal
<1> QED
  BY <1>1, <1>3, <1>4, <1>5, <1>6, <1>7, SumTyped
  DEF CountsInv, CountsAddUp, UnansweredTotal

-----------------------------------------------------------------------------
(* The other steps *)

LEMMA EditCounts ==
  ASSUME TypeOK, OrderIdsUnique, CountsInv, EditTable
  PROVE  CountsInv'
<1> PICK u \in Users :
       \/ \E o \in OrderIds : CreateOrder(u, o)
       \/ \E r \in orders : DeleteOrder(u, r)
       \/ \E r \in orders, o \in OrderIds, t \in Times : UpdateOrder(u, r, o, t)
  BY DEF EditTable
<1>0. /\ tally \in [created : Nat, deleted : Nat, edited : Nat]
      /\ IsFiniteSet(orders) /\ Cardinality(orders) \in Nat
      /\ SavedTotal \in Nat /\ UnansweredTotal \in Nat
      /\ \A r \in orders : r.orderId \in StoredIds
  BY SumTyped DEF CountsInv, StoredIds, TypeOK
<1>1. /\ UNCHANGED <<memory, database>>
      /\ Reported' = Reported /\ Unanswered' = Unanswered
  BY DEF CreateOrder, DeleteOrder, UpdateOrder, memory, database, Reported,
         Unanswered
<1>2. /\ SavedTotal' = SavedTotal /\ Reported' = Reported
      /\ UnansweredTotal' = UnansweredTotal /\ Unanswered' = Unanswered
  BY <1>1, SumsStay DEF memory, database
<1>3. ASSUME NEW o \in OrderIds, CreateOrder(u, o)
      PROVE  CountsInv'
  <2>1. PICK r : r \notin orders /\ orders' = orders \cup {r}
    <3> DEFINE r == [orderId |-> o, createdBy |-> "USER", userId |-> u,
                     key |-> NoKey, datetime |-> now]
    <3>1. r.orderId \notin StoredIds
      BY <1>3 DEF CreateOrder
    <3> QED
      BY <1>0, <1>3, <3>1 DEF CreateOrder
  <2>2. IsFiniteSet(orders') /\ Cardinality(orders') = Cardinality(orders) + 1
    BY <1>0, <2>1, FS_AddElement
  <2>3. tally'.created = tally.created + 1 /\ tally'.deleted = tally.deleted
    BY <1>0, <1>3 DEF CreateOrder
  <2> QED
    BY <1>0, <1>2, <2>2, <2>3 DEF CountsInv, CountsAddUp, UnansweredTotal
<1>4. ASSUME NEW r \in orders, DeleteOrder(u, r)
      PROVE  CountsInv'
  <2>1. orders' = orders \ {r}
    BY <1>4 DEF DeleteOrder
  <2>2. IsFiniteSet(orders') /\ Cardinality(orders') = Cardinality(orders) - 1
    BY <1>0, <2>1, FS_RemoveElement
  <2>3. tally'.created = tally.created /\ tally'.deleted = tally.deleted + 1
    BY <1>0, <1>4 DEF DeleteOrder
  <2> QED
    BY <1>0, <1>2, <2>2, <2>3 DEF CountsInv, CountsAddUp, UnansweredTotal
<1>5. ASSUME NEW r \in orders, NEW o \in OrderIds, NEW t \in Times,
             UpdateOrder(u, r, o, t)
      PROVE  CountsInv'
  <2>1. orders' = (orders \ {r}) \cup {Edited(r, o, t)}
    BY <1>5 DEF UpdateOrder
  <2>2. Edited(r, o, t) \notin orders \ {r}
    <3>1. \A x \in orders \ {r} : x.orderId # o
      BY <1>0, <1>5 DEF UpdateOrder, OrderIdsUnique
    <3> QED
      BY <3>1 DEF Edited
  <2>3. IsFiniteSet(orders \ {r})
        /\ Cardinality(orders \ {r}) = Cardinality(orders) - 1
    BY <1>0, FS_RemoveElement
  <2>4. IsFiniteSet(orders') /\ Cardinality(orders') = Cardinality(orders)
    <3>1. /\ IsFiniteSet(orders')
          /\ Cardinality(orders') = Cardinality(orders \ {r}) + 1
      BY <2>1, <2>2, <2>3, FS_AddElement
    <3> QED
      BY <1>0, <2>3, <3>1
  <2>5. tally'.created = tally.created /\ tally'.deleted = tally.deleted
    BY <1>0, <1>5 DEF UpdateOrder
  <2> QED
    BY <1>0, <1>2, <2>4, <2>5 DEF CountsInv, CountsAddUp, UnansweredTotal
<1> QED
  BY <1>3, <1>4, <1>5

\* Every other step leaves the table, the tally, and what was inserted and
\* reported; a call that fails or a restart loses an answer, not its rows.
KeepsCounts ==
  /\ UNCHANGED <<orders, count, tally>>
  /\ Reported' = Reported /\ Unanswered' = Unanswered
  /\ \A s \in Reported : saved'[s] = saved[s]

LEMMA StepsKeepCounts ==
  ASSUME TypeOK, NEW s \in Syncs, SyncStep(s), ~CommitInsert(s), ~Respond(s)
  PROVE  KeepsCounts
<1>1. UNCHANGED <<orders, count, tally>>
  BY DEF SyncStep, Proceed, FetchFullPage, FetchLastPage, FindExisting,
         SaveOrders, MappingFails, CallFails, database, history
<1>2. /\ pc[s] # "done" /\ pc'[s] # "done"
      /\ \A x \in Syncs \ {s} : pc'[x] = pc[x]
  BY DEF SyncStep, Proceed, FetchFullPage, FetchLastPage, ReadPage, FindExisting,
         SaveOrders, MappingFails, CallFails, Release, InFlight, TypeOK
<1>3. \A x \in Syncs \ {s} : saved'[x] = saved[x] /\ insert'[x] = insert[x]
  BY DEF SyncStep, Proceed, FetchFullPage, FetchLastPage, FindExisting,
         SaveOrders, MappingFails, CallFails, database, TypeOK
<1>4. insert'[s] = "committed" <=> insert[s] = "committed"
  BY DEF SyncStep, Proceed, FetchFullPage, FetchLastPage, FindExisting,
         SaveOrders, MappingFails, CallFails, database, TypeOK
<1> QED
  BY <1>1, <1>2, <1>3, <1>4 DEF KeepsCounts, Reported, Unanswered

LEMMA OthersKeepCounts ==
  ASSUME TypeOK, [Next]_vars, ~EditTable,
         \A s \in Syncs : ~CommitInsert(s) /\ ~Respond(s)
  PROVE  KeepsCounts
<1>1. CASE UNCHANGED vars
  BY <1>1 DEF vars, memory, database, history, KeepsCounts, Reported, Unanswered
<1>2. CASE Tick
  BY <1>2 DEF Tick, memory, database, history, KeepsCounts, Reported, Unanswered
<1>3. ASSUME NEW a \in Accounts, NEW o \in OrderIds, NEW t \in Times,
             CloseOrder(a, o, t)
      PROVE  KeepsCounts
  BY <1>3 DEF CloseOrder, memory, database, history, KeepsCounts, Reported,
              Unanswered
<1>4. ASSUME NEW s \in Syncs, AskSync(s)
      PROVE  KeepsCounts
  <2>1. /\ pc[s] = "idle" /\ pc'[s] # "done"
        /\ \A x \in Syncs \ {s} : pc'[x] = pc[x]
        /\ UNCHANGED <<orders, saved, insert, count, tally>>
    BY <1>4 DEF AskSync, BeginSync, RejectSync, UnsupportedSync, database,
                history, TypeOK
  <2>2. insert[s] # "committed"
    BY <2>1 DEF TypeOK
  <2> QED
    BY <2>1, <2>2 DEF KeepsCounts, Reported, Unanswered
<1>5. CASE Restart
  <2>1. \A x \in Syncs : pc'[x] = "done" <=> pc[x] = "done"
    BY <1>5 DEF Restart, InFlight
  <2>2. UNCHANGED <<orders, saved, insert, count, tally>>
    BY <1>5 DEF Restart, database, history
  <2> QED
    BY <2>1, <2>2 DEF KeepsCounts, Reported, Unanswered
<1> QED
  BY <1>1, <1>2, <1>3, <1>4, <1>5, StepsKeepCounts DEF Next

LEMMA CountsStay ==
  ASSUME TypeOK, OrderIdsUnique, CountsInv, [Next]_vars
  PROVE  CountsInv'
<1>1. CASE EditTable
  BY <1>1, EditCounts
<1>2. CASE \E s \in Syncs : CommitInsert(s)
  BY <1>2, CommitCounts
<1>3. CASE \E s \in Syncs : Respond(s)
  BY <1>3, RespondCounts
<1>4. CASE ~EditTable /\ \A s \in Syncs : ~CommitInsert(s) /\ ~Respond(s)
  <2>1. KeepsCounts
    BY <1>4, OthersKeepCounts
  <2> QED
    BY <2>1, SumsStay DEF KeepsCounts, CountsInv, CountsAddUp, UnansweredTotal
<1> QED
  BY <1>1, <1>2, <1>3, <1>4

\* The counts of the answers add up to the table, with what was inserted and not
\* answered, for any number of imports that race for the same orders and fail or
\* are lost on either side of their insert.
THEOREM CountsAreTrue == Spec => []CountsAddUp
<1>1. CountsInv => CountsAddUp
  BY DEF CountsInv
<1> QED
  BY <1>1, CountsBegin, CountsStay, TypeCorrect, IdsUnique, PTL DEF Spec
=============================================================================
