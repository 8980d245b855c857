----------------------------- MODULE OrderSync -----------------------------
(***************************************************************************)
(* Importing the closed orders of an exchange account into the order table *)
(* (POST /order/sync), with everything that may interleave with it: other  *)
(* imports of the same or another user, the account closing new orders     *)
(* while its pages are being read, users creating, editing and deleting    *)
(* rows, failed calls, and restarts of the API process.                    *)
(*                                                                         *)
(* One import is AccessKeyOwnerGuard, OrderService.syncOrders and          *)
(* KrakenExchange.syncOrders.  It gives way at every await: after each     *)
(* page the exchange answers, after the lookup of existing orders, and     *)
(* after the insert; one action below is the code between two of them.     *)
(* The insert is PostgreSQL's: it happens at a moment of its own between   *)
(* the call and its answer, and whether or not the answer ever arrives.    *)
(***************************************************************************)
EXTENDS Naturals, FiniteSets, Functions

CONSTANTS
  Users, Keys, Accounts, OrderIds,
  Syncs,          \* the requests to POST /order/sync, each made at most once
  KeyOwner,       \* access_key.userId
  KeyAccount,     \* the exchange account the credentials of a key open
  SyncableKeys,   \* keys of an exchange whose class implements syncOrders
  Unmappable,     \* orders ccxtToCreateOrderDbDto throws on
  PageSize,       \* pageSize, 50 in the code
  Modes,          \* the sync modes clients use
  LateFills,      \* may an order close with an opening time in the past?
  NoKey, NoAccount, NoRequest,
  ClockBound, EditBound, CrashBound    \* bounds of a finite instance

Times == 0 .. ClockBound

ASSUME KeysAssumption ==
  /\ KeyOwner \in [Keys -> Users]
  /\ KeyAccount \in [Keys -> Accounts]
  /\ SyncableKeys \subseteq Keys
  /\ NoKey \notin Keys
  /\ NoAccount \notin Accounts
ASSUME PageSizeAssumption == PageSize \in Nat \ {0}
ASSUME OrdersAssumption ==
  /\ IsFiniteSet(OrderIds)
  /\ "USER" \notin Syncs
  /\ Unmappable \subseteq OrderIds
  /\ Modes \subseteq {"ALL", "RECENT", "RANGE"}
  /\ LateFills \in BOOLEAN
ASSUME BoundsAssumption ==
  ClockBound \in Nat /\ EditBound \in Nat /\ CrashBound \in Nat

VARIABLES
  now,        \* new Date()
  account,    \* the account an order was closed on, NoAccount while it is not
  when,       \* the datetime the exchange gives a closed order
  closedNo,   \* the place of an order in its account's history, from 1
  orders,     \* the rows of table order that have an orderId
  pc,         \* where each import is
  req,        \* what it was asked: user, access key, window
  ofs,        \* the offset of its next page
  fetched,    \* the ids in allOrdersDict
  existing,   \* what its lookup of existing orders returned
  saved,      \* response.saved.count
  insert,     \* the createMany of each import, as the database has it (external)
  sent,       \* the orders of a createMany that has not been carried out
  count,      \* how many rows it inserted, its createdOrders.count
  crashes,
  \* History variables: no action reads them in a guard.
  due,        \* the window of an import when its first page was read
  removed,    \* orderIds users took out of the table since it was asked
  tally       \* how many rows users created, deleted and edited

exchange == <<account, when, closedNo>>
memory   == <<pc, req, ofs, fetched, existing, saved>>
database == <<insert, sent, count>>
history  == <<due, removed, tally>>
vars == <<now, exchange, orders, memory, database, crashes, history>>

-----------------------------------------------------------------------------
(* Types *)

Row == [orderId   : OrderIds,
        createdBy : Syncs \cup {"USER"},   \* SCRIPT, refined by the import
        userId    : Users,
        key       : Keys \cup {NoKey},
        datetime  : Nat]
Request == [user : Users, key : SyncableKeys, from : Nat, to : Nat]

InFlight == {"paging", "check", "save", "insert"}
Ended    == {"done", "failed", "rejected", "lost"}

TypeOK ==
  /\ now \in Nat
  /\ account \in [OrderIds -> Accounts \cup {NoAccount}]
  /\ when \in [OrderIds -> Nat]
  /\ closedNo \in [OrderIds -> Nat]
  /\ orders \subseteq Row
  /\ pc \in [Syncs -> {"idle"} \cup InFlight \cup Ended]
  /\ req \in [Syncs -> Request \cup {NoRequest}]
  /\ \A s \in Syncs : pc[s] \in InFlight \cup {"done"} => req[s] \in Request
  /\ ofs \in [Syncs -> Nat]
  /\ fetched \in [Syncs -> SUBSET OrderIds]
  /\ existing \in [Syncs -> SUBSET OrderIds]
  /\ saved \in [Syncs -> Nat]
  /\ insert \in [Syncs -> {"none", "sent", "committed"}]
  /\ sent \in [Syncs -> SUBSET OrderIds]
  /\ count \in [Syncs -> Nat]
  /\ \A s \in Syncs :
       /\ insert[s] # "none" => req[s] \in Request
       /\ pc[s] \in {"idle", "rejected", "paging", "check", "save"} =>
            insert[s] = "none"
       /\ pc[s] = "insert" => insert[s] # "none"
       /\ pc[s] = "done" => insert[s] = "committed"
  /\ crashes \in Nat
  /\ due \in [Syncs -> SUBSET OrderIds]
  /\ removed \in [Syncs -> SUBSET OrderIds]
  /\ tally \in [created : Nat, deleted : Nat, edited : Nat]

Init ==
  /\ now = 0
  /\ account = [o \in OrderIds |-> NoAccount]
  /\ when = [o \in OrderIds |-> 0]
  /\ closedNo = [o \in OrderIds |-> 0]
  /\ orders = {}
  /\ pc = [s \in Syncs |-> "idle"]
  /\ req = [s \in Syncs |-> NoRequest]
  /\ ofs = [s \in Syncs |-> 0]
  /\ fetched = [s \in Syncs |-> {}]
  /\ existing = [s \in Syncs |-> {}]
  /\ saved = [s \in Syncs |-> 0]
  /\ insert = [s \in Syncs |-> "none"]
  /\ sent = [s \in Syncs |-> {}]
  /\ count = [s \in Syncs |-> 0]
  /\ crashes = 0
  /\ due = [s \in Syncs |-> {}]
  /\ removed = [s \in Syncs |-> {}]
  /\ tally = [created |-> 0, deleted |-> 0, edited |-> 0]

-----------------------------------------------------------------------------
(* The exchange and the clock (external) *)

Closed == {o \in OrderIds : account[o] # NoAccount}

Tick ==
  /\ now < ClockBound
  /\ now' = now + 1
  /\ UNCHANGED <<exchange, orders, memory, database, crashes, history>>

\* An order closes and heads the history of its account.  Its datetime is the
\* time it was opened, which for a limit order may be long ago.
CloseOrder(a, o, t) ==
  /\ account[o] = NoAccount
  /\ t <= now
  /\ LateFills \/ t = now
  /\ account' = [account EXCEPT ![o] = a]
  /\ when' = [when EXCEPT ![o] = t]
  /\ closedNo' = [closedNo EXCEPT ![o] = Cardinality(Closed) + 1]
  /\ UNCHANGED <<now, orders, memory, database, crashes, history>>

\* fetchClosedOrders lists the orders of a window newest first; a page is what
\* follows the first ofs of them.
Window(s) ==
  {o \in Closed : /\ account[o] = KeyAccount[req[s].key]
                  /\ req[s].from <= when[o]
                  /\ when[o] <= req[s].to}
Newer(s, o) == {p \in Window(s) : closedNo[p] > closedNo[o]}
Page(s) ==
  {o \in Window(s) : /\ ofs[s] <= Cardinality(Newer(s, o))
                     /\ Cardinality(Newer(s, o)) < ofs[s] + PageSize}

-----------------------------------------------------------------------------
(* Asking for an import *)

StoredIds == {r.orderId : r \in orders}

\* Mutant: any key will do.
OwnsKeyUnchecked(u, k) == TRUE
\* AccessKeyOwnerGuard: findFirst where userId and id, deleted keys included.
OwnsKey(u, k) == KeyOwner[k] = u

KeyTimes(u, k) ==
  {r.datetime : r \in {x \in orders : x.userId = u /\ x.key = k}}
Oldest(T) == {t \in T : \A x \in T : t <= x}
Newest(T) == {t \in T : \A x \in T : x <= t}

\* ALL ends at the oldest row of the key, RECENT starts at its newest; without
\* rows both ask for everything.  Time 0 is new Date(1970, 1, 1).
AllEnd(T) == IF T = {} THEN {now} ELSE Oldest(T)

\* Mutant: RECENT starts after the newest row.
RecentStartAfterNewest(T) ==
  IF T = {} THEN {0} ELSE {t + 1 : t \in Newest(T)}
RecentStart(T) == IF T = {} THEN {0} ELSE Newest(T)

\* _getSyncDateRange: the windows a mode may ask for, none when it rejects the
\* dates.
SyncDateRange(u, k, mode) ==
  LET T == KeyTimes(u, k) IN
  CASE mode = "ALL" ->
         [from : {0}, to : AllEnd(T)]
    [] mode = "RECENT" ->
         [from : RecentStart(T), to : {now}]
    [] mode = "RANGE" ->
         {w \in [from : Times, to : Times] : w.from <= w.to}

\* The guard finds the key among the keys of the user, the window is chosen and
\* the first page is requested.
BeginSync(s, u, k, mode) ==
  /\ pc[s] = "idle"
  /\ OwnsKey(u, k)
  /\ k \in SyncableKeys
  /\ \E w \in SyncDateRange(u, k, mode) :
       req' = [req EXCEPT ![s] = [user |-> u, key |-> k,
                                  from |-> w.from, to |-> w.to]]
  /\ pc' = [pc EXCEPT ![s] = "paging"]
  /\ UNCHANGED <<now, exchange, orders, ofs, fetched, existing, saved,
                 database, crashes, history>>

\* The key is not among the keys of the user (401), there is no such mode, or
\* the dates of a range are missing, unreadable or out of order (400).
RejectSync(s, u, k, mode) ==
  /\ pc[s] = "idle"
  /\ \/ ~OwnsKey(u, k)
     \/ mode \notin {"ALL", "RECENT"}
  /\ pc' = [pc EXCEPT ![s] = "rejected"]
  /\ UNCHANGED <<now, exchange, orders, req, ofs, fetched, existing, saved,
                 database, crashes, history>>

\* The syncOrders of the key's exchange throws.
UnsupportedSync(s, u, k) ==
  /\ pc[s] = "idle"
  /\ OwnsKey(u, k)
  /\ k \notin SyncableKeys
  /\ pc' = [pc EXCEPT ![s] = "failed"]
  /\ UNCHANGED <<now, exchange, orders, req, ofs, fetched, existing, saved,
                 database, crashes, history>>

-----------------------------------------------------------------------------
(* Running it *)

\* Mutant: a full page is taken for the last one.
IsLastPageOrFull(s) == Cardinality(Page(s)) <= PageSize
\* expand stops at a page that is not full.
IsLastPage(s) == Cardinality(Page(s)) < PageSize

\* Mutants: the offset does not advance, or one too far.
SameOfs(s) == ofs[s]
OfsPastPage(s) == ofs[s] + Cardinality(Page(s)) + 1
\* ofs += res.length
NextOfs(s) == ofs[s] + Cardinality(Page(s))

ReadPage(s) ==
  /\ pc[s] = "paging"
  /\ fetched' = [fetched EXCEPT ![s] = @ \cup Page(s)]
  /\ due' = IF ofs[s] = 0 THEN [due EXCEPT ![s] = Window(s)] ELSE due

\* A full page: expand requests the next one.
FetchFullPage(s) ==
  /\ ReadPage(s)
  /\ ~IsLastPage(s)
  /\ ofs' = [ofs EXCEPT ![s] = NextOfs(s)]
  /\ UNCHANGED <<now, exchange, orders, pc, req, existing, saved, database,
                 crashes, removed, tally>>

\* A page that is not full ends the expansion.
FetchLastPage(s) ==
  /\ ReadPage(s)
  /\ IsLastPage(s)
  /\ pc' = [pc EXCEPT ![s] = "check"]
  /\ UNCHANGED <<now, exchange, orders, req, ofs, existing, saved, database,
                 crashes, removed, tally>>

\* findMany where orderId in allOrderIds: the rows of every user are looked up.
FindExisting(s) ==
  /\ pc[s] = "check"
  /\ existing' = [existing EXCEPT ![s] = fetched[s] \cap StoredIds]
  /\ pc' = [pc EXCEPT ![s] = "save"]
  /\ UNCHANGED <<now, exchange, orders, req, ofs, fetched, saved, database,
                 crashes, history>>

\* Mutant: userId and accessKeyId change places.
NewRowSwapped(s, o) ==
  [orderId |-> o, createdBy |-> s, userId |-> req[s].key,
   key |-> req[s].user, datetime |-> when[o]]
\* ccxtToCreateOrderDbDto
NewRow(s, o) ==
  [orderId |-> o, createdBy |-> s, userId |-> req[s].user,
   key |-> req[s].key, datetime |-> when[o]]

\* The fetched orders that the lookup did not find.
Fresh(s) == fetched[s] \ existing[s]

\* An import keeps no more in memory than where it is and its response.
Release(s, place) ==
  /\ pc' = [pc EXCEPT ![s] = place]
  /\ ofs' = [ofs EXCEPT ![s] = 0]
  /\ fetched' = [fetched EXCEPT ![s] = {}]
  /\ existing' = [existing EXCEPT ![s] = {}]

\* The response is prepared with the count expected, and createMany called.
SaveOrders(s) ==
  /\ pc[s] = "save"
  /\ Fresh(s) \cap Unmappable = {}
  /\ saved' = [saved EXCEPT ![s] = Cardinality(Fresh(s))]
  /\ insert' = [insert EXCEPT ![s] = "sent"]
  /\ sent' = [sent EXCEPT ![s] = Fresh(s)]
  /\ Release(s, "insert")
  /\ UNCHANGED <<now, exchange, orders, req, count, crashes, history>>

\* Mutant: the unique index is gone.
InsertedUnchecked(s) == sent[s]
\* What createMany inserts: skipDuplicates leaves out the ids that entered the
\* table since the lookup.
Inserted(s) == sent[s] \ StoredIds

\* The database carries out the insert, which is atomic.  The import may be
\* waiting for the answer, have been told that the call failed, or be lost.
CommitInsert(s) ==
  /\ insert[s] = "sent"
  /\ orders' = orders \cup {NewRow(s, o) : o \in Inserted(s)}
  /\ insert' = [insert EXCEPT ![s] = "committed"]
  /\ sent' = [sent EXCEPT ![s] = {}]
  /\ count' = [count EXCEPT ![s] = Cardinality(Inserted(s))]
  /\ UNCHANGED <<now, exchange, memory, crashes, history>>

\* Mutant: the count expected before the insert is kept.
CountExpected(s) == saved[s]
\* createdOrders.count
CountReported(s) == count[s]

\* The answer of createMany arrives and the request is answered.
Respond(s) ==
  /\ pc[s] = "insert"
  /\ insert[s] = "committed"
  /\ saved' = [saved EXCEPT ![s] = CountReported(s)]
  /\ Release(s, "done")
  /\ UNCHANGED <<now, exchange, orders, req, database, crashes, history>>

\* A row that cannot be mapped fails the whole import.
MappingFails(s) ==
  /\ pc[s] = "save"
  /\ Fresh(s) \cap Unmappable # {}
  /\ Release(s, "failed")
  /\ UNCHANGED <<now, exchange, orders, req, saved, database, crashes, history>>

\* A call to the exchange or to the database fails; catchError rethrows.  A
\* createMany whose connection is lost or timed out may have been carried out,
\* may be yet, or never.
CallFails(s) ==
  /\ pc[s] \in InFlight
  /\ Release(s, "failed")
  /\ UNCHANGED <<now, exchange, orders, req, saved, database, crashes, history>>

\* The API process stops and starts again: what was in memory is gone, and what
\* was sent to the database is not.
Restart ==
  /\ crashes < CrashBound
  /\ crashes' = crashes + 1
  /\ LET up(f, x) == [s \in Syncs |-> IF pc[s] \in InFlight THEN x ELSE f[s]]
     IN  /\ pc' = up(pc, "lost")
         /\ ofs' = up(ofs, 0)
         /\ fetched' = up(fetched, {})
         /\ existing' = up(existing, {})
  /\ UNCHANGED <<now, exchange, orders, req, saved, database, history>>

-----------------------------------------------------------------------------
(* Users editing the table by hand *)

MayEdit == tally.created + tally.deleted + tally.edited < EditBound

\* Every import that has been asked for learns that o left the table.
NoteRemoval(o) ==
  removed' = [s \in Syncs |-> IF pc[s] = "idle" THEN removed[s]
                                                ELSE removed[s] \cup {o}]

\* createOrder: orderId is unique in the table, a second one is refused.  No
\* import reads the datetime of a row without an access key.
CreateOrder(u, o) ==
  /\ MayEdit
  /\ o \notin StoredIds
  /\ orders' = orders \cup {[orderId |-> o, createdBy |-> "USER", userId |-> u,
                             key |-> NoKey, datetime |-> now]}
  /\ tally' = [tally EXCEPT !.created = @ + 1]
  /\ UNCHANGED <<now, exchange, memory, database, crashes, due, removed>>

DeleteOrder(u, r) ==
  /\ MayEdit
  /\ r.userId = u
  /\ orders' = orders \ {r}
  /\ NoteRemoval(r.orderId)
  /\ tally' = [tally EXCEPT !.deleted = @ + 1]
  /\ UNCHANGED <<now, exchange, memory, database, crashes, due>>

Edited(r, o, t) == [orderId |-> o, createdBy |-> r.createdBy,
                    userId |-> r.userId, key |-> r.key, datetime |-> t]

\* updateOrderById may change the orderId and the datetime of any row of the
\* user, an imported one included.
UpdateOrder(u, r, o, t) ==
  /\ MayEdit
  /\ r.userId = u
  /\ o = r.orderId \/ o \notin StoredIds
  /\ orders' = (orders \ {r}) \cup {Edited(r, o, t)}
  /\ IF o = r.orderId THEN UNCHANGED removed ELSE NoteRemoval(r.orderId)
  /\ tally' = [tally EXCEPT !.edited = @ + 1]
  /\ UNCHANGED <<now, exchange, memory, database, crashes, due>>

-----------------------------------------------------------------------------

AskSync(s) ==
  \E u \in Users, k \in Keys :
    \/ \E mode \in Modes : BeginSync(s, u, k, mode)
    \/ \E mode \in Modes \cup {"OTHER"} : RejectSync(s, u, k, mode)
    \/ UnsupportedSync(s, u, k)

\* The steps of an import that has begun: its calls are answered, or one fails.
Proceed(s) ==
  \/ FetchFullPage(s)
  \/ FetchLastPage(s)
  \/ FindExisting(s)
  \/ SaveOrders(s)
  \/ MappingFails(s)
  \/ pc[s] = "insert" /\ CommitInsert(s)
  \/ Respond(s)
SyncStep(s) == Proceed(s) \/ CallFails(s) \/ CommitInsert(s)

EditTable ==
  \E u \in Users :
    \/ \E o \in OrderIds : CreateOrder(u, o)
    \/ \E r \in orders : DeleteOrder(u, r)
    \/ \E r \in orders, o \in OrderIds, t \in Times : UpdateOrder(u, r, o, t)

Next ==
  \/ Tick
  \/ \E a \in Accounts, o \in OrderIds, t \in Times : CloseOrder(a, o, t)
  \/ \E s \in Syncs : AskSync(s) \/ SyncStep(s)
  \/ Restart
  \/ EditTable

Spec == Init /\ [][Next]_vars

\* A call to the exchange or to the database that does not fail is carried out
\* and answered, and the event loop runs the continuation of each; nothing makes
\* a call fail, a client ask, an order close or a user edit the table, nor the
\* database carry out what nobody waits for any more.
Fairness == \A s \in Syncs : WF_vars(Proceed(s))
FairSpec == Spec /\ Fairness

-----------------------------------------------------------------------------
(* Properties *)

\* No exchange order is in the table twice, however many imports of it overlap
\* (order.service.ts 283-340: the lookup and the insert are not one
\* transaction) and whatever orderIds users give their rows.
OrderIdsUnique ==
  \A r1, r2 \in orders : r1.orderId = r2.orderId => r1 = r2

\* A row saved by an import belongs to the user who asked for it and to the key
\* it was asked with, and that user owns the key.  An import saves all it has to
\* or nothing, also one that was lost or told its user it failed, whichever page
\* or step it got to and whenever its insert is carried out: of a row in the
\* table, the import has every order its window held there as well, unless a
\* user took it out (order.service.ts 331-352).
RowsFollowTheirImport ==
  \A r \in orders :
    /\ r.key # NoKey => r.createdBy \in Syncs
    /\ r.createdBy \in Syncs =>
         /\ pc[r.createdBy] \in {"insert", "done", "failed", "lost"}
         /\ req[r.createdBy].user = r.userId
         /\ req[r.createdBy].key = r.key
         /\ KeyOwner[r.key] = r.userId
         /\ due[r.createdBy] \subseteq StoredIds \cup removed[r.createdBy]

\* An import that succeeds accounts for every order its window held when the
\* first page was read: each is in the table, or a user has since taken it out.
\* Orders that close while the pages are read shift the rest to higher offsets,
\* other imports save some of them first, and a window may hold an exact number
\* of pages.
NothingLost ==
  \A s \in Syncs : pc[s] = "done" => due[s] \subseteq StoredIds \cup removed[s]

\* The counts reported by the imports and by the users' requests account for
\* the table, short of what the inserts took whose answer has not arrived or was
\* lost: when two imports race for an order only the one whose insert took it
\* counts it (order.service.ts 342 replaces the count computed before).
Reported == {s \in Syncs : pc[s] = "done"}
Unanswered == {s \in Syncs : insert[s] = "committed" /\ pc[s] # "done"}
SavedTotal == SumFunctionOnSet(saved, Reported)
CountsAddUp ==
  Cardinality(orders) + tally.deleted
    = tally.created + SavedTotal + SumFunctionOnSet(count, Unanswered)

\* While the rows of a key are only written by its ALL and RECENT imports and
\* orders close in the order of their datetimes, the stored history of a key
\* has no hole before any of its rows: ALL ends at its oldest row and RECENT
\* starts at its newest (order.service.ts 170-198), whichever of them overlap,
\* fail or are lost, with their inserts carried out long after or never.
NoGaps ==
  \A k \in SyncableKeys :
    \A t \in KeyTimes(KeyOwner[k], k) :
      {o \in Closed : account[o] = KeyAccount[k] /\ when[o] < t}
        \subseteq StoredIds

\* An import that was begun comes to an end: the offset advances with every
\* full page and a window holds finitely many orders.
SyncEnds == \A s \in Syncs : pc[s] \in InFlight ~> pc[s] \in Ended

-----------------------------------------------------------------------------
(* What an import promises, OrderImport, and how this module implements it *)

Phase(s) ==
  CASE pc[s] \in {"idle", "rejected"} -> "waiting"
    [] pc[s] = "paging" /\ ofs[s] = 0 -> "waiting"
    [] pc[s] = "insert" /\ insert[s] = "committed" -> "stored"
    [] pc[s] = "done" -> "imported"
    [] pc[s] \in {"failed", "lost"} /\ insert[s] = "none" -> "abandoned"
    [] pc[s] \in {"failed", "lost"} /\ insert[s] = "sent" -> "doubtful"
    [] pc[s] \in {"failed", "lost"} /\ insert[s] = "committed" -> "kept"
    [] OTHER -> "owing"

Promise == INSTANCE OrderImport
  WITH stored <- StoredIds,
       phase  <- [s \in Syncs |-> Phase(s)],
       owed   <- [s \in Syncs |-> due[s]],
       gone   <- removed
Implements == Promise!Spec
=============================================================================
