------------------------------- MODULE Paging -------------------------------
(***************************************************************************)
(* Listing rows page by page (GET /order, and GET /access-key behind its   *)
(* cache).  A page is one query and the count beside it another, sent      *)
(* together and in no transaction; a client walks the listing by offset    *)
(* for as long as it is told there is more.  Meanwhile imports and users   *)
(* add rows and users remove them.                                         *)
(*                                                                         *)
(* A row is what its place in the listing depends on: its user and when it *)
(* was created.  Rows of one import are created at one time.               *)
(***************************************************************************)
EXTENDS Integers, Sequences, FiniteSets
LOCAL INSTANCE FiniteSetsExt

CONSTANTS
  Users, Walks,
  Limits,        \* the limits clients ask for, 20 if they name none
  MaxOffset,     \* the greatest offset PaginateDto accepts, 1000
  NoWalk,
  TimeBound,     \* bound on the times rows are created at
  RowBound,      \* how many rows enter the table
  RemovalBound   \* how many leave it

ASSUME LimitsAssumption == Limits \subseteq Nat \ {0}
ASSUME BoundsAssumption ==
  /\ MaxOffset \in Nat
  /\ TimeBound \in Nat /\ RowBound \in Nat /\ RemovalBound \in Nat

VARIABLES
  table,     \* every row there ever was, by its id
  removed,   \* the ids of those that were deleted
  walk       \* for every client its walk, or NoWalk.  Its history: the rows it
             \* was shown, and shown again, how many its pages held, the rows
             \* that were there when it began and are due, how many rows
             \* entered, and how many may slip

vars == <<table, removed, walk>>

Times == 0 .. TimeBound
RowIds == 1 .. Len(table)

Row == [user : Users, createdAt : Times]
Walk ==
  [user : Users, limit : Limits, offset : Nat,
   phase : {"both", "page", "count", "ended", "refused"},
   page : SUBSET Nat, count : Nat, shown : SUBSET Nat, repeated : SUBSET Nat,
   held : Nat, due : SUBSET Nat, inserts : Nat, slips : Nat]

\* Mutant: the rows of all users.
ListingOfAll(u) == RowIds \ removed
\* where userId
Listing(u) == {r \in RowIds \ removed : table[r].user = u}

\* The rows that may be the first k of a listing, newest first.  Rows created
\* at one time come in any order, in another one at the next query.
Heads(u, k) ==
  {A \in SUBSET Listing(u) :
     /\ Cardinality(A) = Min({k, Cardinality(Listing(u))})
     /\ \A r \in A, x \in Listing(u) \ A :
          table[r].createdAt >= table[x].createdAt}

\* Mutant: skip is the number of the page.
PagesByNumber(u, limit, offset) ==
  LET n == offset \div limit IN
  UNION {{B \ A : B \in {X \in Heads(u, n + limit) : A \subseteq X}} :
           A \in Heads(u, n)}

\* findMany with orderBy createdAt desc, take and skip.
Pages(u, limit, offset) ==
  UNION {{B \ A : B \in {X \in Heads(u, offset + limit) : A \subseteq X}} :
           A \in Heads(u, offset)}

-----------------------------------------------------------------------------
(* Rows come and go *)

Under(w) == walk[w] # NoWalk /\ walk[w].phase \notin {"ended", "refused"}

\* The walks of u note that n rows entered its listing, or that one left it.  A
\* row may slip past a walk that was told a count and still waits for its page.
NoteInsert(u, n) ==
  walk' = [w \in Walks |->
    IF ~Under(w) \/ walk[w].user # u THEN walk[w]
    ELSE [walk[w] EXCEPT
            !.inserts = @ + n,
            !.slips = IF walk[w].phase = "page" THEN @ + n ELSE @]]
NoteRemove(u) ==
  walk' = [w \in Walks |->
    IF ~Under(w) \/ walk[w].user # u THEN walk[w]
    ELSE [walk[w] EXCEPT !.slips = @ + 1]]

\* The n rows of one insert enter together.  They were created when their
\* transaction began, and others that began later may have entered before.
Insert(u, n, t) ==
  /\ Len(table) + n <= RowBound
  /\ table' = table \o [i \in 1 .. n |-> [user |-> u, createdAt |-> t]]
  /\ NoteInsert(u, n)
  /\ UNCHANGED removed

\* DELETE /order, or the soft deletion of a key.
Remove(u, r) ==
  /\ Cardinality(removed) < RemovalBound
  /\ r \in Listing(u)
  /\ removed' = removed \cup {r}
  /\ NoteRemove(u)
  /\ UNCHANGED table

-----------------------------------------------------------------------------
(* Walking a listing *)

\* The client asks for the first page.
BeginWalk(w, u, limit) ==
  /\ walk[w] = NoWalk
  /\ walk' = [walk EXCEPT ![w] =
       [user |-> u, limit |-> limit, offset |-> 0, phase |-> "both",
        page |-> {}, count |-> 0, shown |-> {}, repeated |-> {}, held |-> 0,
        due |-> Listing(u), inserts |-> 0, slips |-> 0]]
  /\ UNCHANGED <<table, removed>>

\* Mutants: the last row does not count, or the offset does not.
HasMoreThanOne(count, limit, offset) == count > offset + limit + 1
HasMoreThanAPage(count, limit, offset) == count > limit
hasMore(count, limit, offset) == count > offset + limit

\* preparePaginateResultDto, once both queries are answered; the client goes on
\* behind the rows it asked for, and is refused an offset that is too large.
Answer(x, page, count) ==
  LET answered == [x EXCEPT
        !.shown = @ \cup page,
        !.repeated = @ \cup (x.shown \cap page),
        !.held = @ + Cardinality(page),
        !.due = @ \ page,
        !.page = {}, !.count = 0]
  IN CASE ~hasMore(count, x.limit, x.offset) ->
            [answered EXCEPT !.phase = "ended", !.shown = {}, !.held = 0,
                             !.offset = 0,
                             !.due = @ \cap Listing(x.user)]
       [] hasMore(count, x.limit, x.offset) /\ x.offset + x.limit <= MaxOffset ->
            [answered EXCEPT !.phase = "both", !.offset = @ + x.limit]
       [] OTHER -> [answered EXCEPT !.phase = "refused", !.shown = {}, !.due = {}]

\* findMany is answered, first or last.
FindMany(w) ==
  /\ Under(w)
  /\ walk[w].phase \in {"both", "page"}
  /\ \E page \in Pages(walk[w].user, walk[w].limit, walk[w].offset) :
       walk' = [walk EXCEPT ![w] =
         IF walk[w].phase = "page" THEN Answer(walk[w], page, walk[w].count)
         ELSE [walk[w] EXCEPT !.phase = "count", !.page = page]]
  /\ UNCHANGED <<table, removed>>

\* So is count.
Count(w) ==
  /\ Under(w)
  /\ walk[w].phase \in {"both", "count"}
  /\ LET count == Cardinality(Listing(walk[w].user)) IN
     walk' = [walk EXCEPT ![w] =
       IF walk[w].phase = "count" THEN Answer(walk[w], walk[w].page, count)
       ELSE [walk[w] EXCEPT !.phase = "page", !.count = count]]
  /\ UNCHANGED <<table, removed>>

\* A query fails, or the client loses interest.
Abandon(w) ==
  /\ Under(w)
  /\ walk' = [walk EXCEPT ![w] = NoWalk]
  /\ UNCHANGED <<table, removed>>

-----------------------------------------------------------------------------

Init ==
  /\ table = <<>>
  /\ removed = {}
  /\ walk = [w \in Walks |-> NoWalk]

Query(w) == FindMany(w) \/ Count(w)

Next ==
  \/ \E u \in Users, n \in 1 .. RowBound, t \in Times : Insert(u, n, t)
  \/ \E u \in Users, r \in RowIds : Remove(u, r)
  \/ \E w \in Walks :
       \/ \E u \in Users, limit \in Limits : BeginWalk(w, u, limit)
       \/ Query(w)
       \/ Abandon(w)

Spec == Init /\ [][Next]_vars

-----------------------------------------------------------------------------
(* Properties *)

Begun == {w \in Walks : walk[w] # NoWalk}

TypeOK ==
  /\ table \in Seq(Row)
  /\ removed \subseteq RowIds
  /\ walk \in [Walks -> Walk \cup {NoWalk}]
  /\ \A w \in Begun :
       LET x == walk[w] IN
       /\ x.offset % x.limit = 0
       /\ x.held <= x.offset + IF x.phase = "refused" THEN x.limit ELSE 0
       /\ Cardinality(x.page) <= x.limit /\ x.count <= Len(table)
       /\ \A r \in x.due \cup x.page \cup x.shown \cup x.repeated :
            r \in RowIds /\ table[r].user = x.user

\* Created at a time no other row of its user was.
Untied(r) ==
  \A x \in RowIds \ {r} : table[x] # table[r]

\* A walk that ends has shown every row that was there when it began and still
\* is, but for one row for each that was removed on the way, or that entered
\* between the count of a page and the page itself: two queries of no common
\* transaction (order.service.ts 131-147, search.ts 21).  It says nothing of
\* rows created at the same time, as those of one import are: no query has to
\* order them as the one before did.
SkipsAreBounded ==
  \A w \in Begun :
    walk[w].phase = "ended" =>
      Cardinality({r \in walk[w].due : Untied(r)}) <= walk[w].slips

\* Nor does it show more rows twice than entered on the way.
RepeatsAreBounded ==
  \A w \in Begun :
    Cardinality({r \in walk[w].repeated : Untied(r)}) <= walk[w].inserts

\* A walk is refused only past MaxOffset rows: its pages held as many, but for
\* rows that entered or left on the way (paginate.dto.ts 11-15, search.ts 21).
\* A client that goes on for as long as it is told there is more is never
\* refused behind the end of a listing.
RefusedFarOut ==
  \A w \in Begun :
    walk[w].phase = "refused" =>
      walk[w].held + walk[w].inserts + walk[w].slips > MaxOffset
=============================================================================
