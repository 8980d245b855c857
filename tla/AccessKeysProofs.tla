-------------------------- MODULE AccessKeysProofs --------------------------
(***************************************************************************)
(* Theorems about AccessKeys for every number of users, requests and keys, *)
(* every lifetime of the cached listings, and whatever calls to exchanges  *)
(* fail.                                                                   *)
(***************************************************************************)
EXTENDS AccessKeys, TLAPS

-----------------------------------------------------------------------------
(* Type correctness *)

LEMMA InitType == Init => TypeOK
  BY DEF Init, TypeOK

\* The listing of a user holds saved keys of that user.
LEMMA ListingsHold ==
  \A u : \A k \in Listing(u) : k \in Saved /\ keys[k].user = u
  BY DEF Listing, Saved

\* A request that arrives, with the step it goes to.
LEMMA ArrivalType ==
  ASSUME TypeOK, NEW q \in Requests, NEW u \in Users,
         UNCHANGED <<keys, read>>,
         NEW method, NEW arg, [method |-> method, user |-> u, arg |-> arg] \in Request,
         Send(q, method, u, arg),
         cache' = cache, got' \in [Requests -> SUBSET KeyIds],
         NEW step \in {"limits", "delete", "read", "done", "refused"},
         Go(q, step),
         step = "limits" => arg \in Credentials,
         step = "delete" => arg \in Saved
  PROVE  TypeOK'
<1>1. /\ ask' \in [Requests -> Request \cup {NoRequest}]
      /\ pc' \in [Requests -> {"idle", "limits", "insert", "delete", "read",
                               "store", "done", "refused"}]
      /\ known' \in [Requests -> SUBSET KeyIds]
  BY DEF TypeOK, Send, Go, Saved
<1>2. ASSUME NEW p \in Requests
      PROVE  /\ (ask'[p] = NoRequest) = (pc'[p] = "idle")
             /\ pc'[p] \in {"limits", "insert"} => ask'[p].arg \in Credentials
             /\ pc'[p] = "delete" => ask'[p].arg \in Saved'
  <2>1. CASE p = q
    BY <2>1, NoneAssumption DEF TypeOK, Send, Go, Saved
  <2>2. CASE p # q
    BY <2>2 DEF TypeOK, Send, Go, Saved
  <2> QED
    BY <2>1, <2>2
<1> QED
  BY <1>1, <1>2 DEF TypeOK

LEMMA ArriveType ==
  ASSUME TypeOK, NEW q \in Requests, Arrive(q)
  PROVE  TypeOK'
<1>1. PICK u \in Users :
        \/ \E c \in Credentials : CreateKey(q, u, c)
        \/ \E k \in KeyIds : FindKey(q, u, k)
        \/ Hit(q, u)
        \/ Miss(q, u)
  BY DEF Arrive
<1>2. got \in [Requests -> SUBSET KeyIds]
  BY DEF TypeOK
<1>3. ASSUME NEW c \in Credentials, CreateKey(q, u, c)
      PROVE  TypeOK'
  <2>1. [method |-> "POST", user |-> u, arg |-> c] \in Request
    BY DEF Request
  <2>2. PICK outcome \in StatusOutcomes(c) :
          Go(q, IF PassesStatus(c, outcome) THEN "limits" ELSE "refused")
    BY <1>3 DEF CreateKey
  <2>3. Go(q, "limits") \/ Go(q, "refused")
    BY <2>2
  <2> QED
    BY <1>2, <1>3, <2>1, <2>3, ArrivalType DEF CreateKey
<1>4. ASSUME NEW k \in KeyIds, FindKey(q, u, k)
      PROVE  TypeOK'
  <2>1. [method |-> "DELETE", user |-> u, arg |-> k] \in Request
    BY DEF Request
  <2>2. (Go(q, "delete") /\ k \in Saved) \/ Go(q, "refused")
    BY <1>4 DEF FindKey, Listing
  <2> QED
    BY <1>2, <1>4, <2>1, <2>2, ArrivalType DEF FindKey
<1>5. [method |-> "GET", user |-> u, arg |-> ""] \in Request
  BY DEF Request
<1>6. CASE Hit(q, u)
  <2>1. got' \in [Requests -> SUBSET KeyIds]
    BY <1>6 DEF Hit, TypeOK, CacheKey, Entry
  <2> QED
    BY <1>5, <1>6, <2>1, ArrivalType DEF Hit
<1>7. CASE Miss(q, u)
  BY <1>2, <1>5, <1>7, ArrivalType DEF Miss
<1> QED
  BY <1>1, <1>3, <1>4, <1>6, <1>7

LEMMA ContinueType ==
  ASSUME TypeOK, NEW q \in Requests, Continue(q)
  PROVE  TypeOK'
<1>1. CASE CheckLimits(q)
  BY <1>1 DEF CheckLimits, TypeOK, Go, Saved
<1>2. ASSUME NEW k \in KeyIds, InsertKey(q, k)
      PROVE  TypeOK'
  <2>1. [user |-> ask[q].user, cred |-> ask[q].arg, isDeleted |-> FALSE] \in Key
    BY <1>2, NoneAssumption DEF InsertKey, TypeOK, Request, Key
  <2>2. keys' \in [KeyIds -> Key \cup {NoKey}] /\ Saved \subseteq Saved'
    BY <1>2, <2>1, NoneAssumption DEF InsertKey, TypeOK, Saved
  <2> QED
    BY <1>2, <2>2 DEF InsertKey, TypeOK, Go
<1>3. CASE DeleteKey(q)
  <2>1. ask[q].arg \in KeyIds /\ keys[ask[q].arg] \in Key
    BY <1>3 DEF DeleteKey, TypeOK, Saved
  <2>2. [keys[ask[q].arg] EXCEPT !.isDeleted = TRUE] \in Key
    BY <2>1 DEF Key
  <2>3. keys' \in [KeyIds -> Key \cup {NoKey}] /\ Saved \subseteq Saved'
    BY <1>3, <2>1, <2>2, NoneAssumption DEF DeleteKey, TypeOK, Saved
  <2> QED
    BY <1>3, <2>3 DEF DeleteKey, TypeOK, Go
<1>4. CASE ReadKeys(q)
  BY <1>4 DEF ReadKeys, TypeOK, Go, Listing, Saved
<1>5. CASE Store(q)
  <2>1. ask[q].user \in Users
    BY <1>5 DEF Store, TypeOK, Request
  <2>2. [list |-> read[q], life |-> Ttl] \in Entry
    BY TtlAssumption DEF TypeOK, Entry
  <2> QED
    BY <1>5, <2>1, <2>2 DEF Store, TypeOK, Go, CacheKey, Saved
<1>6. CASE Forget(q)
  BY <1>6 DEF Forget, TypeOK, Go, Saved
<1> QED
  BY <1>1, <1>2, <1>3, <1>4, <1>5, <1>6 DEF Continue

LEMMA TickType ==
  ASSUME TypeOK, Tick
  PROVE  TypeOK'
<1>1. ASSUME NEW u \in Users, cache[u] # NoEntry, cache[u].life # 1
      PROVE  [cache[u] EXCEPT !.life = @ - 1] \in Entry
  BY <1>1, TtlAssumption DEF TypeOK, Entry
<1>2. cache' \in [Users -> Entry \cup {NoEntry}]
  BY <1>1 DEF Tick
<1> QED
  BY <1>2 DEF Tick, TypeOK, Saved

\* The variables keep their types: among them that a key about to be deleted
\* is one the table has.
THEOREM TypeCorrect == Spec => []TypeOK
<1>1. ASSUME TypeOK, [Next]_vars
      PROVE  TypeOK'
  <2>1. ASSUME NEW q \in Requests, Arrive(q) \/ Continue(q)
        PROVE  TypeOK'
    BY <1>1, <2>1, ArriveType, ContinueType
  <2>2. ASSUME NEW u \in Users, Evict(u)
        PROVE  TypeOK'
    BY <1>1, <2>2 DEF Evict, TypeOK, Saved
  <2>3. CASE UNCHANGED vars
    BY <1>1, <2>3 DEF vars, TypeOK, Saved
  <2> QED
    BY <1>1, <2>1, <2>2, <2>3, TickType DEF Next
<1> QED
  BY <1>1, InitType, PTL DEF Spec

-----------------------------------------------------------------------------
(* Which keys are stored *)

\* A request that is about to insert carries credentials that are right and
\* cannot read balances.
CheckedInv ==
  \A q \in Requests :
    pc[q] = "insert" => ask[q].arg.valid /\ ~ask[q].arg.canReadBalance

LimitedInv == CheckedInv /\ StoredKeysAreLimited

\* The exchange says PermissionDenied only of such credentials, whatever calls
\* of it fail.
LEMMA DeniedMeansLimited ==
  ASSUME NEW c \in Credentials, "PermissionDenied" \in BalanceOutcomes(c)
  PROVE  c.valid /\ ~c.canReadBalance
  BY CredentialsAssumption DEF BalanceOutcomes, Failing

LEMMA LimitedStays ==
  ASSUME TypeOK, LimitedInv, [Next]_vars
  PROVE  LimitedInv'
<1>1. ASSUME NEW q \in Requests, Arrive(q)
      PROVE  LimitedInv'
  <2>1. /\ UNCHANGED keys
        /\ \A p \in Requests \ {q} : pc'[p] = pc[p] /\ ask'[p] = ask[p]
        /\ pc'[q] # "insert"
    BY <1>1 DEF Arrive, CreateKey, FindKey, Hit, Miss, Send, Go, TypeOK
  <2> QED
    BY <2>1 DEF LimitedInv, CheckedInv, StoredKeysAreLimited, Saved
<1>2. ASSUME NEW q \in Requests, CheckLimits(q)
      PROVE  LimitedInv'
  <2>1. ask[q].arg \in Credentials
    BY <1>2 DEF CheckLimits, TypeOK
  <2>2. pc'[q] = "insert" => "PermissionDenied" \in BalanceOutcomes(ask[q].arg)
    BY <1>2 DEF CheckLimits, PassesLimits, Go, TypeOK
  <2>3. pc'[q] = "insert" => ask[q].arg.valid /\ ~ask[q].arg.canReadBalance
    BY <2>1, <2>2, DeniedMeansLimited
  <2>4. UNCHANGED <<keys, ask>> /\ \A p \in Requests \ {q} : pc'[p] = pc[p]
    BY <1>2 DEF CheckLimits, Go, TypeOK
  <2> QED
    BY <2>3, <2>4 DEF LimitedInv, CheckedInv, StoredKeysAreLimited, Saved
<1>3. ASSUME NEW q \in Requests, NEW k \in KeyIds, InsertKey(q, k)
      PROVE  LimitedInv'
  <2>1. CheckedInv'
    BY <1>3 DEF InsertKey, LimitedInv, CheckedInv, TypeOK, Go
  <2>2. ask[q].arg.valid /\ ~ask[q].arg.canReadBalance
    BY <1>3 DEF InsertKey, LimitedInv, CheckedInv
  <2>3. StoredKeysAreLimited'
    BY <1>3, <2>2
    DEF InsertKey, LimitedInv, StoredKeysAreLimited, Saved, TypeOK
  <2> QED
    BY <2>1, <2>3 DEF LimitedInv
<1>4. ASSUME NEW q \in Requests, DeleteKey(q)
      PROVE  LimitedInv'
  <2>1. CheckedInv'
    BY <1>4 DEF DeleteKey, LimitedInv, CheckedInv, TypeOK, Go
  <2>2. ask[q].arg \in Saved /\ keys[ask[q].arg] \in Key
    BY <1>4 DEF DeleteKey, TypeOK, Saved
  <2>3. \A k \in KeyIds :
          \/ keys'[k] = keys[k]
          \/ k = ask[q].arg /\ keys'[k].cred = keys[k].cred
    BY <1>4, <2>2 DEF DeleteKey, TypeOK, Key
  <2>4. StoredKeysAreLimited'
    BY <2>2, <2>3 DEF LimitedInv, StoredKeysAreLimited, Saved
  <2> QED
    BY <2>1, <2>4 DEF LimitedInv
<1>5. ASSUME NEW q \in Requests, ReadKeys(q) \/ Store(q) \/ Forget(q)
      PROVE  LimitedInv'
  <2>1. /\ UNCHANGED keys
        /\ \A p \in Requests \ {q} : pc'[p] = pc[p] /\ ask'[p] = ask[p]
        /\ pc'[q] # "insert"
    BY <1>5 DEF ReadKeys, Store, Forget, Go, TypeOK
  <2> QED
    BY <2>1 DEF LimitedInv, CheckedInv, StoredKeysAreLimited, Saved
<1>6. ASSUME UNCHANGED <<keys, pc, ask>>
      PROVE  LimitedInv'
  BY <1>6 DEF LimitedInv, CheckedInv, StoredKeysAreLimited, Saved
<1> QED
  BY <1>1, <1>2, <1>3, <1>4, <1>5, <1>6 DEF Next, Continue, Tick, Evict, vars

\* Only credentials that are right and cannot read balances are stored
\* (validateApiCredentials), whichever calls fail.
THEOREM OnlyLimitedKeys == Spec => []StoredKeysAreLimited
<1>1. Init => LimitedInv
  BY DEF Init, LimitedInv, CheckedInv, StoredKeysAreLimited, Saved
<1>2. LimitedInv => StoredKeysAreLimited
  BY DEF LimitedInv
<1> QED
  BY <1>1, <1>2, LimitedStays, TypeCorrect, PTL DEF Spec

-----------------------------------------------------------------------------
(* Whose keys a listing shows *)

Owned(k, u) == k \in Saved /\ keys[k].user = u

\* What lies under the cache key of a user, and what a request has read or was
\* answered with, are keys of that user.  Only a request that is about to store
\* its listing holds one it read, and only one that is done holds an answer.
ListingInv ==
  /\ \A u \in Users : cache[u] # NoEntry =>
       \A k \in cache[u].list : Owned(k, u)
  /\ ListingsAreTheUsersOwn
  /\ \A q \in Requests :
       /\ read[q] # {} => pc[q] = "store"
       /\ got[q] # {} => pc[q] = "done"

\* Keys are added and deleted, but keep their owner.
LEMMA OwnersStay ==
  ASSUME TypeOK, [Next]_vars, NEW k, NEW u, Owned(k, u)
  PROVE  Owned(k, u)'
<1>1. ASSUME NEW q \in Requests, NEW j \in KeyIds, InsertKey(q, j)
      PROVE  Owned(k, u)'
  BY <1>1 DEF InsertKey, Owned, Saved, TypeOK
<1>2. ASSUME NEW q \in Requests, DeleteKey(q)
      PROVE  Owned(k, u)'
  <2>1. keys[k] \in Key /\ k \in KeyIds
    BY DEF Owned, Saved, TypeOK
  <2>2. /\ keys'[k] \in Key /\ keys'[k].user = keys[k].user
    BY <1>2, <2>1 DEF DeleteKey, TypeOK, Key
  <2> QED
    BY <2>1, <2>2, NoneAssumption DEF Owned, Saved
<1>3. ASSUME UNCHANGED keys
      PROVE  Owned(k, u)'
  BY <1>3 DEF Owned, Saved
<1> QED
  BY <1>1, <1>2, <1>3 DEF Next, vars, Arrive, CreateKey, FindKey, Hit, Miss,
     Continue, CheckLimits, ReadKeys, Store, Forget, Tick, Evict

\* A step that leaves the listings of everybody alone, and no request that
\* holds one.
LEMMA ListingKept ==
  ASSUME TypeOK, ListingInv, [Next]_vars,
         \A u \in Users : cache'[u] # NoEntry =>
           cache[u] # NoEntry /\ cache'[u].list = cache[u].list,
         \A q \in Requests :
           /\ read'[q] \in {read[q], {}}
           /\ got'[q] \in {got[q], {}}
           /\ read'[q] # {} => pc'[q] = pc[q] /\ ask'[q] = ask[q]
           /\ got'[q] # {} => pc'[q] = pc[q] /\ ask'[q] = ask[q]
  PROVE  ListingInv'
<1>1. ASSUME NEW u \in Users, cache'[u] # NoEntry, NEW k \in cache'[u].list
      PROVE  Owned(k, u)'
  BY <1>1, OwnersStay DEF ListingInv
<1>2. ASSUME NEW q \in Requests, NEW k \in got'[q] \cup read'[q]
      PROVE  Owned(k, ask[q].user)' /\ ask'[q] = ask[q]
  BY <1>2, OwnersStay DEF ListingInv, ListingsAreTheUsersOwn, Owned
<1>3. ListingsAreTheUsersOwn'
  BY <1>2 DEF ListingsAreTheUsersOwn, Owned
<1> QED
  BY <1>1, <1>3 DEF ListingInv

LEMMA ListingStays ==
  ASSUME TypeOK, ListingInv, [Next]_vars
  PROVE  ListingInv'
<1>1. ASSUME NEW q \in Requests, Arrive(q), UNCHANGED got
      PROVE  ListingInv'
  <2>1. /\ pc[q] = "idle" /\ UNCHANGED <<cache, read>>
        /\ \A p \in Requests \ {q} : pc'[p] = pc[p] /\ ask'[p] = ask[p]
    BY <1>1 DEF Arrive, CreateKey, FindKey, Hit, Miss, Send, Go, TypeOK
  <2>2. read[q] = {} /\ got[q] = {}
    BY <2>1 DEF ListingInv
  <2> QED
    BY <1>1, <2>1, <2>2, ListingKept
<1>2. ASSUME NEW q \in Requests, NEW u \in Users, Hit(q, u)
      PROVE  ListingInv'
  <2>1. /\ pc[q] = "idle" /\ UNCHANGED <<cache, keys, read>>
        /\ cache[u] # NoEntry
        /\ got' = [got EXCEPT ![q] = cache[u].list]
        /\ pc'[q] = "done" /\ ask'[q].user = u
        /\ \A p \in Requests \ {q} : pc'[p] = pc[p] /\ ask'[p] = ask[p]
    BY <1>2 DEF Hit, CacheKey, Send, Go, TypeOK
  <2>2. read[q] = {}
    BY <2>1 DEF ListingInv
  <2>3. ListingsAreTheUsersOwn'
    BY <2>1, <2>2 DEF ListingInv, ListingsAreTheUsersOwn, Owned, Saved, TypeOK
  <2> QED
    BY <2>1, <2>2, <2>3 DEF ListingInv, Owned, Saved, TypeOK
<1>3. ASSUME NEW q \in Requests, ReadKeys(q)
      PROVE  ListingInv'
  <2>1. /\ pc[q] = "read" /\ UNCHANGED <<cache, keys, ask, got>>
        /\ read' = [read EXCEPT ![q] = Listing(ask[q].user)]
        /\ pc' = [pc EXCEPT ![q] = "store"]
    BY <1>3 DEF ReadKeys, Go
  <2>2. got[q] = {}
    BY <2>1 DEF ListingInv
  <2>3. ListingsAreTheUsersOwn'
    BY <2>1, <2>2, ListingsHold
    DEF ListingInv, ListingsAreTheUsersOwn, Saved, TypeOK
  <2> QED
    BY <2>1, <2>2, <2>3 DEF ListingInv, Owned, Saved, TypeOK
<1>4. ASSUME NEW q \in Requests, Store(q)
      PROVE  ListingInv'
  <2> DEFINE u == ask[q].user
  <2>1. /\ pc[q] = "store" /\ UNCHANGED <<keys, ask>>
        /\ cache' = [cache EXCEPT ![u] = [list |-> read[q], life |-> Ttl]]
        /\ got' = [got EXCEPT ![q] = read[q]]
        /\ read' = [read EXCEPT ![q] = {}]
        /\ pc' = [pc EXCEPT ![q] = "done"]
    BY <1>4 DEF Store, Go, CacheKey
  <2>2. \A k \in read[q] : Owned(k, u)
    BY DEF ListingInv, ListingsAreTheUsersOwn, Owned
  <2>3. ListingsAreTheUsersOwn'
    BY <2>1, <2>2 DEF ListingInv, ListingsAreTheUsersOwn, Owned, Saved, TypeOK
  <2>4. ASSUME NEW v \in Users, cache'[v] # NoEntry, NEW k \in cache'[v].list
        PROVE  Owned(k, v)'
    BY <2>1, <2>2, <2>4 DEF ListingInv, Owned, Saved, TypeOK
  <2>5. \A p \in Requests : /\ read'[p] # {} => pc'[p] = "store"
                            /\ got'[p] # {} => pc'[p] = "done"
    BY <2>1 DEF ListingInv, TypeOK
  <2> QED
    BY <2>3, <2>4, <2>5 DEF ListingInv
<1>5. ASSUME NEW q \in Requests, Forget(q)
      PROVE  ListingInv'
  <2>1. /\ pc[q] \in {"done", "refused"} /\ UNCHANGED <<cache, read>>
        /\ got' = [got EXCEPT ![q] = {}]
        /\ \A p \in Requests \ {q} : pc'[p] = pc[p] /\ ask'[p] = ask[p]
    BY <1>5 DEF Forget, Go, TypeOK
  <2>2. read[q] = {}
    BY <2>1 DEF ListingInv
  <2> QED
    BY <2>1, <2>2, ListingKept DEF TypeOK
<1>6. ASSUME NEW q \in Requests,
             CheckLimits(q) \/ (\E k \in KeyIds : InsertKey(q, k)) \/ DeleteKey(q)
      PROVE  ListingInv'
  <2>1. /\ pc[q] \in {"limits", "insert", "delete"}
        /\ UNCHANGED <<cache, ask, read, got>>
        /\ \A p \in Requests \ {q} : pc'[p] = pc[p]
    BY <1>6 DEF CheckLimits, InsertKey, DeleteKey, Go, TypeOK
  <2>2. read[q] = {} /\ got[q] = {}
    BY <2>1 DEF ListingInv
  <2> QED
    BY <2>1, <2>2, ListingKept
<1>7. CASE Tick
  <2>1. UNCHANGED <<pc, ask, read, got>>
    BY <1>7 DEF Tick
  <2>2. \A u \in Users : cache'[u] # NoEntry =>
          cache[u] # NoEntry /\ cache'[u].list = cache[u].list
    BY <1>7 DEF Tick, TypeOK, Entry
  <2> QED
    BY <2>1, <2>2, ListingKept
<1>8. ASSUME NEW v \in Users, Evict(v)
      PROVE  ListingInv'
  BY <1>8, ListingKept DEF Evict, TypeOK
<1>9. CASE UNCHANGED vars
  BY <1>9, ListingKept DEF vars
<1>10. ASSUME NEW q \in Requests, Arrive(q)
       PROVE  UNCHANGED got \/ \E u \in Users : Hit(q, u)
  BY <1>10 DEF Arrive, CreateKey, FindKey, Miss
<1> QED
  BY <1>1, <1>2, <1>3, <1>4, <1>5, <1>6, <1>7, <1>8, <1>9, <1>10
  DEF Next, Continue

\* A listing shows the keys of the user who asked for it and of nobody else,
\* served from the cache or not.
THEOREM ListingsStayPrivate == Spec => []ListingsAreTheUsersOwn
<1>1. Init => ListingInv
  BY DEF Init, ListingInv, ListingsAreTheUsersOwn
<1>2. ListingInv => ListingsAreTheUsersOwn
  BY DEF ListingInv
<1> QED
  BY <1>1, <1>2, ListingStays, TypeCorrect, PTL DEF Spec
=============================================================================
