----------------------------- MODULE AccessKeys -----------------------------
(***************************************************************************)
(* The access keys of the users (POST, DELETE and GET /access-key): the    *)
(* checks a key has to pass, the soft deletion, and the cached listing.    *)
(*                                                                         *)
(* A handler gives way at every await: after each call to the exchange, to *)
(* the database and to the cache.  Listings are read and stored in the     *)
(* cache under the user's own cache key by PVCacheInterceptor; creating    *)
(* and deleting keys leave the cache alone.                                *)
(***************************************************************************)
EXTENDS Naturals, FiniteSets

CONSTANTS
  Users, Requests, KeyIds,
  Credentials,    \* [exchange, valid : BOOLEAN, canReadBalance : BOOLEAN]
  Ttl,            \* CACHE_TTL, in ticks
  NoKey, NoRequest, NoEntry

ASSUME TtlAssumption == Ttl \in Nat \ {0}
ASSUME CredentialsAssumption ==
  Credentials \subseteq [exchange : {"KRAKEN", "BINANCE", "BITSTAMP"},
                         valid : BOOLEAN, canReadBalance : BOOLEAN]

VARIABLES
  keys,     \* table access_key
  cache,    \* for every user: the cached listing and what is left of its life
  pc,       \* where each request is
  ask,      \* what it asks
  read,     \* the listing it read from the database, and has yet to store
  got,      \* the listing it was answered with
  known     \* history: the user's keys that were deleted when it was sent

vars == <<keys, cache, pc, ask, read, got, known>>

Key == [user : Users, cred : Credentials, isDeleted : BOOLEAN]
Entry == [list : SUBSET KeyIds, life : 1 .. Ttl]
Request ==
  [method : {"POST"}, user : Users, arg : Credentials]
    \cup [method : {"DELETE"}, user : Users, arg : KeyIds]
    \cup [method : {"GET"}, user : Users, arg : {""}]

ASSUME NoneAssumption ==
  NoKey \notin Key /\ NoEntry \notin Entry /\ NoRequest \notin Request

Saved == {k \in KeyIds : keys[k] # NoKey}

\* Mutant: deleted keys too.
ListingAll(u) == {k \in Saved : keys[k].user = u}

\* where userId and isDeleted: false
Listing(u) == {k \in Saved : keys[k].user = u /\ ~keys[k].isDeleted}

Send(q, method, u, arg) ==
  /\ pc[q] = "idle"
  /\ ask' = [ask EXCEPT ![q] = [method |-> method, user |-> u, arg |-> arg]]
  /\ known' = [known EXCEPT
       ![q] = {k \in Saved : keys[k].user = u /\ keys[k].isDeleted}]

Go(q, step) == pc' = [pc EXCEPT ![q] = step]

-----------------------------------------------------------------------------
(* Creating a key *)

\* What a call with the credentials may end in (external): the exchange says
\* what they allow, or the call fails.
Failing == {"NetworkError"}
StatusOutcomes(c) ==
  Failing \cup CASE c.exchange = "BINANCE" -> {"ok"}   \* a public endpoint
                 [] c.valid                -> {"ok", "PermissionDenied"}
                 [] OTHER                  -> {"AuthenticationError"}
BalanceOutcomes(c) ==
  Failing \cup CASE ~c.valid           -> {"AuthenticationError"}
                 [] c.canReadBalance   -> {"ok"}
                 [] OTHER              -> {"PermissionDenied"}

\* validateCredentials and validateCredentialLimitations let the key through.
PassesStatus(c, outcome) == outcome = "ok"
PassesAnyFailure(c, outcome) == outcome # "ok"   \* mutant: any failure will do
PassesLimits(c, outcome) == outcome = "PermissionDenied"

CreateKey(q, u, c) ==
  /\ Send(q, "POST", u, c)
  /\ \E outcome \in StatusOutcomes(c) :
       Go(q, IF PassesStatus(c, outcome) THEN "limits" ELSE "refused")
  /\ UNCHANGED <<keys, cache, read, got>>

CheckLimits(q) ==
  /\ pc[q] = "limits"
  /\ \E outcome \in BalanceOutcomes(ask[q].arg) :
       Go(q, IF PassesLimits(ask[q].arg, outcome) THEN "insert" ELSE "refused")
  /\ UNCHANGED <<keys, cache, ask, read, got, known>>

InsertKey(q, k) ==
  /\ pc[q] = "insert"
  /\ keys[k] = NoKey
  /\ keys' = [keys EXCEPT ![k] = [user |-> ask[q].user, cred |-> ask[q].arg,
                                  isDeleted |-> FALSE]]
  /\ Go(q, "done")
  /\ UNCHANGED <<cache, ask, read, got, known>>

-----------------------------------------------------------------------------
(* Deleting a key *)

FindKey(q, u, k) ==
  /\ Send(q, "DELETE", u, k)
  /\ Go(q, IF k \in Listing(u) THEN "delete" ELSE "refused")
  /\ UNCHANGED <<keys, cache, read, got>>

\* Another request may have deleted it since: both are told it succeeded.
DeleteKey(q) ==
  /\ pc[q] = "delete"
  /\ keys' = [keys EXCEPT ![ask[q].arg].isDeleted = TRUE]
  /\ Go(q, "done")
  /\ UNCHANGED <<cache, ask, read, got, known>>

-----------------------------------------------------------------------------
(* Listing the keys through the cache *)

\* user-{id}:{url}
CacheKeyOfUrl(u) == CHOOSE x \in Users : TRUE   \* mutant: the url alone
CacheKey(u) == u

\* Mutant: an entry that is served starts a new life.
HitRenewing(q, u) ==
  /\ Send(q, "GET", u, "")
  /\ cache[CacheKey(u)] # NoEntry
  /\ got' = [got EXCEPT ![q] = cache[CacheKey(u)].list]
  /\ cache' = [cache EXCEPT ![CacheKey(u)].life = Ttl]
  /\ Go(q, "done")
  /\ UNCHANGED <<keys, read>>

Hit(q, u) ==
  /\ Send(q, "GET", u, "")
  /\ cache[CacheKey(u)] # NoEntry
  /\ got' = [got EXCEPT ![q] = cache[CacheKey(u)].list]
  /\ Go(q, "done")
  /\ UNCHANGED <<keys, cache, read>>

Miss(q, u) ==
  /\ Send(q, "GET", u, "")
  /\ cache[CacheKey(u)] = NoEntry
  /\ Go(q, "read")
  /\ UNCHANGED <<keys, cache, read, got>>

ReadKeys(q) ==
  /\ pc[q] = "read"
  /\ read' = [read EXCEPT ![q] = Listing(ask[q].user)]
  /\ Go(q, "store")
  /\ UNCHANGED <<keys, cache, ask, got, known>>

Store(q) ==
  /\ pc[q] = "store"
  /\ cache' = [cache EXCEPT
       ![CacheKey(ask[q].user)] = [list |-> read[q], life |-> Ttl]]
  /\ got' = [got EXCEPT ![q] = read[q]]
  /\ read' = [read EXCEPT ![q] = {}]
  /\ Go(q, "done")
  /\ UNCHANGED <<keys, ask, known>>

\* Mutant: entries live a tick too long.
TickOnePast ==
  /\ cache' = [u \in Users |->
       IF cache[u] = NoEntry \/ cache[u].life = 0 THEN NoEntry
       ELSE [cache[u] EXCEPT !.life = @ - 1]]
  /\ UNCHANGED <<keys, pc, ask, read, got, known>>

\* Entries live Ttl ticks from the moment they are stored ...
Tick ==
  /\ cache' = [u \in Users |->
       IF cache[u] = NoEntry \/ cache[u].life = 1 THEN NoEntry
       ELSE [cache[u] EXCEPT !.life = @ - 1]]
  /\ UNCHANGED <<keys, pc, ask, read, got, known>>

\* ... or less, when a store evicts or loses them (external).
Evict(u) ==
  /\ cache[u] # NoEntry
  /\ cache' = [cache EXCEPT ![u] = NoEntry]
  /\ UNCHANGED <<keys, pc, ask, read, got, known>>

-----------------------------------------------------------------------------

\* The client is through with the answer; the slot serves another request.
Forget(q) ==
  /\ pc[q] \in {"done", "refused"}
  /\ Go(q, "idle")
  /\ ask' = [ask EXCEPT ![q] = NoRequest]
  /\ got' = [got EXCEPT ![q] = {}]
  /\ known' = [known EXCEPT ![q] = {}]
  /\ UNCHANGED <<keys, cache, read>>

Init ==
  /\ keys = [k \in KeyIds |-> NoKey]
  /\ cache = [u \in Users |-> NoEntry]
  /\ pc = [q \in Requests |-> "idle"]
  /\ ask = [q \in Requests |-> NoRequest]
  /\ read = [q \in Requests |-> {}]
  /\ got = [q \in Requests |-> {}]
  /\ known = [q \in Requests |-> {}]

Arrive(q) ==
  \E u \in Users :
    \/ \E c \in Credentials : CreateKey(q, u, c)
    \/ \E k \in KeyIds : FindKey(q, u, k)
    \/ Hit(q, u)
    \/ Miss(q, u)

Continue(q) ==
  \/ CheckLimits(q)
  \/ \E k \in KeyIds : InsertKey(q, k)
  \/ DeleteKey(q)
  \/ ReadKeys(q)
  \/ Store(q)
  \/ Forget(q)

Next ==
  \/ \E q \in Requests : Arrive(q) \/ Continue(q)
  \/ Tick
  \/ \E u \in Users : Evict(u)

Spec == Init /\ [][Next]_vars

\* Calls are answered or time out, the event loop runs what follows them, and
\* time passes.  Nobody has to send a request or to evict an entry.
FairSpec == Spec /\ WF_vars(Tick) /\ \A q \in Requests : WF_vars(Continue(q))

-----------------------------------------------------------------------------
(* Properties *)

TypeOK ==
  /\ keys \in [KeyIds -> Key \cup {NoKey}]
  /\ cache \in [Users -> Entry \cup {NoEntry}]
  /\ pc \in [Requests -> {"idle", "limits", "insert", "delete", "read",
                          "store", "done", "refused"}]
  /\ ask \in [Requests -> Request \cup {NoRequest}]
  /\ \A q \in Requests :
       /\ (ask[q] = NoRequest) = (pc[q] = "idle")
       /\ pc[q] \in {"limits", "insert"} => ask[q].arg \in Credentials
       /\ pc[q] = "delete" => ask[q].arg \in Saved
  /\ read \in [Requests -> SUBSET KeyIds]
  /\ got \in [Requests -> SUBSET KeyIds]
  /\ known \in [Requests -> SUBSET KeyIds]

\* Only credentials that are right and cannot read balances are stored,
\* whichever call to whichever exchange fails (validateApiCredentials).
StoredKeysAreLimited ==
  \A k \in Saved : keys[k].cred.valid /\ ~keys[k].cred.canReadBalance

\* A listing shows the keys of the user who asked for it and of nobody else,
\* also when it was cached for an earlier request or two requests of different
\* users fill the cache at once.
ListingsAreTheUsersOwn ==
  \A q \in Requests : \A k \in got[q] \cup read[q] :
    k \in Saved /\ keys[k].user = ask[q].user

\* Staleness ends: from some time after its deletion on, no listing shows a
\* key, although a request that read the table before the deletion may store
\* its listing long after it.
DeletionShows ==
  \A k \in KeyIds :
    (keys[k] # NoKey /\ keys[k].isDeleted)
      ~> [](\A q \in Requests : k \notin got[q])

\* app.e2e-spec.ts 180-190: a listing asked for after a deletion was answered
\* does not count the key.
ListingFollowsDeletion == \A q \in Requests : got[q] \cap known[q] = {}
=============================================================================
