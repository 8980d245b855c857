-------------------------------- MODULE Auth --------------------------------
(***************************************************************************)
(* Accounts and what stands before every other handler: signing up and in, *)
(* by token or (the older routes) by session, the guard that turns a       *)
(* token into an account, and the routes that show users.  Requests give   *)
(* way at every await: hashing, checking and signing run outside the event *)
(* loop, rows are read and written by the database.  Meanwhile whoever     *)
(* operates the database promotes, demotes and deletes accounts.           *)
(*                                                                         *)
(* A client is a person; their password is known to nobody else, so that   *)
(* it stands for them.  A hash is the password it was made of.             *)
(***************************************************************************)
EXTENDS Naturals

CONSTANTS
  Clients, Emails, Ids, Requests,
  NoUser, NoToken, NoRequest,
  OperatorBound    \* how many accounts are promoted, demoted or deleted

ASSUME OperatorAssumption == OperatorBound \in Nat

VARIABLES
  rows,       \* table user; ids come from a sequence and are not used twice
  gone,       \* the ids whose row was deleted
  token,      \* the token each client was given last, while it has not expired
  pc,         \* where each request is, or its answer
  ask,        \* what it asks
  read,       \* the account it found: its id, and its role at that moment
  got,        \* the users it was shown
  operated,
  seen        \* history: see Granted

vars == <<rows, gone, token, pc, ask, read, got, operated, seen>>

Existing == {i \in Ids : rows[i] # NoUser} \ gone

HasEmail(e) == {i \in Existing : rows[i].email = e}

-----------------------------------------------------------------------------
(* Types *)

Roles == {"USER", "ADMIN"}
Row == [email : Emails, hash : Clients, role : Roles,
        userSettings : SUBSET {"BASE_CURRENCY"}]
Token == [sub : Ids, email : Emails, role : Roles]

SignRoutes == {"signup", "signin", "signup-session", "signin-session"}
AdminRoutes == {"all", "admin/:id"}
UserRoutes == AdminRoutes \cup {"me", ":id"}

PublicFields == {"id", "firstName", "lastName", "role"}
PrivateFields == {"email", "userSettings"}
View == [id : Ids, fields : SUBSET (PublicFields \cup PrivateFields)]

SignRequest == [route : SignRoutes, client : Clients, email : Emails]
UserRequest == [route : UserRoutes, client : Clients,
                token : Token \cup {NoToken}, target : Ids \cup {NoUser}]

ASSUME NoneAssumption ==
  /\ NoUser \notin Ids \cup Row \cup [id : Ids, role : Roles]
  /\ NoToken \notin Token

InFlight == {"create", "verify", "sign", "handler"}
Yes == {"200", "201"}
No == {"400", "401", "403"}
Answers == Yes \cup No

\* What a request asks, were the database to answer it in one instant.
Granted(q) ==
  LET a == ask[q] IN
  CASE a.route \in {"signup", "signup-session"} -> HasEmail(a.email) = {}
    [] a.route \in {"signin", "signin-session"} ->
         \E i \in HasEmail(a.email) : rows[i].hash = a.client
    [] OTHER -> /\ a.token # NoToken
                /\ a.token.sub \in Existing
                /\ a.route \in AdminRoutes => rows[a.token.sub].role = "ADMIN"

TypeOK ==
  /\ rows \in [Ids -> Row \cup {NoUser}]
  /\ gone \subseteq {i \in Ids : rows[i] # NoUser}
  /\ token \in [Clients -> Token \cup {NoToken}]
  /\ pc \in [Requests -> {"idle"} \cup InFlight \cup Answers]
  /\ ask \in [Requests -> SignRequest \cup UserRequest \cup {NoRequest}]
  /\ \A q \in Requests :
       /\ pc[q] # "idle" => ask[q] \in SignRequest \cup UserRequest
       /\ pc[q] \in {"create", "verify", "sign"} => ask[q] \in SignRequest
       /\ pc[q] = "handler" => ask[q] \in UserRequest
  /\ read \in [Requests -> [id : Ids, role : Roles] \cup {NoUser}]
  /\ \A q \in Requests :
       pc[q] \in {"verify", "sign", "handler"} => read[q] # NoUser
  /\ got \in [Requests -> SUBSET View]
  /\ operated \in 0 .. OperatorBound
  /\ seen \in [Requests -> SUBSET BOOLEAN]

Init ==
  /\ rows = [i \in Ids |-> NoUser]
  /\ gone = {}
  /\ token = [c \in Clients |-> NoToken]
  /\ pc = [q \in Requests |-> "idle"]
  /\ ask = [q \in Requests |-> NoRequest]
  /\ read = [q \in Requests |-> NoUser]
  /\ got = [q \in Requests |-> {}]
  /\ operated = 0
  /\ seen = [q \in Requests |-> {}]

Send(q, request) ==
  /\ pc[q] = "idle"
  /\ ask' = [ask EXCEPT ![q] = request]

Go(q, step) == pc' = [pc EXCEPT ![q] = step]

\* Mutant: the row is not kept.
RememberNothing(q, i) == read' = [read EXCEPT ![q] = NoUser]
\* The request keeps the row it found.
Remember(q, i) == read' = [read EXCEPT ![q] = [id |-> i, role |-> rows[i].role]]
Release(q) == read' = [read EXCEPT ![q] = NoUser]

\* The request is over; its slot serves another.
Free(q) ==
  /\ Go(q, "idle")
  /\ ask' = [ask EXCEPT ![q] = NoRequest]
  /\ Release(q)
  /\ got' = [got EXCEPT ![q] = {}]

-----------------------------------------------------------------------------
(* Signing up *)

\* jwtSignup hashes the password; it does not look for the email first.
JwtSignup(q, c, e) ==
  /\ Send(q, [route |-> "signup", client |-> c, email |-> e])
  /\ Go(q, "create")
  /\ UNCHANGED <<rows, gone, token, read, got, operated>>

\* signup counts the accounts of the email, and hashes if there is none.
Signup(q, c, e) ==
  /\ Send(q, [route |-> "signup-session", client |-> c, email |-> e])
  /\ Go(q, IF HasEmail(e) = {} THEN "create" ELSE "403")
  /\ UNCHANGED <<rows, gone, token, read, got, operated>>

\* Mutant: the unique index is gone.
EmailTakenUnchecked(e) == FALSE
\* User.email is unique.
EmailTaken(e) == HasEmail(e) # {}

\* P2002, which the exception filter turns into 400.
CreateRefused(q) ==
  /\ pc[q] = "create"
  /\ EmailTaken(ask[q].email)
  /\ Go(q, "400")
  /\ UNCHANGED <<rows, gone, token, ask, read, got, operated>>

Insert(q, i, settings) ==
  /\ ~EmailTaken(ask[q].email)
  /\ rows[i] = NoUser
  /\ rows' = [rows EXCEPT ![i] =
       [email |-> ask[q].email, hash |-> ask[q].client, role |-> "USER",
        userSettings |-> settings]]

\* createUser: the account and its settings in one nested create.
CreateUser(q, i) ==
  /\ pc[q] = "create" /\ ask[q].route = "signup"
  /\ Insert(q, i, {"BASE_CURRENCY"})
  /\ read' = [read EXCEPT ![q] = [id |-> i, role |-> "USER"]]
  /\ Go(q, "sign")
  /\ UNCHANGED <<gone, token, ask, got, operated>>

\* signup creates the account alone.  With that done the request fails: no
\* middleware has given it a session, and the exception filter has no status
\* for a TypeError.
CreateSessionUser(q, i) ==
  /\ pc[q] = "create" /\ ask[q].route = "signup-session"
  /\ Insert(q, i, {})
  /\ Free(q)
  /\ UNCHANGED <<gone, token, operated>>

-----------------------------------------------------------------------------
(* Signing in *)

FindUser(q, c, e, route) ==
  /\ Send(q, [route |-> route, client |-> c, email |-> e])
  /\ \/ \E i \in HasEmail(e) : Remember(q, i) /\ Go(q, "verify")
     \/ HasEmail(e) = {} /\ Go(q, "403") /\ UNCHANGED read
  /\ UNCHANGED <<rows, gone, token, got, operated>>

\* Mutant: the password is not looked at.
PasswordMatchesAny(q) == TRUE
\* argon.verify, against the hash of the row that was read.
PasswordMatches(q) == rows[read[q].id].hash = ask[q].client

Verify(q) ==
  /\ pc[q] = "verify"
  /\ PasswordMatches(q)
  /\ ask[q].route = "signin"
  /\ Go(q, "sign")
  /\ UNCHANGED <<rows, gone, token, ask, read, got, operated>>

VerifyFails(q) ==
  /\ pc[q] = "verify"
  /\ ~PasswordMatches(q)
  /\ Go(q, "403")
  /\ Release(q)
  /\ UNCHANGED <<rows, gone, token, ask, got, operated>>

\* The session route fails as that of sign-up does.
VerifySession(q) ==
  /\ pc[q] = "verify"
  /\ PasswordMatches(q)
  /\ ask[q].route = "signin-session"
  /\ Free(q)
  /\ UNCHANGED <<rows, gone, token, operated>>

\* Signed without another look at the table: the role is the one that was read,
\* and the account may be gone.
signJwtToken(q) ==
  /\ pc[q] = "sign"
  /\ token' = [token EXCEPT ![ask[q].client] =
       [sub |-> read[q].id, email |-> ask[q].email, role |-> read[q].role]]
  /\ Release(q)
  /\ Go(q, "201")
  /\ UNCHANGED <<rows, gone, ask, got, operated>>

-----------------------------------------------------------------------------
(* The guard *)

\* Mutant: the account is looked up by the email of the token.
ValidateByEmail(t) ==
  IF HasEmail(t.email) = {} THEN t.sub ELSE CHOOSE i \in HasEmail(t.email) : TRUE
\* JwtStrategy.validate: the account is looked up by the sub of the token.
validate(t) == t.sub

\* Mutant: the role the token was signed with.
RoleSigned(t) == t.role
\* request.user.role, of the row validate found.
RoleOf(t) == rows[validate(t)].role

Admitted(t, route) ==
  /\ t # NoToken
  /\ validate(t) \in Existing
  /\ route \in AdminRoutes => RoleOf(t) = "ADMIN"

\* The handler runs after the guard's await.
canActivate(q, c, t, route, target) ==
  /\ Send(q, [route |-> route, client |-> c, token |-> t, target |-> target])
  /\ \/ Admitted(t, route) /\ Go(q, "handler") /\ Remember(q, validate(t))
     \/ ~Admitted(t, route) /\ Go(q, "401") /\ UNCHANGED read
  /\ UNCHANGED <<rows, gone, token, got, operated>>

-----------------------------------------------------------------------------
(* Showing users *)

serializeUser(i, level) ==
  [id |-> i,
   fields |-> IF level = "PRIVATE" THEN PublicFields \cup PrivateFields
                                   ELSE PublicFields]

\* Mutant: every user is serialized as for themselves.
LevelAlwaysPrivate(route) == "PRIVATE"
\* Which of the serializers the service of a route calls.
Level(route) == IF route \in {"me", "admin/:id"} THEN "PRIVATE" ELSE "PUBLIC"

\* Whom a route shows; a user who is gone is shown as null.
Subjects(q) ==
  CASE ask[q].route = "all" -> Existing
    [] ask[q].route = "me"  -> {read[q].id} \cap Existing
    [] OTHER                -> {ask[q].target} \cap Existing

Handle(q) ==
  /\ pc[q] = "handler"
  /\ got' = [got EXCEPT ![q] =
       {serializeUser(i, Level(ask[q].route)) : i \in Subjects(q)}]
  /\ Go(q, "200")
  /\ UNCHANGED <<rows, gone, token, ask, read, operated>>

-----------------------------------------------------------------------------
(* Failures, and what happens outside the program (external) *)

\* A call fails, or the process stops: nothing is undone, an account that was
\* created stays.
CallFails(q) ==
  /\ pc[q] \in InFlight
  /\ Free(q)
  /\ UNCHANGED <<rows, gone, token, operated>>

\* The client is through with the answer.
Forget(q) ==
  /\ pc[q] \in Answers
  /\ Free(q)
  /\ UNCHANGED <<rows, gone, token, operated>>

\* JWT_EXPIRES_IN has passed: the guard refuses the token like a missing one.
Expire(c) ==
  /\ token[c] # NoToken
  /\ token' = [token EXCEPT ![c] = NoToken]
  /\ UNCHANGED <<rows, gone, pc, ask, read, got, operated>>

Operate ==
  /\ operated < OperatorBound
  /\ operated' = operated + 1
  /\ UNCHANGED <<token, pc, ask, read, got>>

SetRole(i, role) ==
  /\ Operate
  /\ rows[i].role # role
  /\ rows' = [rows EXCEPT ![i].role = role]
  /\ UNCHANGED gone

DeleteUser(i) ==
  /\ Operate
  /\ gone' = gone \cup {i}
  /\ UNCHANGED rows

-----------------------------------------------------------------------------

Arrive(q) ==
  \E c \in Clients :
    \/ \E e \in Emails :
         \/ JwtSignup(q, c, e)
         \/ Signup(q, c, e)
         \/ \E route \in {"signin", "signin-session"} : FindUser(q, c, e, route)
    \/ \E t \in {token[c], NoToken}, route \in UserRoutes :
         \/ route \in {"me", "all"} /\ canActivate(q, c, t, route, NoUser)
         \/ /\ route \in {":id", "admin/:id"}
            /\ \E i \in Ids : canActivate(q, c, t, route, i)

Continue(q) ==
  \/ CreateRefused(q)
  \/ \E i \in Ids : CreateUser(q, i) \/ CreateSessionUser(q, i)
  \/ Verify(q)
  \/ VerifyFails(q)
  \/ VerifySession(q)
  \/ signJwtToken(q)
  \/ Handle(q)

Step ==
  \/ \E q \in Requests : Arrive(q) \/ Continue(q) \/ CallFails(q) \/ Forget(q)
  \/ \E c \in Clients : Expire(c)
  \/ \E i \in Existing : DeleteUser(i) \/ \E role \in Roles : SetRole(i, role)

\* seen[q]: whether Granted(q) was true, and whether it was false, at some time
\* since q was sent and before it was answered.
Witness ==
  seen' = [q \in Requests |->
    CASE pc'[q] = "idle"     -> {}
      [] pc[q] \in Answers   -> seen[q]
      [] OTHER               -> seen[q] \cup {Granted(q)'}]

Next == Step /\ Witness

Spec == Init /\ [][Next]_vars

-----------------------------------------------------------------------------
(* Properties *)

\* An email has one account, although signup counts and creates in two steps
\* and jwtSignup does not count at all, and accounts are deleted and created
\* again in between (auth.service.ts 29-49, 119-125).
OneAccountPerEmail == \A e \in Emails : \A i, j \in HasEmail(e) : i = j

\* Every answer was true at some time while the request was under way: a
\* sign-up is refused only if the email was taken and succeeds only if it was
\* free, a sign-in follows the account of the email, and a token opens what
\* its account could see then.  Rows read before an await, the role in a token
\* and tokens of accounts that have changed or are gone could all break it.
AnswersWereTrue ==
  \A q \in Requests :
    /\ pc[q] \in Yes => TRUE \in seen[q]
    /\ pc[q] \in No  => FALSE \in seen[q]

\* Nobody acts for an account they did not create, not even after their own
\* account was deleted and another client signed up with its email while they
\* still have their token (jwt.strategy.ts 20-25).
NobodyActsForAnother ==
  /\ \A q \in Requests :
       pc[q] \in {"handler", "200"} => rows[read[q].id].hash = ask[q].client
  /\ \A c \in Clients : token[c] # NoToken => rows[token[c].sub].hash = c

\* The email and the settings of an account are shown to the client who
\* created it and on the admin routes, of which AnswersWereTrue speaks, and to
\* nobody else (user.service.ts 43-114).
PrivateFieldsStayPrivate ==
  \A q \in Requests : \A v \in got[q] :
    v.fields \cap PrivateFields # {} =>
      rows[v.id].hash = ask[q].client \/ ask[q].route \in AdminRoutes
=============================================================================
