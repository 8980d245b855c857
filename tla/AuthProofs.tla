----------------------------- MODULE AuthProofs -----------------------------
(***************************************************************************)
(* Theorems about Auth for every number of clients, emails, accounts and   *)
(* requests, and however often the operator of the database acts.          *)
(***************************************************************************)
EXTENDS Auth, TLAPS

-----------------------------------------------------------------------------
(* Type correctness *)

\* What Witness adds is a Boolean.
LEMMA WitnessType ==
  ASSUME TypeOK, Witness
  PROVE  seen' \in [Requests -> SUBSET BOOLEAN]
<1>1. \A q \in Requests : Granted(q)' \in BOOLEAN
  BY DEF Granted
<1>2. ASSUME NEW q \in Requests
      PROVE  (CASE pc'[q] = "idle"   -> {}
                [] pc[q] \in Answers -> seen[q]
                [] OTHER             -> seen[q] \cup {Granted(q)'})
               \in SUBSET BOOLEAN
  BY <1>1 DEF TypeOK
<1> QED
  BY <1>2 DEF Witness

\* TypeOK but for the history.
StateOK ==
  /\ rows \in [Ids -> Row \cup {NoUser}]
  /\ gone \subseteq {i \in Ids : rows[i] # NoUser}
  /\ token \in [Clients -> Token \cup {NoToken}]
  /\ pc \in [Requests -> {"idle"} \cup InFlight \cup Answers]
  /\ ask \in [Requests -> SignRequest \cup UserRequest \cup {NoRequest}]
  /\ \A q \in Requests :
       /\ pc[q] # "idle" => ask[q] \in SignRequest \cup UserRequest
       /\ pc[q] \in {"create", "verify", "sign"} => ask[q] \in SignRequest
       /\ pc[q] = "handler" => ask[q] \in UserRequest
  /\ read \in [Requests -> [id : Ids, role : Roles] \cup {NoUser}]
  /\ \A q \in Requests :
       pc[q] \in {"verify", "sign", "handler"} => read[q] # NoUser
  /\ got \in [Requests -> SUBSET View]
  /\ operated \in 0 .. OperatorBound

LEMMA InitType == Init => TypeOK
  BY OperatorAssumption DEF Init, TypeOK, InFlight, Answers, Yes, No

\* A request that is freed.
LEMMA FreeType ==
  ASSUME StateOK, NEW q \in Requests, Free(q),
         UNCHANGED <<rows, gone, token, operated>>
  PROVE  StateOK'
  BY DEF StateOK, Free, Go, Release, InFlight, Answers

LEMMA SignUpType ==
  ASSUME StateOK, NEW q \in Requests, NEW c \in Clients, NEW e \in Emails,
         JwtSignup(q, c, e) \/ Signup(q, c, e)
  PROVE  StateOK'
<1>1. /\ [route |-> "signup", client |-> c, email |-> e] \in SignRequest
      /\ [route |-> "signup-session", client |-> c, email |-> e] \in SignRequest
  BY DEF SignRequest, SignRoutes
<1>2. CASE JwtSignup(q, c, e)
  BY <1>1, <1>2 DEF StateOK, JwtSignup, Send, Go, InFlight
<1>3. CASE Signup(q, c, e)
  BY <1>1, <1>3 DEF StateOK, Signup, Send, Go, InFlight, Answers, No
<1> QED
  BY <1>2, <1>3

LEMMA FindUserType ==
  ASSUME StateOK, NEW q \in Requests, NEW c \in Clients, NEW e \in Emails,
         NEW route \in {"signin", "signin-session"}, FindUser(q, c, e, route)
  PROVE  StateOK'
<1> DEFINE request == [route |-> route, client |-> c, email |-> e]
<1>1. request \in SignRequest
  BY DEF SignRequest, SignRoutes
<1>2. ask' = [ask EXCEPT ![q] = request] /\ pc[q] = "idle"
      /\ UNCHANGED <<rows, gone, token, got, operated>>
  BY DEF FindUser, Send
<1> HIDE DEF request
<1>3. ASSUME NEW i \in HasEmail(e), Remember(q, i), Go(q, "verify")
      PROVE  StateOK'
  <2>1. i \in Ids /\ rows[i] \in Row
    BY DEF StateOK, HasEmail, Existing
  <2>2. [id |-> i, role |-> rows[i].role] \in [id : Ids, role : Roles]
    BY <2>1 DEF Row
  <2> QED
    BY <1>1, <1>2, <1>3, <2>2, NoneAssumption
    DEF StateOK, Remember, Go, InFlight
<1>4. CASE Go(q, "403") /\ UNCHANGED read
  BY <1>1, <1>2, <1>4 DEF StateOK, Go, Answers, No
<1> QED
  BY <1>3, <1>4 DEF FindUser

LEMMA GuardType ==
  ASSUME StateOK, NEW q \in Requests, NEW c \in Clients,
         NEW t \in {token[c], NoToken}, NEW route \in UserRoutes,
         NEW target \in Ids \cup {NoUser}, canActivate(q, c, t, route, target)
  PROVE  StateOK'
<1> DEFINE request == [route |-> route, client |-> c, token |-> t,
                       target |-> target]
<1>1. request \in UserRequest
  BY DEF UserRequest, StateOK
<1>2. ask' = [ask EXCEPT ![q] = request] /\ pc[q] = "idle"
      /\ UNCHANGED <<rows, gone, token, got, operated>>
  BY DEF canActivate, Send
<1> HIDE DEF request
<1>3. CASE Admitted(t, route) /\ Go(q, "handler") /\ Remember(q, validate(t))
  <2>1. validate(t) \in Ids /\ rows[validate(t)] \in Row
    BY <1>3 DEF StateOK, Admitted, Existing
  <2>2. [id |-> validate(t), role |-> rows[validate(t)].role]
          \in [id : Ids, role : Roles]
    BY <2>1 DEF Row
  <2> QED
    BY <1>1, <1>2, <1>3, <2>2, NoneAssumption
    DEF StateOK, Remember, Go, InFlight
<1>4. CASE Go(q, "401") /\ UNCHANGED read
  BY <1>1, <1>2, <1>4 DEF StateOK, Go, Answers, No
<1> QED
  BY <1>3, <1>4 DEF canActivate

LEMMA ArriveType ==
  ASSUME StateOK, NEW q \in Requests, Arrive(q)
  PROVE  StateOK'
  BY SignUpType, FindUserType, GuardType DEF Arrive

LEMMA InsertType ==
  ASSUME StateOK, NEW q \in Requests, ask[q] \in SignRequest, NEW i \in Ids,
         NEW settings \in SUBSET {"BASE_CURRENCY"}, Insert(q, i, settings)
  PROVE  /\ rows' \in [Ids -> Row \cup {NoUser}]
         /\ gone \subseteq {j \in Ids : rows'[j] # NoUser}
         /\ rows'[i] \in Row
<1>1. [email |-> ask[q].email, hash |-> ask[q].client, role |-> "USER",
       userSettings |-> settings] \in Row
  BY DEF SignRequest, Row, Roles
<1> QED
  BY <1>1, NoneAssumption DEF Insert, StateOK

LEMMA ContinueType ==
  ASSUME StateOK, NEW q \in Requests, Continue(q)
  PROVE  StateOK'
<1>1. CASE CreateRefused(q)
  BY <1>1 DEF CreateRefused, StateOK, Go, Answers, No
<1>2. ASSUME NEW i \in Ids, CreateUser(q, i)
      PROVE  StateOK'
  <2>1. [id |-> i, role |-> "USER"] \in [id : Ids, role : Roles]
    BY DEF Roles
  <2> QED
    BY <1>2, <2>1, InsertType, NoneAssumption
    DEF CreateUser, StateOK, Go, InFlight
<1>3. ASSUME NEW i \in Ids, CreateSessionUser(q, i)
      PROVE  StateOK'
  BY <1>3, InsertType
  DEF CreateSessionUser, StateOK, Free, Go, Release, InFlight, Answers
<1>4. CASE Verify(q)
  BY <1>4 DEF Verify, StateOK, Go, InFlight
<1>5. CASE VerifyFails(q)
  BY <1>5 DEF VerifyFails, StateOK, Go, Release, InFlight, Answers, No
<1>6. CASE VerifySession(q)
  BY <1>6, FreeType DEF VerifySession
<1>7. CASE signJwtToken(q)
  <2>1. /\ ask[q] \in SignRequest /\ read[q] \in [id : Ids, role : Roles]
        /\ pc[q] = "sign"
    BY <1>7 DEF signJwtToken, StateOK
  <2>2. [sub |-> read[q].id, email |-> ask[q].email, role |-> read[q].role]
          \in Token
    BY <2>1 DEF SignRequest, Token
  <2> QED
    BY <1>7, <2>1, <2>2
    DEF signJwtToken, StateOK, Go, Release, InFlight, Answers, Yes
<1>8. CASE Handle(q)
  <2>1. Subjects(q) \subseteq Ids
    BY DEF Subjects, Existing
  <2>2. \A i \in Ids, level \in {"PRIVATE", "PUBLIC"} :
          serializeUser(i, level) \in View
    BY DEF serializeUser, View
  <2>3. Level(ask[q].route) \in {"PRIVATE", "PUBLIC"}
    BY DEF Level
  <2>4. {serializeUser(i, Level(ask[q].route)) : i \in Subjects(q)}
          \in SUBSET View
    BY <2>1, <2>2, <2>3
  <2> QED
    BY <1>8, <2>4 DEF Handle, StateOK, Go, InFlight, Answers, Yes
<1> QED
  BY <1>1, <1>2, <1>3, <1>4, <1>5, <1>6, <1>7, <1>8 DEF Continue

LEMMA OperatorType ==
  ASSUME StateOK, NEW i \in Existing,
         DeleteUser(i) \/ \E role \in Roles : SetRole(i, role)
  PROVE  StateOK'
<1>1. operated' \in 0 .. OperatorBound /\ UNCHANGED <<token, pc, ask, read, got>>
  BY OperatorAssumption DEF DeleteUser, SetRole, Operate, StateOK
<1>2. i \in Ids /\ rows[i] \in Row /\ i \notin gone
  BY DEF Existing, StateOK
<1>3. CASE DeleteUser(i)
  BY <1>1, <1>2, <1>3, NoneAssumption DEF DeleteUser, StateOK
<1>4. ASSUME NEW role \in Roles, SetRole(i, role)
      PROVE  StateOK'
  <2>1. [rows[i] EXCEPT !.role = role] \in Row
    BY <1>2 DEF Row
  <2>2. /\ rows' \in [Ids -> Row \cup {NoUser}]
        /\ gone' \subseteq {j \in Ids : rows'[j] # NoUser}
    BY <1>2, <1>4, <2>1, NoneAssumption DEF SetRole, StateOK
  <2> QED
    BY <1>1, <2>2 DEF StateOK
<1> QED
  BY <1>3, <1>4

LEMMA StepType ==
  ASSUME StateOK, Step
  PROVE  StateOK'
<1>1. ASSUME NEW q \in Requests, CallFails(q) \/ Forget(q)
      PROVE  StateOK'
  BY <1>1, FreeType DEF CallFails, Forget
<1>2. ASSUME NEW c \in Clients, Expire(c)
      PROVE  StateOK'
  BY <1>2 DEF Expire, StateOK
<1> QED
  BY <1>1, <1>2, ArriveType, ContinueType, OperatorType DEF Step

\* Every variable keeps its type: a request carries what its route asks for, a
\* step that needs an account has read one, and a deleted id had a row.
THEOREM TypeCorrect == Spec => []TypeOK
<1>1. TypeOK <=> StateOK /\ seen \in [Requests -> SUBSET BOOLEAN]
  BY DEF TypeOK, StateOK
<1>2. TypeOK /\ [Next]_vars => TypeOK'
  <2>1. CASE UNCHANGED vars
    BY <2>1 DEF vars, TypeOK
  <2>2. ASSUME TypeOK, Next
        PROVE  TypeOK'
    BY <1>1, <2>2, StepType, WitnessType DEF Next, TypeOK, StateOK
  <2> QED
    BY <2>1, <2>2
<1> QED
  BY <1>2, InitType, PTL DEF Spec

-----------------------------------------------------------------------------
(* What a step leaves as it was *)

\* The email and the password of an account are never changed, and its id is
\* never given away again.
RowsKept ==
  \A i \in Ids : rows[i] # NoUser =>
    /\ rows'[i] # NoUser
    /\ rows'[i].email = rows[i].email
    /\ rows'[i].hash = rows[i].hash

LEMMA RowsAreKept ==
  ASSUME TypeOK, TypeOK', Step
  PROVE  RowsKept
<1>1. CASE rows' = rows
  BY <1>1 DEF RowsKept
<1>2. ASSUME NEW q \in Requests, NEW i \in Ids, NEW settings,
             Insert(q, i, settings)
      PROVE  RowsKept
  BY <1>2 DEF Insert, RowsKept, TypeOK
<1>3. ASSUME NEW i \in Existing, NEW role \in Roles, SetRole(i, role)
      PROVE  RowsKept
  <2>1. i \in Ids /\ rows[i] \in Row /\ rows' = [rows EXCEPT ![i].role = role]
    BY <1>3 DEF Existing, SetRole, TypeOK
  <2>2. rows'[i].email = rows[i].email /\ rows'[i].hash = rows[i].hash
    BY <2>1 DEF TypeOK, Row
  <2>3. rows'[i] # NoUser
    BY <2>1, NoneAssumption DEF TypeOK, Row
  <2>4. \A j \in Ids \ {i} : rows'[j] = rows[j]
    BY <2>1 DEF TypeOK
  <2> QED
    BY <2>2, <2>3, <2>4 DEF RowsKept
<1>4. ASSUME NEW q \in Requests, Arrive(q) \/ CallFails(q) \/ Forget(q)
      PROVE  rows' = rows
  BY <1>4 DEF Arrive, JwtSignup, Signup, FindUser, canActivate, CallFails,
              Forget
<1>5. ASSUME NEW q \in Requests, Continue(q)
      PROVE  rows' = rows \/ \E i \in Ids : \E settings : Insert(q, i, settings)
  BY <1>5 DEF Continue, CreateRefused, CreateUser, CreateSessionUser, Verify,
              VerifyFails, VerifySession, signJwtToken, Handle
<1>6. CASE (\E c \in Clients : Expire(c)) \/ (\E i \in Existing : DeleteUser(i))
  BY <1>1, <1>6 DEF Expire, DeleteUser
<1> QED
  BY <1>1, <1>2, <1>3, <1>4, <1>5, <1>6 DEF Step

OwnStep(q) == Arrive(q) \/ Continue(q) \/ CallFails(q) \/ Forget(q)

Untouched(q) ==
  pc'[q] = pc[q] /\ ask'[q] = ask[q] /\ read'[q] = read[q] /\ got'[q] = got[q]

\* The step of another request, of a token or of the operator.
LEMMA OthersUntouched ==
  ASSUME TypeOK, Step, NEW q \in Requests, ~OwnStep(q)
  PROVE  Untouched(q)
<1>1. ASSUME NEW x \in Requests, x # q, Arrive(x)
      PROVE  Untouched(q)
  BY <1>1 DEF Arrive, JwtSignup, Signup, FindUser, canActivate, Send, Go,
              Remember, Untouched, TypeOK
<1>2. ASSUME NEW x \in Requests, x # q, Continue(x)
      PROVE  Untouched(q)
  BY <1>2 DEF Continue, CreateRefused, CreateUser, CreateSessionUser, Verify,
              VerifyFails, VerifySession, signJwtToken, Handle, Go, Free,
              Release, Untouched, TypeOK
<1>3. ASSUME NEW x \in Requests, x # q, CallFails(x) \/ Forget(x)
      PROVE  Untouched(q)
  BY <1>3 DEF CallFails, Forget, Free, Go, Release, Untouched, TypeOK
<1>4. CASE \/ \E c \in Clients : Expire(c)
           \/ \E i \in Existing : \/ DeleteUser(i)
                                  \/ \E role \in Roles : SetRole(i, role)
  BY <1>4 DEF Expire, DeleteUser, SetRole, Operate, Untouched
<1> QED
  BY <1>1, <1>2, <1>3, <1>4 DEF Step, OwnStep

-----------------------------------------------------------------------------
(* One account per email: the insert looks at the index, whatever the count    *)
(* before it said                                                              *)

LEMMA EmailsStayUnique ==
  ASSUME TypeOK, TypeOK', OneAccountPerEmail, Step
  PROVE  OneAccountPerEmail'
<1>0. RowsKept
  BY RowsAreKept
<1>1. ASSUME \A e \in Emails : HasEmail(e)' \subseteq HasEmail(e)
      PROVE  OneAccountPerEmail'
  BY <1>1 DEF OneAccountPerEmail
<1>2. ASSUME NEW q \in Requests, NEW i \in Ids, NEW settings,
             Insert(q, i, settings), gone' = gone
      PROVE  OneAccountPerEmail'
  <2>1. HasEmail(ask[q].email) = {}
    BY <1>2 DEF Insert, EmailTaken
  <2>2. \A j \in Ids \ {i} : rows'[j] = rows[j]
    BY <1>2 DEF Insert, TypeOK
  <2>3. rows'[i].email = ask[q].email
    BY <1>2 DEF Insert, TypeOK
  <2>4. ASSUME NEW e \in Emails, NEW j \in HasEmail(e)', NEW k \in HasEmail(e)'
        PROVE  j = k
    BY <1>2, <2>1, <2>2, <2>3 DEF HasEmail, Existing, OneAccountPerEmail
  <2> QED
    BY <2>4 DEF OneAccountPerEmail
<1>3. CASE /\ {i \in Ids : rows'[i] # NoUser} = {i \in Ids : rows[i] # NoUser}
           /\ gone \subseteq gone'
  <2>1. \A e \in Emails : HasEmail(e)' \subseteq HasEmail(e)
    BY <1>0, <1>3 DEF HasEmail, Existing, RowsKept
  <2> QED
    BY <1>1, <2>1
<1>4. ASSUME NEW q \in Requests, Arrive(q) \/ CallFails(q) \/ Forget(q)
      PROVE  UNCHANGED <<rows, gone>>
  BY <1>4 DEF Arrive, JwtSignup, Signup, FindUser, canActivate, CallFails,
              Forget
<1>5. ASSUME NEW q \in Requests, Continue(q)
      PROVE  /\ gone' = gone
             /\ rows' = rows \/ \E i \in Ids : \E settings : Insert(q, i, settings)
  BY <1>5 DEF Continue, CreateRefused, CreateUser, CreateSessionUser, Verify,
              VerifyFails, VerifySession, signJwtToken, Handle
<1>6. CASE (\E c \in Clients : Expire(c)) \/ (\E i \in Existing : DeleteUser(i))
  BY <1>3, <1>6 DEF Expire, DeleteUser
<1>7. ASSUME NEW i \in Existing, NEW role \in Roles, SetRole(i, role)
      PROVE  /\ gone' = gone
             /\ {j \in Ids : rows'[j] # NoUser} = {j \in Ids : rows[j] # NoUser}
  <2>1. i \in Ids /\ rows[i] # NoUser /\ gone' = gone
    BY <1>7 DEF Existing, SetRole
  <2>2. \A j \in Ids \ {i} : rows'[j] = rows[j]
    BY <1>7 DEF SetRole, TypeOK
  <2>3. rows'[i] # NoUser
    BY <1>0, <2>1 DEF RowsKept
  <2> QED
    BY <2>1, <2>2, <2>3
<1> QED
  BY <1>2, <1>3, <1>4, <1>5, <1>6, <1>7 DEF Step

\* An email never has two accounts, although neither sign-up route looks for
\* the email in the step that inserts the account.
THEOREM EmailsUnique == Spec => []OneAccountPerEmail
<1>1. Init => OneAccountPerEmail
  BY DEF Init, OneAccountPerEmail, HasEmail, Existing
<1>2. TypeOK /\ TypeOK' /\ OneAccountPerEmail /\ [Next]_vars
        => OneAccountPerEmail'
  <2>1. CASE UNCHANGED vars
    BY <2>1 DEF vars, OneAccountPerEmail, HasEmail, Existing
  <2>2. CASE Next
    BY <2>2, EmailsStayUnique DEF Next
  <2> QED
    BY <2>1, <2>2
<1> QED
  BY <1>1, <1>2, TypeCorrect, PTL DEF Spec

-----------------------------------------------------------------------------
(* Who a request and a token stand for *)

\* The account a request has read is there, if it was not deleted, or was, and
\* from the moment a token is signed or the guard passed it is the client's own.
ReadsOwnAccount(q) ==
  /\ pc[q] \in {"verify", "sign", "handler", "200"} =>
       read[q] # NoUser /\ rows[read[q].id] # NoUser
  /\ pc[q] \in {"sign", "handler", "200"} =>
       rows[read[q].id].hash = ask[q].client

\* What a request was shown it may see, and it is shown nothing before the end.
SeesWhatItMay(q) ==
  /\ got[q] # {} => pc[q] = "200"
  /\ \A v \in got[q] :
       /\ v.id \in Ids /\ rows[v.id] # NoUser
       /\ v.fields \cap PrivateFields # {} =>
            rows[v.id].hash = ask[q].client \/ ask[q].route \in AdminRoutes

TokensAreOwn ==
  \A c \in Clients : token[c] # NoToken =>
    rows[token[c].sub] # NoUser /\ rows[token[c].sub].hash = c

IdentityInv ==
  TokensAreOwn /\ \A q \in Requests : ReadsOwnAccount(q) /\ SeesWhatItMay(q)

\* A request that is left alone stands for whom it stood.
LEMMA UntouchedKeepsIdentity ==
  ASSUME TypeOK, RowsKept, NEW q \in Requests, Untouched(q),
         ReadsOwnAccount(q), SeesWhatItMay(q)
  PROVE  ReadsOwnAccount(q)' /\ SeesWhatItMay(q)'
<1>1. read[q] # NoUser => read[q].id \in Ids
  BY DEF TypeOK
<1> QED
  BY <1>1 DEF RowsKept, Untouched, ReadsOwnAccount, SeesWhatItMay

\* Away from its account, an answer shows nothing.
LEMMA IdleStands ==
  ASSUME NEW q \in Requests, got'[q] = {},
         pc'[q] \notin {"verify", "sign", "handler", "200"}
  PROVE  ReadsOwnAccount(q)' /\ SeesWhatItMay(q)'
  BY DEF ReadsOwnAccount, SeesWhatItMay

LEMMA ArriveKeepsIdentity ==
  ASSUME TypeOK, TypeOK', IdentityInv, NEW q \in Requests, Arrive(q)
  PROVE  ReadsOwnAccount(q)' /\ SeesWhatItMay(q)'
<1> PICK c \in Clients :
       \/ \E e \in Emails :
            \/ JwtSignup(q, c, e)
            \/ Signup(q, c, e)
            \/ \E route \in {"signin", "signin-session"} : FindUser(q, c, e, route)
       \/ \E t \in {token[c], NoToken}, route \in UserRoutes,
             target \in Ids \cup {NoUser} : canActivate(q, c, t, route, target)
  BY DEF Arrive
<1>0. pc[q] = "idle" /\ got'[q] = {} /\ rows' = rows
  BY DEF JwtSignup, Signup, FindUser, canActivate, Send, IdentityInv,
         SeesWhatItMay
<1>1. ASSUME NEW e \in Emails, JwtSignup(q, c, e) \/ Signup(q, c, e)
      PROVE  pc'[q] \in {"create", "403"}
  BY <1>1 DEF JwtSignup, Signup, Go, TypeOK
<1>2. ASSUME NEW e \in Emails, NEW route \in {"signin", "signin-session"},
             FindUser(q, c, e, route), pc'[q] \notin {"403"}
      PROVE  ReadsOwnAccount(q)' /\ SeesWhatItMay(q)'
  <2>1. PICK i \in HasEmail(e) : Remember(q, i) /\ Go(q, "verify")
    BY <1>2 DEF FindUser, Go, TypeOK
  <2>2. /\ pc'[q] = "verify" /\ read'[q] # NoUser
        /\ read'[q].id = i /\ rows[i] # NoUser
    BY <2>1 DEF Remember, Go, TypeOK, HasEmail, Existing
  <2> QED
    BY <1>0, <2>2 DEF ReadsOwnAccount, SeesWhatItMay
<1>3. ASSUME NEW t \in {token[c], NoToken}, NEW route \in UserRoutes,
             NEW target \in Ids \cup {NoUser},
             canActivate(q, c, t, route, target), pc'[q] # "401"
      PROVE  ReadsOwnAccount(q)' /\ SeesWhatItMay(q)'
  <2>1. Admitted(t, route) /\ Go(q, "handler") /\ Remember(q, validate(t))
    BY <1>3 DEF canActivate, Go, TypeOK
  <2>2. t = token[c] /\ t # NoToken /\ validate(t) = t.sub
    BY <2>1 DEF Admitted, validate
  <2>3. rows[t.sub] # NoUser /\ rows[t.sub].hash = c
    BY <2>2 DEF IdentityInv, TokensAreOwn
  <2>4. /\ pc'[q] = "handler" /\ read'[q] # NoUser /\ read'[q].id = t.sub
        /\ ask'[q].client = c
    BY <1>3, <2>1, <2>2 DEF canActivate, Send, Remember, Go, TypeOK
  <2> QED
    BY <1>0, <2>3, <2>4 DEF ReadsOwnAccount, SeesWhatItMay
<1>4. CASE pc'[q] \in {"create", "401", "403"}
  BY <1>0, <1>4, IdleStands
<1> QED
  BY <1>1, <1>2, <1>3, <1>4

LEMMA ContinueKeepsIdentity ==
  ASSUME TypeOK, TypeOK', IdentityInv, RowsKept, NEW q \in Requests, Continue(q)
  PROVE  ReadsOwnAccount(q)' /\ SeesWhatItMay(q)'
<1>0. pc[q] \in InFlight /\ got[q] = {} /\ ReadsOwnAccount(q)
  BY DEF Continue, CreateRefused, CreateUser, CreateSessionUser, Verify,
         VerifyFails, VerifySession, signJwtToken, Handle, IdentityInv,
         SeesWhatItMay, InFlight
<1>1. CASE CreateRefused(q) \/ VerifyFails(q) \/ signJwtToken(q)
  BY <1>0, <1>1, IdleStands
  DEF CreateRefused, VerifyFails, signJwtToken, Go, TypeOK
<1>2. CASE VerifySession(q) \/ \E i \in Ids : CreateSessionUser(q, i)
  BY <1>0, <1>2, IdleStands
  DEF VerifySession, CreateSessionUser, Free, Go, TypeOK
<1>3. ASSUME NEW i \in Ids, CreateUser(q, i)
      PROVE  ReadsOwnAccount(q)' /\ SeesWhatItMay(q)'
  <2>1. /\ pc'[q] = "sign" /\ ask' = ask /\ got' = got
        /\ read'[q] = [id |-> i, role |-> "USER"]
        /\ rows'[i].hash = ask[q].client
    BY <1>3 DEF CreateUser, Insert, Go, TypeOK
  <2>2. read'[q] # NoUser /\ rows'[i] # NoUser
    <3>1. StateOK /\ ask[q] \in SignRequest
      BY <1>3 DEF CreateUser, TypeOK, StateOK
    <3>2. rows'[i] \in Row
      BY <1>3, <3>1, InsertType DEF CreateUser
    <3> QED
      BY <2>1, <3>2, NoneAssumption DEF TypeOK
  <2> QED
    BY <1>0, <2>1, <2>2 DEF ReadsOwnAccount, SeesWhatItMay
<1>4. CASE Verify(q)
  <2>1. /\ pc[q] = "verify" /\ pc'[q] = "sign"
        /\ UNCHANGED <<rows, ask, read, got>>
        /\ rows[read[q].id].hash = ask[q].client
    BY <1>4 DEF Verify, PasswordMatches, Go, TypeOK
  <2> QED
    BY <1>0, <2>1 DEF ReadsOwnAccount, SeesWhatItMay
<1>5. CASE Handle(q)
  <2>1. /\ pc[q] = "handler" /\ pc'[q] = "200" /\ UNCHANGED <<rows, ask, read>>
        /\ got'[q] = {serializeUser(i, Level(ask[q].route)) : i \in Subjects(q)}
    BY <1>5 DEF Handle, Go, TypeOK
  <2>2. Subjects(q) \subseteq Existing
    BY DEF Subjects
  <2>3. ASSUME NEW v \in got'[q]
        PROVE  /\ v.id \in Ids /\ rows[v.id] # NoUser
               /\ v.fields \cap PrivateFields # {} =>
                    \/ rows[v.id].hash = ask[q].client
                    \/ ask[q].route \in AdminRoutes
    <3>1. PICK i \in Subjects(q) : v = serializeUser(i, Level(ask[q].route))
      BY <2>1, <2>3
    <3>2. v.id = i /\ i \in Ids /\ rows[i] # NoUser
      BY <2>2, <3>1 DEF serializeUser, Existing
    <3>3. CASE ask[q].route = "me"
      <4>1. i = read[q].id
        BY <3>3 DEF Subjects
      <4> QED
        BY <1>0, <2>1, <3>2, <4>1 DEF ReadsOwnAccount
    <3>4. CASE ask[q].route # "me" /\ ask[q].route # "admin/:id"
      <4>1. v.fields = PublicFields
        BY <3>1, <3>4 DEF serializeUser, Level
      <4> QED
        BY <3>2, <4>1 DEF PublicFields, PrivateFields
    <3> QED
      BY <3>2, <3>3, <3>4 DEF AdminRoutes
  <2>4. ReadsOwnAccount(q)'
    BY <1>0, <2>1 DEF ReadsOwnAccount
  <2> QED
    BY <2>1, <2>3, <2>4 DEF SeesWhatItMay
<1> QED
  BY <1>1, <1>2, <1>3, <1>4, <1>5 DEF Continue

LEMMA TokensStayOwn ==
  ASSUME TypeOK, IdentityInv, RowsKept, Step
  PROVE  TokensAreOwn'
<1>1. ASSUME NEW c \in Clients, token'[c] = token[c]
      PROVE  token'[c] # NoToken =>
               rows'[token'[c].sub] # NoUser /\ rows'[token'[c].sub].hash = c
  <2>1. token[c] # NoToken => token[c].sub \in Ids
    BY DEF TypeOK, Token
  <2> QED
    BY <1>1, <2>1 DEF IdentityInv, TokensAreOwn, RowsKept
<1>2. CASE token' = token
  BY <1>1, <1>2 DEF TokensAreOwn
<1>3. ASSUME NEW x \in Clients, Expire(x)
      PROVE  TokensAreOwn'
  <2>1. \A c \in Clients : token'[c] = token[c] \/ token'[c] = NoToken
    BY <1>3 DEF Expire, TypeOK
  <2> QED
    BY <1>1, <2>1 DEF TokensAreOwn
<1>4. ASSUME NEW q \in Requests, signJwtToken(q)
      PROVE  TokensAreOwn'
  <2>1. /\ pc[q] = "sign" /\ ask[q].client \in Clients /\ read[q].id \in Ids
        /\ rows' = rows
    BY <1>4 DEF signJwtToken, TypeOK, SignRequest
  <2>2. token'[ask[q].client].sub = read[q].id
    BY <1>4, <2>1 DEF signJwtToken, TypeOK
  <2>3. rows[read[q].id] # NoUser /\ rows[read[q].id].hash = ask[q].client
    BY <2>1 DEF IdentityInv, ReadsOwnAccount
  <2>4. \A c \in Clients \ {ask[q].client} : token'[c] = token[c]
    BY <1>4 DEF signJwtToken, TypeOK
  <2> QED
    BY <1>1, <2>1, <2>2, <2>3, <2>4 DEF TokensAreOwn
<1>5. ASSUME NEW q \in Requests,
             Arrive(q) \/ CallFails(q) \/ Forget(q)
               \/ (Continue(q) /\ ~signJwtToken(q))
      PROVE  token' = token
  BY <1>5 DEF Arrive, JwtSignup, Signup, FindUser, canActivate, CallFails,
              Forget, Continue, CreateRefused, CreateUser, CreateSessionUser,
              Verify, VerifyFails, VerifySession, Handle
<1>6. CASE \E i \in Existing : DeleteUser(i) \/ \E role \in Roles : SetRole(i, role)
  BY <1>2, <1>6 DEF DeleteUser, SetRole, Operate
<1> QED
  BY <1>2, <1>3, <1>4, <1>5, <1>6 DEF Step

LEMMA IdentityStays ==
  ASSUME TypeOK, TypeOK', IdentityInv, Step
  PROVE  IdentityInv'
<1>1. RowsKept
  BY RowsAreKept
<1>2. ASSUME NEW q \in Requests, CallFails(q) \/ Forget(q)
      PROVE  ReadsOwnAccount(q)' /\ SeesWhatItMay(q)'
  BY <1>2, IdleStands DEF CallFails, Forget, Free, Go, TypeOK
<1>3. ASSUME NEW q \in Requests
      PROVE  ReadsOwnAccount(q)' /\ SeesWhatItMay(q)'
  BY <1>1, <1>2, ArriveKeepsIdentity, ContinueKeepsIdentity, OthersUntouched,
     UntouchedKeepsIdentity DEF IdentityInv, OwnStep
<1> QED
  BY <1>1, <1>3, TokensStayOwn DEF IdentityInv

LEMMA IdentityCorrect == Spec => []IdentityInv
<1>1. Init => IdentityInv
  BY DEF Init, IdentityInv, TokensAreOwn, ReadsOwnAccount, SeesWhatItMay
<1>2. TypeOK /\ TypeOK' /\ IdentityInv /\ [Next]_vars => IdentityInv'
  <2>1. CASE UNCHANGED vars
    BY <2>1 DEF vars, IdentityInv, TokensAreOwn, ReadsOwnAccount, SeesWhatItMay
  <2>2. CASE Next
    BY <2>2, IdentityStays DEF Next
  <2> QED
    BY <2>1, <2>2
<1> QED
  BY <1>1, <1>2, TypeCorrect, PTL DEF Spec

\* Nobody gets past the guard, and nobody holds a token, as somebody else: not
\* through an email that has changed hands either.
THEOREM NobodyActs == Spec => []NobodyActsForAnother
<1>1. IdentityInv => NobodyActsForAnother
  BY DEF IdentityInv, TokensAreOwn, ReadsOwnAccount, NobodyActsForAnother
<1> QED
  BY <1>1, IdentityCorrect, PTL

\* Emails and settings are shown to their owner and on the admin routes only.
THEOREM PrivateStaysPrivate == Spec => []PrivateFieldsStayPrivate
<1>1. IdentityInv => PrivateFieldsStayPrivate
  BY DEF IdentityInv, SeesWhatItMay, PrivateFieldsStayPrivate
<1> QED
  BY <1>1, IdentityCorrect, PTL

-----------------------------------------------------------------------------
(* Answers: what a request was told had been so while it was under way         *)

AnswerInv(q) ==
  /\ pc[q] = "create" => ask[q].route \in {"signup", "signup-session"}
  /\ pc[q] \in InFlight => Granted(q) \in seen[q]
  /\ pc[q] = "verify" => PasswordMatches(q) \in seen[q]
  /\ pc[q] \in {"sign", "handler"} \cup Yes => TRUE \in seen[q]
  /\ pc[q] \in No => FALSE \in seen[q]

AnswersInv == \A q \in Requests : AnswerInv(q)

\* A request that goes on has seen what it had, and what is so now.
LEMMA WitnessSees ==
  ASSUME TypeOK, Witness, NEW q \in Requests, pc'[q] # "idle"
  PROVE  /\ pc[q] \notin Answers => seen'[q] = seen[q] \cup {Granted(q)'}
         /\ pc[q] \in Answers => seen'[q] = seen[q]
  BY DEF Witness

\* Once its account is found, the password of a sign-in stays right or wrong.
LEMMA PasswordStays ==
  ASSUME TypeOK, IdentityInv, RowsKept, NEW q \in Requests, pc[q] = "verify",
         ask'[q] = ask[q], read'[q] = read[q]
  PROVE  PasswordMatches(q)' = PasswordMatches(q)
<1>1. read[q].id \in Ids /\ rows[read[q].id] # NoUser
  BY DEF IdentityInv, ReadsOwnAccount, TypeOK
<1> QED
  BY <1>1 DEF PasswordMatches, RowsKept

LEMMA UntouchedKeepsAnswer ==
  ASSUME TypeOK, IdentityInv, RowsKept, Witness, NEW q \in Requests,
         Untouched(q), AnswerInv(q)
  PROVE  AnswerInv(q)'
<1>1. CASE pc[q] = "idle"
  BY <1>1 DEF Untouched, AnswerInv, InFlight, Yes, No
<1>2. CASE pc[q] \in Answers
  <2>1. seen'[q] = seen[q]
    BY <1>2, WitnessSees DEF Untouched, Answers, Yes, No
  <2> QED
    BY <1>2, <2>1 DEF Untouched, AnswerInv, InFlight, Answers, Yes, No
<1>3. CASE pc[q] \in InFlight
  <2>1. seen'[q] = seen[q] \cup {Granted(q)'}
    BY <1>3, WitnessSees DEF Untouched, InFlight, Answers, Yes, No
  <2>2. pc[q] = "verify" => PasswordMatches(q)' \in seen'[q]
    BY <2>1, PasswordStays DEF Untouched, AnswerInv
  <2> QED
    BY <1>3, <2>1, <2>2 DEF Untouched, AnswerInv, InFlight, Yes, No
<1> QED
  BY <1>1, <1>2, <1>3 DEF TypeOK

LEMMA ArriveAnswers ==
  ASSUME TypeOK, TypeOK', OneAccountPerEmail, Witness, NEW q \in Requests,
         Arrive(q)
  PROVE  AnswerInv(q)'
<1> PICK c \in Clients :
       \/ \E e \in Emails :
            \/ JwtSignup(q, c, e)
            \/ Signup(q, c, e)
            \/ \E route \in {"signin", "signin-session"} : FindUser(q, c, e, route)
       \/ \E t \in {token[c], NoToken}, route \in UserRoutes,
             target \in Ids \cup {NoUser} : canActivate(q, c, t, route, target)
  BY DEF Arrive
<1>0. /\ pc[q] = "idle" /\ UNCHANGED <<rows, gone>>
      /\ pc'[q] \in {"create", "403", "verify", "handler", "401"}
  BY DEF JwtSignup, Signup, FindUser, canActivate, Send, Go, TypeOK
<1>1. seen'[q] = seen[q] \cup {Granted(q)'}
  BY <1>0, WitnessSees DEF Answers, Yes, No
<1>2. ASSUME NEW e \in Emails, JwtSignup(q, c, e)
      PROVE  pc'[q] = "create" /\ ask'[q].route = "signup"
  BY <1>2 DEF JwtSignup, Send, Go, TypeOK
<1>3. ASSUME NEW e \in Emails, Signup(q, c, e)
      PROVE  \/ pc'[q] = "create" /\ ask'[q].route = "signup-session"
             \/ pc'[q] = "403" /\ Granted(q)' = FALSE
  <2>1. ask'[q] = [route |-> "signup-session", client |-> c, email |-> e]
    BY <1>3 DEF Signup, Send, TypeOK
  <2>2. HasEmail(e)' = HasEmail(e)
    BY <1>0 DEF HasEmail, Existing
  <2>3. Granted(q)' <=> HasEmail(e) = {}
    BY <2>1, <2>2 DEF Granted
  <2> QED
    BY <1>3, <2>1, <2>3 DEF Signup, Go, TypeOK, Granted
<1>4. ASSUME NEW e \in Emails, NEW route \in {"signin", "signin-session"},
             FindUser(q, c, e, route)
      PROVE  \/ pc'[q] = "verify" /\ PasswordMatches(q)' = Granted(q)'
             \/ pc'[q] = "403" /\ Granted(q)' = FALSE
  <2>1. ask'[q] = [route |-> route, client |-> c, email |-> e]
    BY <1>4 DEF FindUser, Send, TypeOK
  <2>2. HasEmail(e)' = HasEmail(e)
    BY <1>0 DEF HasEmail, Existing
  <2>3. Granted(q)' = (\E i \in HasEmail(e) : rows[i].hash = c)
    BY <1>0, <2>1, <2>2 DEF Granted
  <2>4. ASSUME NEW i \in HasEmail(e), Remember(q, i), Go(q, "verify")
        PROVE  pc'[q] = "verify" /\ PasswordMatches(q)' = Granted(q)'
    <3>1. /\ pc'[q] = "verify" /\ read'[q].id = i
      BY <2>4 DEF Remember, Go, TypeOK
    <3>2. PasswordMatches(q)' = (rows[i].hash = c)
      BY <1>0, <2>1, <3>1 DEF PasswordMatches
    <3>3. \A j \in HasEmail(e) : j = i
      BY DEF OneAccountPerEmail
    <3> QED
      BY <2>3, <3>1, <3>2, <3>3
  <2>5. CASE HasEmail(e) = {} /\ Go(q, "403")
    BY <2>3, <2>5 DEF Go, TypeOK
  <2> QED
    BY <1>4, <2>4, <2>5 DEF FindUser
<1>5. ASSUME NEW t \in {token[c], NoToken}, NEW route \in UserRoutes,
             NEW target \in Ids \cup {NoUser},
             canActivate(q, c, t, route, target)
      PROVE  \/ pc'[q] = "handler" /\ Granted(q)' = TRUE
             \/ pc'[q] = "401" /\ Granted(q)' = FALSE
  <2>1. ask'[q] = [route |-> route, client |-> c, token |-> t,
                   target |-> target]
    BY <1>5 DEF canActivate, Send, TypeOK
  <2>2. Existing' = Existing
    BY <1>0 DEF Existing
  <2>3. route \notin {"signup", "signup-session", "signin", "signin-session"}
    BY DEF UserRoutes, AdminRoutes
  <2>4. Granted(q)' = Admitted(t, route)
    <3>1. ask'[q].route = route /\ ask'[q].token = t
      BY <2>1
    <3>2. Granted(q)' = /\ t # NoToken
                        /\ t.sub \in Existing
                        /\ route \in AdminRoutes => rows[t.sub].role = "ADMIN"
      BY <1>0, <2>2, <2>3, <3>1 DEF Granted
    <3> QED
      BY <3>2 DEF Admitted, RoleOf, validate
  <2>5. \/ pc'[q] = "handler" /\ Admitted(t, route)
        \/ pc'[q] = "401" /\ ~Admitted(t, route)
    BY <1>5 DEF canActivate, Go, TypeOK
  <2>6. Admitted(t, route) \in BOOLEAN
    BY DEF Admitted
  <2> QED
    BY <2>4, <2>5, <2>6
<1>6. \/ /\ pc'[q] = "create"
         /\ ask'[q].route \in {"signup", "signup-session"}
      \/ pc'[q] = "403" /\ Granted(q)' = FALSE
      \/ pc'[q] = "verify" /\ PasswordMatches(q)' = Granted(q)'
      \/ pc'[q] = "handler" /\ Granted(q)' = TRUE
      \/ pc'[q] = "401" /\ Granted(q)' = FALSE
  BY <1>2, <1>3, <1>4, <1>5
<1> QED
  BY <1>1, <1>6 DEF AnswerInv, InFlight, Yes, No

LEMMA ContinueAnswers ==
  ASSUME TypeOK, TypeOK', Witness, NEW q \in Requests, AnswerInv(q),
         Continue(q)
  PROVE  AnswerInv(q)'
<1>0. pc[q] \in InFlight
  BY DEF Continue, CreateRefused, CreateUser, CreateSessionUser, Verify,
         VerifyFails, VerifySession, signJwtToken, Handle, InFlight
<1>1. pc'[q] # "idle" => seen'[q] = seen[q] \cup {Granted(q)'}
  BY <1>0, WitnessSees DEF InFlight, Answers, Yes, No
<1>2. CASE CreateRefused(q)
  <2>1. /\ pc[q] = "create" /\ pc'[q] = "400" /\ UNCHANGED <<rows, gone, ask>>
        /\ HasEmail(ask[q].email) # {}
    BY <1>2 DEF CreateRefused, EmailTaken, Go, TypeOK
  <2>2. ask[q].route \in {"signup", "signup-session"}
    BY <2>1 DEF AnswerInv
  <2>3. HasEmail(ask[q].email)' = HasEmail(ask[q].email)
    BY <2>1 DEF HasEmail, Existing
  <2>4. Granted(q)' = FALSE
    BY <2>1, <2>2, <2>3 DEF Granted
  <2> QED
    BY <1>1, <2>1, <2>4 DEF AnswerInv, InFlight, Yes, No
<1>3. ASSUME NEW i \in Ids, CreateUser(q, i)
      PROVE  AnswerInv(q)'
  <2>1. /\ pc[q] = "create" /\ pc'[q] = "sign" /\ ask' = ask
        /\ HasEmail(ask[q].email) = {}
    BY <1>3 DEF CreateUser, Insert, EmailTaken, Go, TypeOK
  <2>2. Granted(q) = TRUE
    BY <2>1 DEF AnswerInv, Granted
  <2>3. TRUE \in seen[q]
    BY <1>0, <2>2 DEF AnswerInv
  <2> QED
    BY <1>1, <2>1, <2>3 DEF AnswerInv, InFlight, Yes, No
<1>4. CASE VerifySession(q) \/ \E i \in Ids : CreateSessionUser(q, i)
  <2>1. pc'[q] = "idle"
    BY <1>4 DEF VerifySession, CreateSessionUser, Free, Go, TypeOK
  <2> QED
    BY <2>1 DEF AnswerInv, InFlight, Yes, No
<1>5. CASE Verify(q)
  <2>1. pc[q] = "verify" /\ pc'[q] = "sign" /\ PasswordMatches(q)
    BY <1>5 DEF Verify, Go, TypeOK
  <2>2. TRUE \in seen[q]
    BY <2>1 DEF AnswerInv, PasswordMatches
  <2> QED
    BY <1>1, <2>1, <2>2 DEF AnswerInv, InFlight, Yes, No
<1>6. CASE VerifyFails(q)
  <2>1. pc[q] = "verify" /\ pc'[q] = "403" /\ ~PasswordMatches(q)
    BY <1>6 DEF VerifyFails, Go, TypeOK
  <2>2. FALSE \in seen[q]
    BY <2>1 DEF AnswerInv, PasswordMatches
  <2> QED
    BY <1>1, <2>1, <2>2 DEF AnswerInv, InFlight, Yes, No
<1>7. CASE signJwtToken(q) \/ Handle(q)
  <2>1. /\ pc[q] \in {"sign", "handler"} /\ pc'[q] \in Yes
    BY <1>7 DEF signJwtToken, Handle, Go, TypeOK, Yes
  <2>2. TRUE \in seen[q]
    BY <2>1 DEF AnswerInv
  <2> QED
    BY <1>1, <2>1, <2>2 DEF AnswerInv, InFlight, Yes, No
<1> QED
  BY <1>2, <1>3, <1>4, <1>5, <1>6, <1>7 DEF Continue

LEMMA AnswersStay ==
  ASSUME TypeOK, TypeOK', OneAccountPerEmail, IdentityInv, AnswersInv, Next
  PROVE  AnswersInv'
<1>1. RowsKept
  BY RowsAreKept DEF Next
<1>2. ASSUME NEW q \in Requests, CallFails(q) \/ Forget(q)
      PROVE  AnswerInv(q)'
  <2>1. pc'[q] = "idle"
    BY <1>2 DEF CallFails, Forget, Free, Go, TypeOK
  <2> QED
    BY <2>1 DEF AnswerInv, InFlight, Yes, No
<1>3. ASSUME NEW q \in Requests
      PROVE  AnswerInv(q)'
  BY <1>1, <1>2, ArriveAnswers, ContinueAnswers, OthersUntouched,
     UntouchedKeepsAnswer DEF AnswersInv, OwnStep, Next
<1> QED
  BY <1>3 DEF AnswersInv

\* Every answer was true at some time while its request was under way, whoever
\* signs up with the same email, is demoted or deleted between its awaits.
THEOREM AnswersTrue == Spec => []AnswersWereTrue
<1>1. Init => AnswersInv
  BY DEF Init, AnswersInv, AnswerInv, InFlight, Yes, No
<1>2. /\ TypeOK /\ TypeOK' /\ OneAccountPerEmail /\ IdentityInv /\ AnswersInv
      /\ [Next]_vars
      => AnswersInv'
  <2>1. ASSUME AnswersInv, UNCHANGED vars
        PROVE  AnswersInv'
    <3>1. ASSUME NEW q \in Requests
          PROVE  Granted(q)' = Granted(q) /\ PasswordMatches(q)' = PasswordMatches(q)
      BY <2>1 DEF vars, Granted, HasEmail, Existing, PasswordMatches
    <3> QED
      BY <2>1, <3>1 DEF vars, AnswersInv, AnswerInv
  <2> QED
    BY <2>1, AnswersStay
<1>3. AnswersInv => AnswersWereTrue
  BY DEF AnswersInv, AnswerInv, AnswersWereTrue
<1> QED
  BY <1>1, <1>2, <1>3, TypeCorrect, EmailsUnique, IdentityCorrect, PTL DEF Spec
=============================================================================
