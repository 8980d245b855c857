----------------------------- MODULE OrderEdits -----------------------------
(***************************************************************************)
(* Users creating, changing and deleting orders (POST, PATCH and DELETE    *)
(* /order), field by field, and what they are answered.  A change and a    *)
(* deletion read the row, give way at the await, and then write, so that   *)
(* requests overlap; rows imported from an exchange appear at any time.    *)
(*                                                                         *)
(* A DTO is a function on the fields its sender named.  Where OrderSync    *)
(* models who owns which order, this module models what a row says.        *)
(***************************************************************************)
EXTENDS Naturals, FiniteSets

CONSTANTS
  Users, Requests,
  Malformed,      \* symbols that do not split at one "/" into two parts
  EmptySymbol,    \* the empty string, which a PATCH may send and is falsy
  CreateDtos,     \* bodies of POST: partial functions on BodyFields
  PatchDtos,      \* bodies of PATCH
  CcxtOrders,     \* [id, datetime, symbol, price, amount, filled, cost]
  NoRow,
  RowBound        \* bound on the serial ids

RowIds == 1 .. RowBound
BodyFields == {"orderId", "symbol", "filled", "price", "datetime", "timestamp"}

ASSUME RowBoundAssumption == RowBound \in Nat
ASSUME DtosAssumption ==
  /\ \A d \in CreateDtos :
       /\ {"symbol", "filled", "price", "datetime"} \subseteq DOMAIN d
       /\ DOMAIN d \subseteq BodyFields
       /\ d.symbol # EmptySymbol     \* @IsNotEmpty
  /\ \A d \in PatchDtos : DOMAIN d \subseteq BodyFields

VARIABLES
  rows,     \* table order: a row, or NoRow, for every id
  next,     \* the sequence behind the serial id
  pc,       \* where each request is
  ask,      \* what it asks: method, user, id and body
  stale,    \* the row _getOrderById returned to it
  answer    \* what the client got: a status, or "raw"

vars == <<rows, next, pc, ask, stale, answer>>

Nothing == [f \in {} |-> 0]
Request ==
  [method : {"POST"}, user : Users, id : RowIds, dto : CreateDtos]
    \cup [method : {"PATCH"}, user : Users, id : RowIds, dto : PatchDtos]
    \cup [method : {"DELETE"}, user : Users, id : RowIds, dto : {Nothing}]

-----------------------------------------------------------------------------
(* Mapping DTOs to rows *)

\* Object.assign(a, b)
Assign(a, b) == [f \in DOMAIN a \cup DOMAIN b |->
                   IF f \in DOMAIN b THEN b[f] ELSE a[f]]

calculateOrderAmounts(filled, price) ==
  [filled |-> filled, price |-> price, cost |-> filled * price]

\* base, quote and currency, named by the symbol they were split from.
getTickerSymbols(symbol) == [parts |-> symbol]

\* Without a timestamp, BigInt(new Date(undefined).getTime()) throws.
CreateThrows(dto) == dto.symbol \in Malformed \/ "timestamp" \notin DOMAIN dto

\* Mutant: the parts of the symbol are forgotten.
CreateDtoWithoutParts(user, dto) ==
  Assign(Assign(dto, calculateOrderAmounts(dto.filled, dto.price)),
         [userId |-> user, createdBy |-> "USER"])

toCreateOrderDbDto(user, dto) ==
  Assign(Assign(Assign(dto, calculateOrderAmounts(dto.filled, dto.price)),
                getTickerSymbols(dto.symbol)),
         [userId |-> user, createdBy |-> "USER"])

\* Mutant: only the cost is written beside what the client named.
AmountsOfPatchCostOnly(dto, order) ==
  LET x == Assign(order, dto) IN
  IF {"filled", "price"} \cap DOMAIN dto = {} THEN Nothing
  ELSE [cost |-> x.filled * x.price]

\* The amounts a PATCH writes: all three when it names the amount or the price,
\* the one it does not name taken from the row read before.
AmountsOfPatch(dto, order) ==
  LET x == Assign(order, dto) IN
  IF {"filled", "price"} \cap DOMAIN dto = {} THEN Nothing
  ELSE calculateOrderAmounts(x.filled, x.price)

\* if (dto.symbol): the empty symbol is saved like any other, but not split.
NamesSymbol(dto) == "symbol" \in DOMAIN dto /\ dto.symbol # EmptySymbol

PatchThrows(dto) == NamesSymbol(dto) /\ dto.symbol \in Malformed
toUpdateOrderDbDto(dto, order) ==
  LET parts == IF NamesSymbol(dto) THEN getTickerSymbols(dto.symbol)
               ELSE Nothing
      stamp == IF "datetime" \in DOMAIN dto THEN [timestamp |-> dto.datetime]
               ELSE Nothing
  IN  Assign(Assign(Assign(dto, AmountsOfPatch(dto, order)), parts), stamp)

\* filled: ccxtOrder.filled || ccxtOrder.amount
ccxtToCreateOrderDbDto(user, x) ==
  [orderId |-> x.id, datetime |-> x.datetime, timestamp |-> x.datetime,
   symbol |-> x.symbol, parts |-> x.symbol, price |-> x.price,
   filled |-> IF x.filled # 0 THEN x.filled ELSE x.amount, cost |-> x.cost,
   userId |-> user, createdBy |-> "SCRIPT", rawData |-> x]

-----------------------------------------------------------------------------
(* Answering *)

\* What the handlers throw, as the transformer of setupPipes and
\* GlobalExceptionFilter send it to the client.  The filter calls getStatus on
\* what it gets and only HttpExceptions have it: on any other error it throws
\* itself before it has sent anything, and what the client gets is the page the
\* web framework falls back to (external), "raw".
Response(exception) ==
  CASE exception = "NotFoundException" -> "404"
    [] exception = "P2002"             -> "400"
    [] OTHER                           -> "raw"

Reply(q, status) ==
  /\ pc' = [pc EXCEPT ![q] = "answered"]
  /\ answer' = [answer EXCEPT ![q] = status]
  /\ stale' = [stale EXCEPT ![q] = NoRow]

\* Mutant: by id alone.
ReachesAny(user, id) == rows[id] # NoRow

\* The rows a PATCH or a DELETE of the user can reach: findFirst where userId
\* and id, as the where of the write.
Reaches(user, id) == rows[id] # NoRow /\ rows[id].userId = user

\* The unique index on orderId, which rows without one escape.
OrderIdTaken(dto, id) ==
  /\ "orderId" \in DOMAIN dto
  /\ \E other \in RowIds \ {id} :
       /\ rows[other] # NoRow
       /\ "orderId" \in DOMAIN rows[other]
       /\ rows[other].orderId = dto.orderId

-----------------------------------------------------------------------------
(* Handlers *)

\* A request reaches its handler.
Ask(q, method, user, id, dto) ==
  /\ pc[q] = "idle"
  /\ ask' = [ask EXCEPT ![q] = [method |-> method, user |-> user,
                                id |-> id, dto |-> dto]]

\* createOrder: the mapping is done before the insert is sent.
Create(q, user, dto) ==
  /\ next \in RowIds
  /\ Ask(q, "POST", user, next, dto)
  /\ \/ /\ CreateThrows(dto)
        /\ Reply(q, Response("Error"))
        /\ UNCHANGED <<rows, next>>
     \/ /\ ~CreateThrows(dto)
        /\ OrderIdTaken(dto, next)
        /\ Reply(q, Response("P2002"))
        /\ next' = next + 1
        /\ UNCHANGED rows
     \/ /\ ~CreateThrows(dto)
        /\ ~OrderIdTaken(dto, next)
        /\ rows' = [rows EXCEPT ![next] = toCreateOrderDbDto(user, dto)]
        /\ next' = next + 1
        /\ Reply(q, "201")

\* _getOrderById, of a PATCH or a DELETE
ReadRow(q, method, user, id, dto) ==
  /\ Ask(q, method, user, id, dto)
  /\ UNCHANGED <<rows, next>>
  /\ \/ /\ ~Reaches(user, id)
        /\ Reply(q, Response("NotFoundException"))
     \/ /\ Reaches(user, id)
        /\ pc' = [pc EXCEPT ![q] = "read"]
        /\ stale' = [stale EXCEPT ![q] = rows[id]]
        /\ UNCHANGED answer

\* The rest of updateOrderById.
Patch(q) ==
  LET id == ask[q].id  dto == ask[q].dto IN
  /\ pc[q] = "read"
  /\ ask[q].method = "PATCH"
  /\ UNCHANGED <<next, ask>>
  /\ \/ /\ PatchThrows(dto)
        /\ Reply(q, Response("Error"))
        /\ UNCHANGED rows
     \/ /\ ~PatchThrows(dto)
        /\ ~Reaches(ask[q].user, id)
        /\ Reply(q, Response("P2025"))
        /\ UNCHANGED rows
     \/ /\ ~PatchThrows(dto)
        /\ Reaches(ask[q].user, id)
        /\ OrderIdTaken(dto, id)
        /\ Reply(q, Response("P2002"))
        /\ UNCHANGED rows
     \/ /\ ~PatchThrows(dto)
        /\ Reaches(ask[q].user, id)
        /\ ~OrderIdTaken(dto, id)
        /\ rows' = [rows EXCEPT
             ![id] = Assign(@, toUpdateOrderDbDto(dto, stale[q]))]
        /\ Reply(q, "200")

\* Mutant: a row that is already gone counts as deleted.
DeletesAnyway(q) == TRUE

\* The delete finds the row and the user still owns it.
Deletes(q) == Reaches(ask[q].user, ask[q].id)

\* The rest of deleteOrderById.
Delete(q) ==
  /\ pc[q] = "read"
  /\ ask[q].method = "DELETE"
  /\ UNCHANGED <<next, ask>>
  /\ \/ /\ ~Deletes(q)
        /\ Reply(q, Response("P2025"))
        /\ UNCHANGED rows
     \/ /\ Deletes(q)
        /\ rows' = [rows EXCEPT ![ask[q].id] = NoRow]
        /\ Reply(q, "204")

\* A row saved by an import, see OrderSync; skipDuplicates leaves out the orders
\* whose orderId a row has.
ImportRow(user, x) ==
  /\ next \in RowIds
  /\ ~OrderIdTaken(ccxtToCreateOrderDbDto(user, x), next)
  /\ rows' = [rows EXCEPT ![next] = ccxtToCreateOrderDbDto(user, x)]
  /\ next' = next + 1
  /\ UNCHANGED <<pc, ask, stale, answer>>

-----------------------------------------------------------------------------

Init ==
  /\ rows = [id \in RowIds |-> NoRow]
  /\ next = 1
  /\ pc = [q \in Requests |-> "idle"]
  /\ ask = [q \in Requests |-> NoRow]
  /\ stale = [q \in Requests |-> NoRow]
  /\ answer = [q \in Requests |-> "pending"]

Begin(q) ==
  \E user \in Users :
    \/ \E dto \in CreateDtos : Create(q, user, dto)
    \/ \E id \in RowIds, dto \in PatchDtos : ReadRow(q, "PATCH", user, id, dto)
    \/ \E id \in RowIds : ReadRow(q, "DELETE", user, id, Nothing)

Next ==
  \/ \E q \in Requests : Begin(q) \/ Patch(q) \/ Delete(q)
  \/ \E user \in Users, x \in CcxtOrders : ImportRow(user, x)

Spec == Init /\ [][Next]_vars

-----------------------------------------------------------------------------
(* Properties *)

Stored == {id \in RowIds : rows[id] # NoRow}

RowFields == {"symbol", "parts", "filled", "price", "cost",
              "userId", "createdBy"}

TypeOK ==
  /\ next \in 1 .. RowBound + 1
  /\ DOMAIN rows = RowIds
  /\ \A id \in Stored : /\ id < next
                        /\ RowFields \subseteq DOMAIN rows[id]
                        /\ rows[id].userId \in Users
  /\ pc \in [Requests -> {"idle", "read", "answered"}]
  /\ ask \in [Requests -> Request \cup {NoRow}]
  /\ DOMAIN stale = Requests
  /\ answer \in [Requests ->
                  {"pending", "200", "201", "204", "400", "404", "raw"}]
  /\ \A q \in Requests :
       /\ pc[q] # "idle" => ask[q] \in Request
       /\ pc[q] = "read" => ask[q].method # "POST"
       /\ (stale[q] # NoRow) = (pc[q] = "read")
       /\ (answer[q] # "pending") = (pc[q] = "answered")

\* The fields computed from others agree with them in every row users created,
\* however their changes overlap: a PATCH writes the cost together with the
\* amount and the price it was computed from, one of them read before the await
\* (order-dto.mapper.ts 70-74), and the parts together with their symbol.
DerivedFieldsAgree ==
  \A id \in Stored :
    /\ rows[id].symbol # EmptySymbol => rows[id].parts = rows[id].symbol
    /\ rows[id].createdBy = "USER" =>
         rows[id].cost = rows[id].filled * rows[id].price

\* A request changes or deletes only rows of the user who sent it, however long
\* ago it read them.
OnlyOwnRows ==
  [][\A id \in Stored : rows'[id] # rows[id] =>
       \E q \in Requests : /\ pc[q] = "read" /\ pc'[q] = "answered"
                           /\ ask[q].id = id
                           /\ ask[q].user = rows[id].userId]_vars

\* Of the deletions of a row that overlap, one is told it succeeded.
OneDeletionSucceeds ==
  \A p, q \in Requests :
    /\ p # q
    /\ answer[p] = "204" /\ answer[q] = "204"
    => ask[p].id # ask[q].id

\* order-dto.mapper.ts 53-56: a change copies the properties of its body and
\* updates the cost, the parts and the timestamp.  What it does not name and
\* does not compute stays as it is.
PatchKeepsTheRest ==
  [][\A q \in Requests :
       LET id == ask[q].id IN
       pc[q] = "read" /\ ask[q].method = "PATCH" /\ answer'[q] = "200" =>
         \A f \in {"filled", "price", "symbol"} \ DOMAIN ask[q].dto :
           rows'[id][f] = rows[id][f]]_vars
=============================================================================
