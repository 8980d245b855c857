-------------------------- MODULE OrderEditsProofs --------------------------
(***************************************************************************)
(* Theorems about OrderEdits for every number of users, requests and rows, *)
(* whatever the bodies of the requests name and the exchanges return.      *)
(***************************************************************************)
EXTENDS OrderEdits, TLAPS

-----------------------------------------------------------------------------
(* What the mapping of the DTOs writes *)

Merges(c, a, b) ==
  /\ DOMAIN c = DOMAIN a \cup DOMAIN b
  /\ \A f \in DOMAIN b : c[f] = b[f]
  /\ \A f \in DOMAIN a \ DOMAIN b : c[f] = a[f]

LEMMA AssignMerges == \A a, b : Merges(Assign(a, b), a, b)
  BY DEF Assign, Merges

\* Rows that agree with themselves: the part of DerivedFieldsAgree that is
\* about one row.
Agrees(row) ==
  /\ row.symbol # EmptySymbol => row.parts = row.symbol
  /\ row.createdBy = "USER" => row.cost = row.filled * row.price

\* A row as createOrder inserts it.
LEMMA CreatedRow ==
  ASSUME NEW user \in Users, NEW dto \in CreateDtos
  PROVE  LET row == toCreateOrderDbDto(user, dto) IN
         /\ RowFields \subseteq DOMAIN row
         /\ row.userId = user
         /\ Agrees(row)
<1> DEFINE amounts == calculateOrderAmounts(dto.filled, dto.price)
           parts   == getTickerSymbols(dto.symbol)
           owner   == [userId |-> user, createdBy |-> "USER"]
           a == Assign(dto, amounts)
           b == Assign(a, parts)
           c == Assign(b, owner)
<1>1. {"symbol", "filled", "price", "datetime"} \subseteq DOMAIN dto
  BY DtosAssumption
<1>2. /\ DOMAIN amounts = {"filled", "price", "cost"}
      /\ amounts["cost"] = amounts["filled"] * amounts["price"]
  BY DEF calculateOrderAmounts
<1>3. DOMAIN parts = {"parts"} /\ parts["parts"] = dto["symbol"]
  BY DEF getTickerSymbols
<1>4. /\ DOMAIN owner = {"userId", "createdBy"}
      /\ owner["userId"] = user /\ owner["createdBy"] = "USER"
  OBVIOUS
<1>5. Merges(a, dto, amounts) /\ Merges(b, a, parts) /\ Merges(c, b, owner)
  BY AssignMerges
<1> HIDE DEF amounts, parts, owner, a, b, c
<1>6. /\ DOMAIN a = DOMAIN dto \cup {"filled", "price", "cost"}
      /\ a["symbol"] = dto["symbol"]
      /\ a["cost"] = a["filled"] * a["price"]
  BY <1>1, <1>2, <1>5 DEF Merges
<1>7. /\ DOMAIN b = DOMAIN dto \cup {"filled", "price", "cost", "parts"}
      /\ b["symbol"] = dto["symbol"] /\ b["parts"] = dto["symbol"]
      /\ b["cost"] = b["filled"] * b["price"]
  BY <1>1, <1>3, <1>5, <1>6 DEF Merges
<1>8. /\ RowFields \subseteq DOMAIN c
      /\ c["symbol"] = dto["symbol"] /\ c["parts"] = dto["symbol"]
      /\ c["cost"] = c["filled"] * c["price"]
      /\ c["userId"] = user
  BY <1>1, <1>4, <1>5, <1>7 DEF Merges, RowFields
<1>9. c = toCreateOrderDbDto(user, dto)
  BY DEF toCreateOrderDbDto, amounts, parts, owner, a, b, c
<1> QED
  BY <1>8, <1>9 DEF Agrees

\* What updateOrderById writes: the amount, the price and the cost together or
\* none of them; the symbol with its parts, or empty; never the owner.
LEMMA PatchedFields ==
  ASSUME NEW dto \in PatchDtos, NEW order
  PROVE  LET u == toUpdateOrderDbDto(dto, order) IN
         /\ {"userId", "createdBy"} \cap DOMAIN u = {}
         /\ \/ {"filled", "price", "cost"} \cap DOMAIN u = {}
            \/ /\ {"filled", "price", "cost"} \subseteq DOMAIN u
               /\ u.cost = u.filled * u.price
         /\ \/ {"symbol", "parts"} \cap DOMAIN u = {}
            \/ "symbol" \in DOMAIN u /\ u.symbol = EmptySymbol
            \/ /\ {"symbol", "parts"} \subseteq DOMAIN u
               /\ u.parts = u.symbol
<1> DEFINE amounts == AmountsOfPatch(dto, order)
           parts == IF NamesSymbol(dto) THEN getTickerSymbols(dto.symbol)
                    ELSE Nothing
           stamp == IF "datetime" \in DOMAIN dto
                    THEN [timestamp |-> dto.datetime] ELSE Nothing
           a == Assign(dto, amounts)
           b == Assign(a, parts)
           c == Assign(b, stamp)
<1>1. DOMAIN dto \subseteq BodyFields
  BY DtosAssumption
<1>2. /\ {"filled", "price"} \cap DOMAIN dto = {} => DOMAIN amounts = {}
      /\ {"filled", "price"} \cap DOMAIN dto # {} =>
           /\ DOMAIN amounts = {"filled", "price", "cost"}
           /\ amounts["cost"] = amounts["filled"] * amounts["price"]
  BY DEF AmountsOfPatch, Nothing, calculateOrderAmounts
<1>3. /\ NamesSymbol(dto) =>
           DOMAIN parts = {"parts"} /\ parts["parts"] = dto["symbol"]
      /\ ~NamesSymbol(dto) => DOMAIN parts = {}
  BY DEF getTickerSymbols, Nothing
<1>4. DOMAIN stamp \subseteq {"timestamp"}
  BY DEF Nothing
<1>5. Merges(a, dto, amounts) /\ Merges(b, a, parts) /\ Merges(c, b, stamp)
  BY AssignMerges
<1>6. c = toUpdateOrderDbDto(dto, order)
  BY DEF toUpdateOrderDbDto
<1> HIDE DEF amounts, parts, stamp, a, b, c
<1>7. DOMAIN c = DOMAIN dto \cup DOMAIN amounts \cup DOMAIN parts \cup DOMAIN stamp
  BY <1>5 DEF Merges
<1>8. /\ "symbol" \in DOMAIN dto => c["symbol"] = dto["symbol"]
      /\ NamesSymbol(dto) => c["parts"] = dto["symbol"]
      /\ {"filled", "price"} \cap DOMAIN dto # {} =>
           c["cost"] = c["filled"] * c["price"]
  <2>1. "symbol" \in DOMAIN dto => c["symbol"] = dto["symbol"]
    BY <1>2, <1>3, <1>4, <1>5 DEF Merges
  <2>2. NamesSymbol(dto) => c["parts"] = dto["symbol"]
    BY <1>3, <1>4, <1>5 DEF Merges
  <2>3. ASSUME {"filled", "price"} \cap DOMAIN dto # {},
               NEW f \in {"filled", "price", "cost"}
        PROVE  c[f] = amounts[f]
    BY <1>2, <1>3, <1>4, <1>5, <2>3 DEF Merges
  <2> QED
    BY <1>2, <2>1, <2>2, <2>3
<1>9. {"userId", "createdBy"} \cap DOMAIN c = {}
  BY <1>1, <1>2, <1>3, <1>4, <1>7, <1>8 DEF BodyFields
<1>10. \/ {"filled", "price", "cost"} \cap DOMAIN c = {}
       \/ /\ {"filled", "price", "cost"} \subseteq DOMAIN c
          /\ c["cost"] = c["filled"] * c["price"]
  BY <1>1, <1>2, <1>3, <1>4, <1>7, <1>8 DEF BodyFields
<1>11. \/ {"symbol", "parts"} \cap DOMAIN c = {}
       \/ "symbol" \in DOMAIN c /\ c["symbol"] = EmptySymbol
       \/ /\ {"symbol", "parts"} \subseteq DOMAIN c
          /\ c["parts"] = c["symbol"]
  BY <1>1, <1>2, <1>3, <1>4, <1>7, <1>8 DEF BodyFields, NamesSymbol
<1> QED
  BY <1>6, <1>9, <1>10, <1>11

\* A change leaves a row with its owner, its fields and its agreement,
\* whichever row it was computed from.
LEMMA PatchedRow ==
  ASSUME NEW dto \in PatchDtos, NEW order, NEW row,
         RowFields \subseteq DOMAIN row
  PROVE  LET new == Assign(row, toUpdateOrderDbDto(dto, order)) IN
         /\ RowFields \subseteq DOMAIN new
         /\ new.userId = row.userId
         /\ Agrees(row) => Agrees(new)
<1> DEFINE u == toUpdateOrderDbDto(dto, order)
           new == Assign(row, u)
<1>1. /\ {"userId", "createdBy"} \cap DOMAIN u = {}
      /\ \/ {"filled", "price", "cost"} \cap DOMAIN u = {}
         \/ /\ {"filled", "price", "cost"} \subseteq DOMAIN u
            /\ u["cost"] = u["filled"] * u["price"]
      /\ \/ {"symbol", "parts"} \cap DOMAIN u = {}
         \/ "symbol" \in DOMAIN u /\ u["symbol"] = EmptySymbol
         \/ /\ {"symbol", "parts"} \subseteq DOMAIN u
            /\ u["parts"] = u["symbol"]
  BY PatchedFields
<1>2. Merges(new, row, u)
  BY AssignMerges
<1> HIDE DEF u, new
<1>3. RowFields \subseteq DOMAIN new /\ new["userId"] = row["userId"]
  BY <1>1, <1>2 DEF Merges, RowFields
<1>4. new["createdBy"] = row["createdBy"]
  BY <1>1, <1>2 DEF Merges, RowFields
<1>5. ASSUME Agrees(row)
      PROVE  Agrees(new)
  <2>1. new["symbol"] # EmptySymbol => new["parts"] = new["symbol"]
    BY <1>1, <1>2, <1>5 DEF Merges, Agrees, RowFields
  <2>2. new["createdBy"] = "USER" => new["cost"] = new["filled"] * new["price"]
    <3>1. CASE {"filled", "price", "cost"} \cap DOMAIN u = {}
      BY <1>2, <1>4, <1>5, <3>1 DEF Merges, Agrees, RowFields
    <3>2. CASE /\ {"filled", "price", "cost"} \subseteq DOMAIN u
               /\ u["cost"] = u["filled"] * u["price"]
      BY <1>2, <3>2 DEF Merges
    <3> QED
      BY <1>1, <3>1, <3>2
  <2> QED
    BY <2>1, <2>2 DEF Agrees
<1> QED
  BY <1>3, <1>5 DEF u, new

\* A row as an import saves it.
LEMMA ImportedRow ==
  ASSUME NEW user \in Users, NEW x
  PROVE  LET row == ccxtToCreateOrderDbDto(user, x) IN
         /\ RowFields \subseteq DOMAIN row
         /\ row.userId = user
         /\ Agrees(row)
  BY DEF ccxtToCreateOrderDbDto, RowFields, Agrees

-----------------------------------------------------------------------------
(* Type correctness *)

LEMMA InitType == Init => TypeOK
  BY RowBoundAssumption DEF Init, TypeOK, Stored

Statuses == {"200", "201", "204", "400", "404", "raw"}

LEMMA ResponseType == \A x : Response(x) \in {"400", "404", "raw"}
  BY DEF Response

\* A request that is answered.
LEMMA ReplyType ==
  ASSUME TypeOK, NEW q \in Requests, ask'[q] \in Request,
         NEW status \in Statuses, Reply(q, status)
  PROVE  /\ pc' \in [Requests -> {"idle", "read", "answered"}]
         /\ DOMAIN stale' = Requests
         /\ answer' \in [Requests -> Statuses \cup {"pending"}]
         /\ pc'[q] # "idle" => ask'[q] \in Request
         /\ pc'[q] # "read"
         /\ (stale'[q] # NoRow) = (pc'[q] = "read")
         /\ (answer'[q] # "pending") = (pc'[q] = "answered")
         /\ \A p \in Requests \ {q} :
              pc'[p] = pc[p] /\ stale'[p] = stale[p] /\ answer'[p] = answer[p]
  BY DEF TypeOK, Reply, Statuses

\* The conjuncts about the table, and those about the requests.
RowsOK ==
  /\ next \in 1 .. RowBound + 1
  /\ DOMAIN rows = RowIds
  /\ \A id \in Stored : /\ id < next
                        /\ RowFields \subseteq DOMAIN rows[id]
                        /\ rows[id].userId \in Users

RequestsOK ==
  /\ pc \in [Requests -> {"idle", "read", "answered"}]
  /\ ask \in [Requests -> Request \cup {NoRow}]
  /\ DOMAIN stale = Requests
  /\ answer \in [Requests -> Statuses \cup {"pending"}]
  /\ \A q \in Requests :
       /\ pc[q] # "idle" => ask[q] \in Request
       /\ pc[q] = "read" => ask[q].method # "POST"
       /\ (stale[q] # NoRow) = (pc[q] = "read")
       /\ (answer[q] # "pending") = (pc[q] = "answered")

LEMMA TypeParts ==
  /\ TypeOK <=> (RowsOK /\ RequestsOK)
  /\ TypeOK' <=> (RowsOK' /\ RequestsOK')
  BY DEF TypeOK, RowsOK, RequestsOK, Statuses

LEMMA AskType ==
  ASSUME TypeOK, NEW q \in Requests, NEW method, NEW user, NEW id, NEW dto,
         [method |-> method, user |-> user, id |-> id, dto |-> dto] \in Request,
         Ask(q, method, user, id, dto)
  PROVE  /\ ask' \in [Requests -> Request \cup {NoRow}]
         /\ ask'[q] \in Request
         /\ ask'[q] = [method |-> method, user |-> user, id |-> id, dto |-> dto]
         /\ \A p \in Requests \ {q} : ask'[p] = ask[p]
  BY DEF TypeOK, Ask

LEMMA ReplyKeepsRequests ==
  ASSUME TypeOK, NEW q \in Requests, NEW status \in Statuses, Reply(q, status),
         ask' \in [Requests -> Request \cup {NoRow}],
         ask'[q] \in Request,
         \A p \in Requests \ {q} : ask'[p] = ask[p]
  PROVE  RequestsOK'
<1>1. RequestsOK
  BY TypeParts
<1> QED
  BY <1>1, ReplyType DEF RequestsOK

\* A row added under the next id.
LEMMA AddedRow ==
  ASSUME TypeOK, next \in RowIds, NEW row, RowFields \subseteq DOMAIN row,
         row.userId \in Users,
         rows' = [rows EXCEPT ![next] = row], next' = next + 1
  PROVE  RowsOK'
<1>1. RowsOK
  BY TypeParts
<1>2. DOMAIN rows' = RowIds /\ next' \in 1 .. RowBound + 1
  BY <1>1, RowBoundAssumption DEF RowsOK, RowIds
<1>3. ASSUME NEW id \in Stored'
      PROVE  /\ id < next'
             /\ RowFields \subseteq DOMAIN rows'[id]
             /\ rows'[id].userId \in Users
  <2>1. CASE id = next
    BY <1>1, <2>1, RowBoundAssumption DEF RowsOK, RowIds
  <2>2. CASE id # next
    <3>1. id \in RowIds /\ rows'[id] = rows[id]
      BY <1>1, <2>2 DEF RowsOK, Stored
    <3>2. id \in Stored
      BY <1>3, <3>1 DEF Stored
    <3> QED
      BY <1>1, <3>1, <3>2, RowBoundAssumption DEF RowsOK, RowIds
  <2> QED
    BY <2>1, <2>2
<1> QED
  BY <1>2, <1>3 DEF RowsOK

LEMMA CreateType ==
  ASSUME TypeOK, NEW q \in Requests, NEW user \in Users, NEW dto \in CreateDtos,
         Create(q, user, dto)
  PROVE  TypeOK'
<1>1. [method |-> "POST", user |-> user, id |-> next, dto |-> dto] \in Request
  BY DEF Create, Request
<1>2. /\ ask' \in [Requests -> Request \cup {NoRow}]
      /\ ask'[q] \in Request
      /\ \A p \in Requests \ {q} : ask'[p] = ask[p]
  BY <1>1, AskType DEF Create
<1>3. \E status \in Statuses : Reply(q, status)
  BY ResponseType DEF Create, Statuses
<1>4. RequestsOK'
  BY <1>2, <1>3, ReplyKeepsRequests
<1>5. RowsOK /\ next \in RowIds
  BY TypeParts DEF Create
<1>6. ASSUME rows' = rows, next' \in {next, next + 1}
      PROVE  RowsOK'
  BY <1>5, <1>6, RowBoundAssumption DEF RowsOK, RowIds, Stored
<1>7. ASSUME rows' = [rows EXCEPT ![next] = toCreateOrderDbDto(user, dto)],
             next' = next + 1
      PROVE  RowsOK'
  <2>1. /\ RowFields \subseteq DOMAIN toCreateOrderDbDto(user, dto)
        /\ toCreateOrderDbDto(user, dto).userId \in Users
    BY CreatedRow
  <2> QED
    BY <1>5, <1>7, <2>1, AddedRow
<1> QED
  BY <1>4, <1>6, <1>7, TypeParts DEF Create

LEMMA ReadRowType ==
  ASSUME TypeOK, NEW q \in Requests, NEW method, NEW user \in Users,
         NEW id \in RowIds, NEW dto,
         \/ method = "PATCH" /\ dto \in PatchDtos
         \/ method = "DELETE" /\ dto = Nothing,
         ReadRow(q, method, user, id, dto)
  PROVE  TypeOK'
<1>1. [method |-> method, user |-> user, id |-> id, dto |-> dto] \in Request
  BY DEF Request
<1>2. /\ ask' \in [Requests -> Request \cup {NoRow}]
      /\ ask'[q] \in Request /\ ask'[q].method # "POST"
      /\ \A p \in Requests \ {q} : ask'[p] = ask[p]
  BY <1>1, AskType DEF ReadRow
<1>3. RowsOK'
  BY TypeParts DEF ReadRow, RowsOK, Stored
<1>4. ASSUME Reply(q, Response("NotFoundException"))
      PROVE  RequestsOK'
  BY <1>2, <1>4, ResponseType, ReplyKeepsRequests DEF Statuses
<1>5. ASSUME Reaches(user, id), pc' = [pc EXCEPT ![q] = "read"],
             stale' = [stale EXCEPT ![q] = rows[id]], UNCHANGED answer
      PROVE  RequestsOK'
  <2>1. RequestsOK /\ pc[q] = "idle"
    BY TypeParts DEF ReadRow, Ask
  <2> QED
    BY <1>2, <1>5, <2>1 DEF RequestsOK, Reaches
<1> QED
  BY <1>3, <1>4, <1>5, TypeParts DEF ReadRow

\* What a request asks while it is read.
LEMMA WhatIsRead ==
  ASSUME TypeOK, NEW q \in Requests, pc[q] = "read"
  PROVE  /\ ask[q] \in Request /\ ask[q].id \in RowIds
         /\ ask[q].method = "PATCH" => ask[q].dto \in PatchDtos
  BY DEF TypeOK, Request

LEMMA PatchType ==
  ASSUME TypeOK, NEW q \in Requests, Patch(q)
  PROVE  TypeOK'
<1> DEFINE id == ask[q].id
           new == Assign(rows[id], toUpdateOrderDbDto(ask[q].dto, stale[q]))
<1>1. /\ ask[q] \in Request /\ ask' = ask /\ id \in RowIds
      /\ ask[q].dto \in PatchDtos
  BY WhatIsRead DEF Patch
<1>2. \E status \in Statuses : Reply(q, status)
  BY ResponseType DEF Patch, Statuses
<1>3. RowsOK /\ RequestsOK /\ next' = next
  BY TypeParts DEF Patch
<1>4. RequestsOK'
  BY <1>1, <1>2, <1>3, ReplyKeepsRequests DEF RequestsOK
<1>5. ASSUME rows' = rows
      PROVE  RowsOK'
  BY <1>3, <1>5 DEF RowsOK, Stored
<1>6. ASSUME Reaches(ask[q].user, id), rows' = [rows EXCEPT ![id] = new]
      PROVE  RowsOK'
  <2>1. id \in Stored
    BY <1>1, <1>6 DEF Reaches, Stored
  <2>2. /\ RowFields \subseteq DOMAIN new
        /\ new.userId = rows[id].userId
    BY <1>1, <1>3, <2>1, PatchedRow DEF RowsOK
  <2> HIDE DEF new
  <2> QED
    BY <1>1, <1>3, <1>6, <2>1, <2>2 DEF RowsOK, Stored
<1> QED
  BY <1>4, <1>5, <1>6, TypeParts DEF Patch

LEMMA DeleteType ==
  ASSUME TypeOK, NEW q \in Requests, Delete(q)
  PROVE  TypeOK'
<1>1. ask[q] \in Request /\ ask' = ask /\ ask[q].id \in RowIds
  BY WhatIsRead DEF Delete
<1>2. \E status \in Statuses : Reply(q, status)
  BY ResponseType DEF Delete, Statuses
<1>3. RowsOK /\ RequestsOK /\ next' = next
  BY TypeParts DEF Delete
<1>4. RequestsOK'
  BY <1>1, <1>2, <1>3, ReplyKeepsRequests DEF RequestsOK
<1>5. RowsOK'
  BY <1>1, <1>3 DEF Delete, RowsOK, Stored
<1> QED
  BY <1>4, <1>5, TypeParts

LEMMA ImportType ==
  ASSUME TypeOK, NEW user \in Users, NEW x \in CcxtOrders, ImportRow(user, x)
  PROVE  TypeOK'
<1>1. /\ RowFields \subseteq DOMAIN ccxtToCreateOrderDbDto(user, x)
      /\ ccxtToCreateOrderDbDto(user, x).userId = user
  BY ImportedRow
<1>2. RowsOK'
  BY <1>1, AddedRow DEF ImportRow
<1>3. RequestsOK'
  BY TypeParts DEF ImportRow, RequestsOK
<1> QED
  BY <1>2, <1>3, TypeParts

\* The steps of Next, one at a time.
LEMMA StepCases ==
  ASSUME Next
  PROVE  \/ \E q \in Requests, user \in Users, dto \in CreateDtos :
              Create(q, user, dto)
         \/ \E q \in Requests, user \in Users, id \in RowIds, dto \in PatchDtos :
              ReadRow(q, "PATCH", user, id, dto)
         \/ \E q \in Requests, user \in Users, id \in RowIds :
              ReadRow(q, "DELETE", user, id, Nothing)
         \/ \E q \in Requests : Patch(q)
         \/ \E q \in Requests : Delete(q)
         \/ \E user \in Users, x \in CcxtOrders : ImportRow(user, x)
  BY DEF Next, Begin

\* The variables keep their types: among them that ids are never reused and
\* that every row keeps its fields and an owner.
THEOREM TypeCorrect == Spec => []TypeOK
<1>1. ASSUME TypeOK, [Next]_vars
      PROVE  TypeOK'
  <2>1. CASE Next
    BY <1>1, <2>1, StepCases, CreateType, ReadRowType, PatchType, DeleteType,
       ImportType
  <2>2. CASE UNCHANGED vars
    BY <1>1, <2>2 DEF vars, TypeOK, Stored
  <2> QED
    BY <1>1, <2>1, <2>2
<1> QED
  BY <1>1, InitType, PTL DEF Spec

-----------------------------------------------------------------------------
(* Fields computed from others *)

LEMMA AgreementStays ==
  ASSUME TypeOK, DerivedFieldsAgree, [Next]_vars
  PROVE  DerivedFieldsAgree'
<1>1. /\ \A id \in Stored : Agrees(rows[id])
      /\ DOMAIN rows = RowIds
  BY DEF DerivedFieldsAgree, Agrees, TypeOK
<1>2. ASSUME NEW id \in RowIds, rows'[id] # rows[id], rows'[id] # NoRow
      PROVE  Agrees(rows'[id])
  <2>1. CASE Next
    <3>1. ASSUME NEW q \in Requests, NEW user \in Users, NEW dto \in CreateDtos,
                 Create(q, user, dto)
          PROVE  rows'[id] = toCreateOrderDbDto(user, dto)
      BY <1>1, <1>2, <3>1 DEF Create
    <3>2. ASSUME NEW q \in Requests, Patch(q)
          PROVE  /\ id \in Stored /\ ask[q].dto \in PatchDtos
                 /\ rows'[id] = Assign(rows[id],
                                  toUpdateOrderDbDto(ask[q].dto, stale[q]))
      BY <1>1, <1>2, <3>2, WhatIsRead DEF Patch, Reaches, Stored
    <3>3. ASSUME NEW user \in Users, NEW x \in CcxtOrders, ImportRow(user, x)
          PROVE  rows'[id] = ccxtToCreateOrderDbDto(user, x)
      BY <1>1, <1>2, <3>3 DEF ImportRow
    <3>4. ASSUME NEW q \in Requests, Patch(q)
          PROVE  Agrees(rows'[id])
      <4>1. RowFields \subseteq DOMAIN rows[id] /\ Agrees(rows[id])
        BY <1>1, <3>2, <3>4 DEF TypeOK
      <4> QED
        BY <3>2, <3>4, <4>1, PatchedRow
    <3>5. ASSUME NEW q \in Requests, Delete(q)
          PROVE  FALSE
      BY <1>1, <1>2, <3>5 DEF Delete
    <3> QED
      BY <1>2, <2>1, <3>1, <3>3, <3>4, <3>5, StepCases, CreatedRow, ImportedRow
      DEF ReadRow
  <2>2. CASE UNCHANGED vars
    BY <1>2, <2>2 DEF vars
  <2> QED
    BY <2>1, <2>2
<1>3. \A id \in Stored' : Agrees(rows'[id])
  BY <1>1, <1>2 DEF Stored
<1> QED
  BY <1>3 DEF DerivedFieldsAgree, Agrees

\* The cost of a row that a user created is its amount times its price, and the
\* parts of every row are those of its symbol, however changes overlap.
THEOREM FieldsAgree == Spec => []DerivedFieldsAgree
<1>1. Init => DerivedFieldsAgree
  BY DEF Init, DerivedFieldsAgree, Stored
<1> QED
  BY <1>1, AgreementStays, TypeCorrect, PTL DEF Spec

-----------------------------------------------------------------------------
(* Deletions *)

\* Who is told a row was deleted asked for that, and the row is gone: ids are
\* not used again.
DeletedInv ==
  \A q \in Requests : answer[q] = "204" =>
    /\ ask[q].id < next
    /\ rows[ask[q].id] = NoRow

DeletionInv == DeletedInv /\ OneDeletionSucceeds

\* A step may answer one request; the others keep their question and answer.
LEMMA OneIsAnswered ==
  ASSUME TypeOK, Next
  PROVE  \/ /\ UNCHANGED answer
            /\ \A p \in Requests : answer[p] # "pending" => ask'[p] = ask[p]
         \/ \E q \in Requests :
              /\ answer[q] = "pending"
              /\ answer'[q] = "204" => Delete(q)
              /\ \A p \in Requests \ {q} :
                   answer'[p] = answer[p] /\ ask'[p] = ask[p]
<1>1. ASSUME NEW q \in Requests, NEW user \in Users, NEW dto \in CreateDtos,
             Create(q, user, dto)
      PROVE  /\ answer[q] = "pending" /\ answer'[q] # "204"
             /\ \A p \in Requests \ {q} :
                  answer'[p] = answer[p] /\ ask'[p] = ask[p]
  BY <1>1 DEF Create, Ask, Reply, Response, TypeOK
<1>2. ASSUME NEW q \in Requests, NEW method, NEW user, NEW id, NEW dto,
             ReadRow(q, method, user, id, dto)
      PROVE  /\ answer[q] = "pending" /\ answer'[q] # "204"
             /\ \A p \in Requests \ {q} :
                  answer'[p] = answer[p] /\ ask'[p] = ask[p]
  BY <1>2 DEF ReadRow, Ask, Reply, Response, TypeOK
<1>3. ASSUME NEW q \in Requests, Patch(q)
      PROVE  /\ answer[q] = "pending" /\ answer'[q] # "204"
             /\ \A p \in Requests \ {q} :
                  answer'[p] = answer[p] /\ ask'[p] = ask[p]
  BY <1>3 DEF Patch, Reply, Response, TypeOK
<1>4. ASSUME NEW q \in Requests, Delete(q)
      PROVE  /\ answer[q] = "pending"
             /\ \A p \in Requests \ {q} :
                  answer'[p] = answer[p] /\ ask'[p] = ask[p]
  BY <1>4 DEF Delete, Reply, TypeOK
<1> QED
  BY <1>1, <1>2, <1>3, <1>4, StepCases DEF ImportRow

\* What happens to the table: a row is added under the next id, or a row that
\* is there is changed or taken away.
LEMMA RowsChange ==
  ASSUME TypeOK, Next
  PROVE  /\ next' \in {next, next + 1}
         /\ \A id \in RowIds : rows[id] = NoRow /\ rows'[id] # NoRow => id = next
  <1>1. DOMAIN rows = RowIds
    BY DEF TypeOK
  <1> QED
    BY <1>1, StepCases DEF Create, ReadRow, Patch, Delete, ImportRow, Reaches,
       Deletes

LEMMA DeletionStays ==
  ASSUME TypeOK, DeletionInv, [Next]_vars
  PROVE  DeletionInv'
<1>1. CASE UNCHANGED vars
  BY <1>1 DEF vars, DeletionInv, DeletedInv, OneDeletionSucceeds
<1>2. ASSUME Next, NEW p \in Requests, answer'[p] = "204", answer[p] = "204"
      PROVE  /\ ask'[p] = ask[p] /\ ask[p].id \in RowIds
             /\ ask[p].id < next' /\ rows[ask[p].id] = NoRow
             /\ rows'[ask[p].id] = NoRow
  <2>1. ask'[p] = ask[p]
    BY <1>2, OneIsAnswered
  <2>2. ask[p].id \in RowIds
    BY <1>2 DEF TypeOK, Request
  <2>3. ask[p].id < next /\ rows[ask[p].id] = NoRow
    BY <1>2 DEF DeletionInv, DeletedInv
  <2>4. ask[p].id < next'
    BY <1>2, <2>2, <2>3, RowsChange, RowBoundAssumption DEF RowIds, TypeOK
  <2>5. rows'[ask[p].id] = NoRow
    BY <1>2, <2>2, <2>3, RowsChange, RowBoundAssumption DEF RowIds, TypeOK
  <2> QED
    BY <2>1, <2>2, <2>3, <2>4, <2>5
<1>3. ASSUME Next, NEW p \in Requests, answer'[p] = "204", answer[p] # "204"
      PROVE  /\ Delete(p)
             /\ \A x \in Requests \ {p} : answer'[x] = answer[x]
  BY <1>3, OneIsAnswered
<1>4. ASSUME NEW p \in Requests, answer'[p] = "204", Delete(p)
      PROVE  /\ ask'[p] = ask[p] /\ ask[p].id \in RowIds
             /\ ask[p].id < next' /\ rows[ask[p].id] # NoRow
             /\ rows'[ask[p].id] = NoRow
  <2>1. Deletes(p)
    BY <1>4, ResponseType DEF Delete, Reply, Response, TypeOK
  <2>2. ask[p].id \in RowIds /\ ask[p].id \in Stored
    BY <1>4, <2>1, WhatIsRead DEF Delete, Deletes, Reaches, Stored
  <2> QED
    BY <1>4, <2>1, <2>2 DEF Delete, TypeOK, Deletes, Reaches
<1>5. CASE Next
  <2>1. DeletedInv'
    BY <1>2, <1>3, <1>4, <1>5 DEF DeletedInv
  <2>2. ASSUME NEW p \in Requests, NEW q \in Requests, p # q,
               answer'[p] = "204", answer'[q] = "204"
        PROVE  ask'[p].id # ask'[q].id
    <3>1. CASE answer[p] = "204" /\ answer[q] = "204"
      BY <1>2, <1>5, <2>2, <3>1 DEF DeletionInv, OneDeletionSucceeds
    <3>2. CASE answer[p] = "204" /\ answer[q] # "204"
      BY <1>2, <1>3, <1>4, <1>5, <2>2, <3>2
    <3>3. CASE answer[p] # "204" /\ answer[q] = "204"
      BY <1>2, <1>3, <1>4, <1>5, <2>2, <3>3
    <3>4. CASE answer[p] # "204" /\ answer[q] # "204"
      BY <1>3, <1>5, <2>2, <3>4
    <3> QED
      BY <3>1, <3>2, <3>3, <3>4
  <2>3. OneDeletionSucceeds'
    BY <2>2 DEF OneDeletionSucceeds
  <2> QED
    BY <2>1, <2>3 DEF DeletionInv
<1> QED
  BY <1>1, <1>5

\* Of the deletions of a row that overlap, at most one is told it succeeded.
THEOREM DeletionsSucceedOnce == Spec => []OneDeletionSucceeds
<1>1. Init => DeletionInv
  BY DEF Init, DeletionInv, DeletedInv, OneDeletionSucceeds
<1>2. DeletionInv => OneDeletionSucceeds
  BY DEF DeletionInv
<1> QED
  BY <1>1, <1>2, DeletionStays, TypeCorrect, PTL DEF Spec

-----------------------------------------------------------------------------
(* Whose rows a request touches *)

\* A row is changed or deleted only while a request of its owner, which read it
\* before, is answered.
THEOREM RowsAreTheirOwners == Spec => OnlyOwnRows
<1> DEFINE Own ==
      \A id \in Stored : rows'[id] # rows[id] =>
        \E q \in Requests : /\ pc[q] = "read" /\ pc'[q] = "answered"
                            /\ ask[q].id = id
                            /\ ask[q].user = rows[id].userId
<1>1. ASSUME TypeOK, Next
      PROVE  Own
  <2>1. SUFFICES ASSUME NEW id \in Stored, rows'[id] # rows[id]
                 PROVE  \E q \in Requests :
                          /\ pc[q] = "read" /\ pc'[q] = "answered"
                          /\ ask[q].id = id
                          /\ ask[q].user = rows[id].userId
    OBVIOUS
  <2>2. DOMAIN rows = RowIds /\ id \in RowIds /\ id < next
    BY <1>1 DEF TypeOK, Stored
  <2>3. \/ rows' = rows
        \/ \E row : rows' = [rows EXCEPT ![next] = row]
        \/ \E q \in Requests : Patch(q) \/ Delete(q)
    BY <1>1, StepCases DEF Create, ReadRow, ImportRow
  <2>4. PICK q \in Requests : Patch(q) \/ Delete(q)
    <3>1. id # next
      BY <2>2, RowBoundAssumption, <1>1 DEF TypeOK, RowIds
    <3> QED
      BY <2>1, <2>2, <2>3, <3>1
  <2>5. pc[q] = "read" /\ pc'[q] = "answered"
    BY <1>1, <2>4 DEF Patch, Delete, Reply, TypeOK
  <2>6. ask[q].id = id /\ Reaches(ask[q].user, ask[q].id)
    BY <2>1, <2>2, <2>4 DEF Patch, Delete, Deletes
  <2> QED
    BY <2>5, <2>6 DEF Reaches
<1>2. ASSUME TypeOK, [Next]_vars
      PROVE  [Own]_vars
  BY <1>1, <1>2
<1> QED
  BY <1>2, TypeCorrect, PTL DEF Spec, OnlyOwnRows
=============================================================================
