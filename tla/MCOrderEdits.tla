---------------------------- MODULE MCOrderEdits ----------------------------
(* Instances of OrderEdits for TLC: bodies that name each field alone and    *)
(* together, small amounts, one malformed symbol, two orderIds' worth of     *)
(* clashes, and exchange orders filled and not filled at all.                *)
EXTENDS OrderEdits, TLC

CONSTANTS ab, cd, bad, none    \* symbols

New(symbol, filled) ==
  [symbol |-> symbol, filled |-> filled, price |-> 1, datetime |-> 1]

MCCreateDtos ==
  { New(ab, 1) @@ [timestamp |-> 1],
    New(ab, 1) @@ [timestamp |-> 1, orderId |-> 7],
    New(bad, 1) @@ [timestamp |-> 1],
    New(cd, 2) }

MCPatchDtos ==
  { [filled |-> 2], [price |-> 2], [filled |-> 3, price |-> 3],
    [symbol |-> cd], [symbol |-> bad], [symbol |-> none], [orderId |-> 7], [datetime |-> 2] }

MCCcxtOrders ==
  { [id |-> 7, datetime |-> 1,
      symbol |-> ab, price |-> 2, amount |-> 3, filled |-> 3, cost |-> 6],
    [id |-> 8, datetime |-> 1,
      symbol |-> ab, price |-> 2, amount |-> 3, filled |-> 0, cost |-> 0] }

Symmetry == Permutations(Users) \cup Permutations(Requests)
=============================================================================
