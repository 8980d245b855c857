\* A change leaves alone what it does not name.
CONSTANTS
  ab = ab  cd = cd  bad = bad  none = none
  Users = {u1, u2}
  Requests = {q1, q2, q3}
  Malformed = {bad}
  EmptySymbol = none
  CreateDtos <- MCCreateDtos
  PatchDtos <- MCPatchDtos
  CcxtOrders <- MCCcxtOrders
  NoRow = NoRow
  RowBound = 2
SPECIFICATION Spec
SYMMETRY Symmetry
PROPERTY PatchKeepsTheRest
CHECK_DEADLOCK FALSE
