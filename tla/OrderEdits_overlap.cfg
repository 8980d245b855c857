\* Three requests of two users over two rows, one of which may be imported.
CONSTANTS
  ab = ab  cd = cd  bad = bad  none = none
  Users = {u1, u2}
  Requests = {q1, q2, q3}
  Malformed = {bad}
  EmptySymbol = none
  CreateDtos <- MCCreateDtos
  PatchDtos <- MCPatchDtos
  CcxtOrders <- MCCcxtOrders
  NoRow = NoRow
  RowBound = 2
SPECIFICATION Spec
SYMMETRY Symmetry
INVARIANTS TypeOK DerivedFieldsAgree OneDeletionSucceeds
PROPERTIES OnlyOwnRows
CHECK_DEADLOCK FALSE
