\* One client walks a listing of up to four rows, among rows of another user,
\* by pages of one and two, as far as the offset two.
CONSTANTS
  Users = {u1, u2}
  Walks = {w1}
  Limits = {1, 2}
  MaxOffset = 2
  NoWalk = NoWalk
  TimeBound = 2
  RowBound = 4
  RemovalBound = 1
SPECIFICATION Spec
SYMMETRY Symmetry
INVARIANTS TypeOK SkipsAreBounded RepeatsAreBounded RefusedFarOut
CHECK_DEADLOCK FALSE
