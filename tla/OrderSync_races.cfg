\* Two overlapping imports of one account by two users, a page per order, a
\* row edited by hand, one restart.
CONSTANTS
  u1 = u1  u2 = u2  k2 = k2  k3 = k3  a1 = a1
  Users = {u1, u2}
  Keys = {k1, k2, k3}
  Accounts = {a1}
  OrderIds = {o1, o2}
  Syncs = {s1, s2}
  KeyOwner <- MCKeyOwner
  KeyAccount <- MCKeyAccount
  SyncableKeys <- MCSyncableKeys
  Unmappable = {}
  PageSize = 1
  Modes = {"ALL", "RECENT"}
  LateFills = TRUE
  NoKey = NoKey
  NoAccount = NoAccount
  NoRequest = NoRequest
  ClockBound = 1
  EditBound = 1
  CrashBound = 1
SPECIFICATION Spec
SYMMETRY Symmetry
INVARIANTS TypeOK OrderIdsUnique RowsFollowTheirImport NothingLost CountsAddUp
PROPERTIES Implements
CHECK_DEADLOCK FALSE
