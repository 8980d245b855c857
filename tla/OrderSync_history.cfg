\* Three imports of one key in the modes that continue its history.
CONSTANTS
  u1 = u1  u2 = u2  k2 = k2  k3 = k3  a1 = a1
  Users = {u1}
  Keys = {k1}
  Accounts = {a1}
  OrderIds = {o1, o2, o3}
  Syncs = {s1, s2, s3}
  KeyOwner <- MCKeyOwner
  KeyAccount <- MCKeyAccount
  SyncableKeys <- MCSyncableKeys
  Unmappable = {}
  PageSize = 2
  Modes = {"ALL", "RECENT"}
  LateFills = FALSE
  NoKey = NoKey
  NoAccount = NoAccount
  NoRequest = NoRequest
  ClockBound = 2
  EditBound = 0
  CrashBound = 0
SPECIFICATION Spec
SYMMETRY Symmetry
INVARIANTS NoGaps NothingLost
CHECK_DEADLOCK FALSE
