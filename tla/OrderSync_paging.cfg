\* One import over pages of two while its account goes on closing orders, one of
\* which cannot be mapped: windows of exactly one page occur, calls may fail, and
\* the import ends.
CONSTANTS
  u1 = u1  u2 = u2  k2 = k2  k3 = k3  a1 = a1
  Users = {u1, u2}
  Keys = {k1, k2, k3}
  Accounts = {a1}
  OrderIds = {o1, o2, o3, o4}
  Syncs = {s1}
  KeyOwner <- MCKeyOwner
  KeyAccount <- MCKeyAccount
  SyncableKeys <- MCSyncableKeys
  Unmappable = {o4}
  PageSize = 2
  Modes = {"ALL", "RANGE"}
  LateFills = TRUE
  NoKey = NoKey
  NoAccount = NoAccount
  NoRequest = NoRequest
  ClockBound = 1
  EditBound = 0
  CrashBound = 0
SPECIFICATION FairSpec
INVARIANTS NothingLost
PROPERTIES SyncEnds
CHECK_DEADLOCK FALSE
