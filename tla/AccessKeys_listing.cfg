\* Two users, two overlapping requests, one key, every kind of credentials on an
\* exchange of either kind; staleness ends.
CONSTANTS
  Users = {u1, u2}
  Requests = {q1, q2}
  KeyIds = {k1}
  Credentials <- EveryKind
  Ttl = 2
  NoKey = NoKey
  NoRequest = NoRequest
  NoEntry = NoEntry
SPECIFICATION FairSpec
INVARIANTS TypeOK ListingsAreTheUsersOwn StoredKeysAreLimited
PROPERTIES DeletionShows
CHECK_DEADLOCK FALSE
