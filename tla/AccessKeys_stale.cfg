\* A listing asked for after a deletion.
CONSTANTS
  Users = {u1}
  Requests = {q1, q2}
  KeyIds = {k1}
  Credentials <- OneCredential
  Ttl = 2
  NoKey = NoKey
  NoRequest = NoRequest
  NoEntry = NoEntry
SPECIFICATION Spec
INVARIANT ListingFollowsDeletion
CHECK_DEADLOCK FALSE
