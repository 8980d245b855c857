\* Two clients, two emails, two accounts, two requests at a time; accounts are
\* promoted, demoted and deleted twice.
CONSTANTS
  Clients = {c1, c2}
  Emails = {e1, e2}
  Ids = {i1, i2}
  Requests = {q1, q2}
  NoUser = NoUser
  NoToken = NoToken
  NoRequest = NoRequest
  OperatorBound = 2
SPECIFICATION Spec
SYMMETRY Symmetry
INVARIANTS TypeOK OneAccountPerEmail AnswersWereTrue NobodyActsForAnother PrivateFieldsStayPrivate
CHECK_DEADLOCK FALSE
