SPECIFICATION Spec
CONSTANTS
  q = q
  r = r
  s = s
  ann = ann
  padded = padded
  blank = blank
  empty = empty
  endless = endless
  mail = mail
  other = other
  noAt = noAt
  NoUser = NoUser
  Names = {ann, padded, blank, empty, endless}
  Emails = {mail, other, noAt}
  Empty = empty
  Addresses = {mail, other}
  TooLong = {endless}
  Trim <- MCTrim
  Requests = {q, r}
  Inputs <- Everything
  MaxConnections = 1
  AcquireTimeout = 2
  RequestTimeout = 2
  AuthConfigured = TRUE
INVARIANTS
  TypeOK
  RowsAreAccepted
PROPERTIES
  QueueTimesOutAs408
  ImplementsStore
CHECK_DEADLOCK FALSE
