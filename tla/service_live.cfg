SPECIFICATION FairSpec
CONSTANTS
  q = q
  r = r
  s = s
  ann = ann
  padded = padded
  blank = blank
  empty = empty
  endless = endless
  mail = mail
  other = other
  noAt = noAt
  NoUser = NoUser
  Names = {ann, padded, blank, empty, endless}
  Emails = {mail, other, noAt}
  Empty = empty
  Addresses = {mail, other}
  TooLong = {endless}
  Trim <- MCTrim
  Requests = {q, r}
  Inputs <- Busy
  MaxConnections = 1
  AcquireTimeout = 1
  RequestTimeout = 2
  AuthConfigured = TRUE
PROPERTIES
  EveryRequestEnds
  SlotsReturn
CHECK_DEADLOCK FALSE
