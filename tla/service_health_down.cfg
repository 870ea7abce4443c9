SPECIFICATION Spec
CONSTANTS
  q = q
  r = r
  s = s
  ann = ann
  padded = padded
  blank = blank
  empty = empty
  endless = endless
  mail = mail
  other = other
  noAt = noAt
  NoUser = NoUser
  Names = {ann, padded, blank, empty, endless}
  Emails = {mail, other, noAt}
  Empty = empty
  Addresses = {mail, other}
  TooLong = {endless}
  Trim <- MCTrim
  Requests = {q}
  Inputs <- JustHealth
  MaxConnections = 1
  AcquireTimeout = 1
  RequestTimeout = 1
  AuthConfigured = FALSE
PROPERTIES
  DownIs503
CHECK_DEADLOCK FALSE
