SPECIFICATION Spec
CONSTANTS
  q = q
  r = r
  s = s
  ann = ann
  padded = padded
  blank = blank
  empty = empty
  endless = endless
  mail = mail
  other = other
  noAt = noAt
  NoUser = NoUser
  Names = {ann, padded, blank, empty, endless}
  Emails = {mail, other, noAt}
  Empty = empty
  Addresses = {mail, other}
  TooLong = {endless}
  Trim <- MCTrim
  Requests = {q, r, s}
  Inputs <- Race
  MaxConnections = 2
  AcquireTimeout = 1
  RequestTimeout = 1
  AuthConfigured = FALSE
INVARIANTS
  OneWinnerPerEmail
  CreatedIsDurable
  ConflictIsReal
  ReadsNeverGoBack
  BoundedWork
SYMMETRY Permuted
CHECK_DEADLOCK FALSE
