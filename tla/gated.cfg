SPECIFICATION FairGatedSpec
CONSTANTS
  q = q
  r = r
  ann = ann
  nobody = nobody
  mail = mail
  before = before
  after = after
  kidA = kidA
  keyA = keyA
  keyB = keyB
  NoUser = NoUser
  Names = {ann, nobody}
  Emails = {mail}
  Empty = nobody
  Addresses = {mail}
  TooLong = {}
  Trim <- MCTrim
  Requests = {q, r}
  Inputs <- MCInputs
  MaxConnections = 1
  AcquireTimeout = 1
  RequestTimeout = 2
  AuthConfigured = TRUE
  NoKid = NoKid
  NoToken = NoToken
  BadToken = NoToken
  NoBody = NoBody
  Kids = {kidA}
  Keys = {keyA, keyB}
  Unusable = {}
  Bodies = {before, after}
  WellFormed = {before, after}
  KeySet <- MCKeySet
  Tokens <- MCTokens
INVARIANTS
  NothingWithoutToken
  RefusedForAReason
PROPERTIES
  EveryRequestEnds
  PartsAreImplemented
CHECK_DEADLOCK FALSE
