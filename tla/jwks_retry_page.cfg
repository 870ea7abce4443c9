SPECIFICATION FairSpec
CONSTANTS
  r1 = r1
  r2 = r2
  before = before
  after = after
  page = page
  kidA = kidA
  kidB = kidB
  keyA = keyA
  keyB = keyB
  junk = junk
  NoKid = NoKid
  NoToken = NoToken
  BadToken = BadToken
  NoBody = NoBody
  Kids = {kidA, kidB}
  Keys = {keyA, keyB, junk}
  Unusable = {junk}
  Requests = {r1, r2}
  Bodies <- BeforeOrPage
  WellFormed <- BeforeOnly
  KeySet <- BeforeKeySet
  Tokens <- OneToken
PROPERTIES
  TryAgainWorks
CHECK_DEADLOCK FALSE
