SPECIFICATION Spec
CONSTANTS
  PROD = PROD
  mixed = mixed
  dev = dev
  bogus = bogus
  db = db
  idp = idp
  here = here
  own = own
  app = app
  spaced = spaced
  star = star
  newline = newline
  nothing = nothing
  EnvTexts = {PROD, mixed, dev, bogus}
  Serde <- MCSerde
  FromStr <- MCFromStr
  Unknown = Unknown
  PortNumbers <- MCPorts
  Texts = {db, idp, here, own}
  DefaultDatabase = own
  DefaultHost = own
  DefaultServiceName = own
  Pieces = {spaced, app, star, newline, nothing}
  Trim <- MCTrim
  Empty = nothing
  Wildcard = star
  NotAHeader = {newline}
  Deployments <- MCDeployments
INVARIANTS
  EnvironmentIsDeclared
  OtherSettingsSurvive
  WaysAgree
  ProductionAllowsTheListed
CHECK_DEADLOCK FALSE
