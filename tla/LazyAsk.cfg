SPECIFICATION FairSpec
CONSTANTS
  Task = {main, other}
  Main = main
  db = db
  url = url
  log = log
  svc = svc
  prod = prod
  test = test
  logP = logP
  svcP = svcP
  otherP = otherP
  Key <- MCKey
  Lazy <- MCLazy
  BaseEnv <- MCBaseEnv
  Overrides <- PlainOverrides
  None = none
  MaxAsks = 3
  MaxScopes = 2
  MaxFails = 1
INVARIANTS AskSound
PROPERTIES  AskersServed
CHECK_DEADLOCK FALSE
