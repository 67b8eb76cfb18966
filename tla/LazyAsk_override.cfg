SPECIFICATION Spec
CONSTANTS
  Task = {main, other}
  Main = main
  db = db
  url = url
  log = log
  svc = svc
  prod = prod
  test = test
  logP = logP
  svcP = svcP
  otherP = otherP
  Key <- MCKey
  Lazy <- MCLazy
  BaseEnv <- MCBaseEnv
  Overrides <- ProgramOverrides
  None = none
  MaxAsks = 2
  MaxScopes = 2
  MaxFails = 0
INVARIANTS LocalInvalidates
CHECK_DEADLOCK FALSE
