CONSTANTS
  Host = {h1, h2, h3}
  Client = {c1}
  None = none
  Supervision <- Either
  MaxKills = 1
  MaxTerms = 1
  MaxStalls = 1
SPECIFICATION LeaseFairSpec
INVARIANTS SingleServer ServerReachable
PROPERTIES NotStolen Recovers
CHECK_DEADLOCK FALSE
