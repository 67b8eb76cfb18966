CONSTANTS
  Session <- Both
  NameOf <- OneName
  Adopted <- Second
  Contract <- First
  SolicitationLimit = 1
  MaxRunning = 2
  Ops <- SomeOps
  MaxOps = 1
  MaxCrashes = 1
SPECIFICATION FairSpec

INVARIANTS RowsTruthful
PROPERTIES RowsOnlyAdvance ExemptSpared SeatsEnd TerminalSwept
