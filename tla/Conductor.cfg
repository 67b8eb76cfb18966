CONSTANTS
  Agent = {"a", "b"}
  Plans <- SomePlans
  Supervised <- Held
  MaxRuns = 2
  MaxVerbs <- VerbsOf
  Overlapping = FALSE
SPECIFICATION Spec
INVARIANTS DecisionsHold
PROPERTIES TerminalSticks NoGateLost
CHECK_DEADLOCK FALSE
