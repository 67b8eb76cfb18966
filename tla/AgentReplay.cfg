CONSTANTS
  Node = {"a", "b", "c"}
  Shapes <- SomeShapes
  MaxRuns <- RunsOf
  MaxEdits <- EditsOf
SPECIFICATION Spec
INVARIANTS SequentialLoads  
CHECK_DEADLOCK FALSE
