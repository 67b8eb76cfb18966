SPECIFICATION FairSpec
CONSTANTS
  Root = root
  Task = {t1, t2}
  Promise = {p1}
  ExtPromise = {e1}
  Sem = {}
  None = none
  Ops = {"spawn", "wait", "external", "promise"}
  SpawnPriorities <- Idle
  WaitPriorities <- OwnOrIdle
  DaemonFlags = {FALSE, TRUE}
  PermitCounts = {1}
  MayWait <- AcyclicWait
  Droppable = {}
  MaxKeys = 2
  MaxPuts = 2
  Bracketed = TRUE
INVARIANTS NoFalseDeadlock
PROPERTIES EveryRunEnds OutcomeStable
CHECK_DEADLOCK FALSE
