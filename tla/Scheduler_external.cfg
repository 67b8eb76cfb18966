SPECIFICATION Spec
CONSTANTS
  Root = root
  Task = {t1, t2}
  Promise = {}
  ExtPromise = {e1}
  Sem = {}
  None = none
  Ops = {"spawn", "wait", "race", "external", "cancel", "raise"}
  SpawnPriorities <- Idle
  WaitPriorities <- OwnOrIdle
  DaemonFlags = {FALSE, TRUE}
  PermitCounts = {1}
  MayWait <- AcyclicWait
  Droppable = {e1}
  MaxKeys = 2
  MaxPuts = 1
  Bracketed = TRUE
SYMMETRY Symmetric
INVARIANTS NeverBlocksOverWork NoSilentHang
PROPERTIES ShieldHolds
CHECK_DEADLOCK FALSE
