SPECIFICATION Spec
CONSTANTS
  Root = root
  Task = {t1, t2}
  Promise = {}
  ExtPromise = {e1}
  Sem = {s1}
  None = none
  Ops = {"spawn", "wait", "semaphore", "cancel", "external", "gather"}
  SpawnPriorities <- Normal
  WaitPriorities <- Own
  DaemonFlags = {FALSE}
  PermitCounts = {1, 2}
  MayWait <- AcyclicWait
  Droppable = {}
  MaxKeys = 1
  MaxPuts = 1
  Bracketed = TRUE
SYMMETRY Symmetric
INVARIANTS OneShot PermitsAccounted NoIdlePermit
CHECK_DEADLOCK FALSE
