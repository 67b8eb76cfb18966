SPECIFICATION OrderSpec
CONSTANTS
  Root = root
  Task = {t1, t2}
  Promise = {p1}
  ExtPromise = {}
  Sem = {}
  None = none
  Ops = {"spawn", "wait", "gather", "race", "cancel", "promise", "raise"}
  SpawnPriorities <- IdleOrHigh
  WaitPriorities <- Own
  DaemonFlags = {FALSE}
  PermitCounts = {1}
  MayWait <- RootAndPeers
  Droppable = {t1, t2, p1}
  MaxKeys = 2
  MaxPuts = 0
  Bracketed = TRUE
SYMMETRY Symmetric
INVARIANTS OneShot SweptUnused CloseOutComplete WokenRunFirst
PROPERTIES ImplementsFutures
CHECK_DEADLOCK FALSE
