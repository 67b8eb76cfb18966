SPECIFICATION Spec
CONSTANTS
  r = r
  a = a
  b = b
  driver = driver
  none = none
  bell = bell
  Task <- MCTask
  Root = r
  Driver = driver
  None = none
  Event <- MCEvent
  Type <- MCType
  Interests <- MCInterests
  IsA <- MCIsA
  Priorities <- MCPriorities
  Start = 0
  MaxTime = 1
  MaxOps = 6
INVARIANTS ClockServed NoneLeftBehind
PROPERTIES OnTime DeliveryFirst
CHECK_DEADLOCK FALSE
