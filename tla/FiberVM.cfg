SPECIFICATION Spec
CONSTANTS
  Slot = {s0, s1, s2, s3, s4}
  Rank <- AnyRank
  Kont = {k1, k2, k3}
  None = none
  Roles = {"prompt", "observe"}
  MaxFrames = 2
  EscapedK = FALSE
SYMMETRY Names
INVARIANTS TypeOK SingleLocation PathsIntact FreeListClean
CONSTRAINT SmallOnceStale
