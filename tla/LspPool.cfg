SPECIFICATION Spec
CHECK_DEADLOCK FALSE
SYMMETRY Symmetry
CONSTANTS
  Calls = {c1, c2, c3}
  Sessions = {s1, s2}
  ScratchSize = 1
  MaxEdits = 1
  MaxLeases = 3
  MaxEvicts = 1
  None = None
INVARIANTS
  CacheTrue
  NoOrphan
  ScratchExact
