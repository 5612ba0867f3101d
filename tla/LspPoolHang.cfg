SPECIFICATION FairSpec
CHECK_DEADLOCK FALSE
CONSTANTS
  Calls = {c1, c2}
  Sessions = {s1, s2}
  ScratchSize = 1
  MaxEdits = 0
  MaxLeases = 2
  MaxEvicts = 1
  None = None
PROPERTIES
  ScratchServed
