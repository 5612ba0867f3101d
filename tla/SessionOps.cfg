SPECIFICATION Spec
CONSTANTS
  r1 = r1
  r2 = r2
  r3 = r3
  Reqs = {r1, r2, r3}
  NoReq = NoReq
  Asks <- AsksShort
  Theories = {A, B}
  NoThy = NoThy
  MaxId = 2
  None = None
  MaxTimeouts = 1
SYMMETRY Symmetry
INVARIANTS RequestsCounted BookkeepingCurrent LoadExact BigStepAtomic
CHECK_DEADLOCK FALSE
