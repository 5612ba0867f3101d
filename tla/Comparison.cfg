SPECIFICATION Spec
CONSTANTS
  Repeats <- MCRepeats
  Leftovers <- MCLeftovers
  Conns = {1}
  Sessions = {s1, s2, s3}
  None = None
  Slots = {k1, k2, k3}
  BatchItems = 2
  MaxParallel = 2
  MaxRounds = 2
  NudgeLimit = 1
  DoneNudgeLimit = 1
  MaxCalls = 1
  ResetTries = 3
INVARIANTS SessionsAccounted FreshStart SolvedSound OneResult
CHECK_DEADLOCK FALSE
