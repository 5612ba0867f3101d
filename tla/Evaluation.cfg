SPECIFICATION Spec
CONSTANTS
  NumFiles = 2
  Length = 2
  NumWorkers = 2
  Sessions = {s1, s2}
  NoSession = NoSession
  Goals = {g1, g2}
  Closed = Closed
  NumTactics = 2
  MaxSteps = 4
  MaxDepth = 3
  MaxProofs = 2
  MaxTrials = 1
  MaxIterations = 7
  Agents = {a1, a2, a3}
  None = None
  MaxWorkers = 2
INVARIANTS
  OkComplete
  LeasesReturned
  SuccessSound
  RecordsExact
  TreeExact
  TaskCleansUp
