SPECIFICATION WorkerFairSpec
CONSTANTS
  Callers = {c1, c2, c3}
  Patient = {c1}
  Exit = exit
  NoJob = noJob
INVARIANTS
  JobAccounted
  CloseMeansExited
PROPERTIES
  CloseEnds
  EarlyJobResolved
