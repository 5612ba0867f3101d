SPECIFICATION Spec
CONSTANTS
  Requests = {r1, r2}
  Cleanup = cleanup
  Main = main
  NoProc = noProc
  Sessions = {s1, s2}
  NoSession = noSession
  Keys = {k1}
  NoKey = noKey
  PoolSize = 1
  InitialSessions = 1
  MaxLeases = 2
  MaxGateways = 2
  ProbeAnswers = {TRUE, FALSE}
SYMMETRY Symmetry
INVARIANTS
  PoolBound
  Custody
PROPERTIES
  BusyKept
  LeaseKept
  ImplementsLeaseService
