SPECIFICATION LiveSpec
CONSTANTS
  Requests = {r1, r2}
  Cleanup = cleanup
  Main = main
  NoProc = noProc
  Sessions = {s1, s2}
  NoSession = noSession
  Keys = {k1}
  NoKey = noKey
  PoolSize = 1
  InitialSessions = 0
  MaxLeases = 2
  MaxGateways = 1
  ProbeAnswers = {TRUE}
PROPERTIES
  CreationEnds
