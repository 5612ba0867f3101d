SPECIFICATION Spec
CHECK_DEADLOCK FALSE
CONSTANTS
  g1 = g1
  g2 = g2
  p1 = p1
  n1 = n1
  n2 = n2
  Groups = {g1, g2}
  Projects = {p1}
  Names = {n1, n2}
  DefaultName <- MCDefaultName
  Contents = {c1, c2}
  Tasks = {t1, t2}
  MaxBuilds = 1
  MaxEdits = 1
  MaxCrashes = 1
  None = None
INVARIANTS
  RegistryOnDisk
  ReadyWasBuilt
PROPERTIES
  SessionsGated
  GcKeepsReferenced
