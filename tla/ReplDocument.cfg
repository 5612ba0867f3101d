SPECIFICATION Spec
CONSTANTS
  Theories = {t1}
  NoThy = noThy
  Texts = {header, thy, begin, other, end}
  Naming = {header, thy}
  Misnaming = {other}
  Beginning = {header, begin}
  Bare = {begin}
  Ends = {end}
  Probe = probe
  Torn = torn
  MaxEdits = 3
  MaxStates = 1
INVARIANTS
  Coherent
  RestoreExact
PROPERTIES
  NothingLost
