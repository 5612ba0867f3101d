SPECIFICATION BuildFairSpec
CHECK_DEADLOCK FALSE
CONSTANTS
  Requests = {r1, r2, r3}
  n1 = n1
  probed = probed
  clean = clean
  bare = bare
  headless = headless
  main = main
  Names = {n1, n2}
  Texts = {probed, headless}
  Sources = {clean, bare}
  Written <- MCWritten
  Declares <- MCDeclares
  ImportsOf <- MCImportsOf
  Fields = {HOL}
  HOL = HOL
  Imports = {main}
  MaxBuilds = 2
  None = None
INVARIANTS
  BuildsExclusive
  SuccessWasBuilt
PROPERTIES
  NoRebuild
  AllAnswered
