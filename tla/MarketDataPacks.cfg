SPECIFICATION Spec
CONSTANTS
  j1 = j1
  j2 = j2
  j3 = j3
  a = a
  b = b
  Jobs = {j1, j2, j3}
  Versions = {1, 2}
  Instruments = {a, b}
  Manifest <- MCManifest
  Matched = {b}
  NoPack = 0
SYMMETRY Symmetry
INVARIANTS TypeOK InstallsConverge
PROPERTY LoneSuccessRestores
CHECK_DEADLOCK FALSE
