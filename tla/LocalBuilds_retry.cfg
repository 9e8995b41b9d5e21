SPECIFICATION Spec
CONSTANTS
  t1 = t1
  a = a
  b = b
  Tasks = {t1}
  Symbols = {a, b}
  NoSymbol = NoSymbol
SYMMETRY Symmetry
INVARIANT SucceededIsCovered
CHECK_DEADLOCK FALSE
