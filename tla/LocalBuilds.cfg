SPECIFICATION Spec
CONSTANTS
  t1 = t1
  t2 = t2
  a = a
  b = b
  Tasks = {t1, t2}
  Symbols = {a, b}
  NoSymbol = NoSymbol
SYMMETRY Symmetry
INVARIANTS TypeOK ItemsSettled OutcomeTrue CoverageEarned NotForgotten
CHECK_DEADLOCK FALSE
