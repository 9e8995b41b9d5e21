SPECIFICATION Spec
CONSTANTS
  s1 = s1
  l1 = l1
  Callers = {s1}
  Linkers = {}
  Opening = 1
  MaxTrades = 2
  MaxOverlap = 0
  Linked = TRUE
  Starts = {0, 1, 2}
  PageSize = 2
  Matches = {"symbol"}
SYMMETRY Symmetry
INVARIANT TradesIngested
CHECK_DEADLOCK FALSE
