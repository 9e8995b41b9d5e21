SPECIFICATION Spec
CONSTANTS
  s1 = s1
  s2 = s2
  l1 = l1
  Callers = {s1, s2}
  Linkers = {l1}
  Opening = 1
  MaxTrades = 3
  MaxOverlap = 1
  Linked = FALSE
  Starts = {0, 1}
  PageSize = 2
  Matches = {"symbol", "isin", "search"}
SYMMETRY Symmetry
INVARIANTS TypeOK LotsCoverHolding UnitsTrackedOnce 
PROPERTY RepeatCreatesNoLot
CHECK_DEADLOCK FALSE
