SPECIFICATION Spec
CONSTANTS
  c1 = c1
  Clients = {c1}
  Ops = {"buy", "sell", "delete"}
  Qtys = {1, 3}
  Prices = {2000000, 5000000}
  Edits = {}
  PartsPerUnit = 4
  Times = {1, 2}
  MaxTx = 4
  Method = "FIFO"
INVARIANTS TypeOK PositionMatchesTransactions LotsMatchPosition LotCostWithinRounding EconomicCostConserved
PROPERTY OldestLotFirst
CHECK_DEADLOCK FALSE
