SPECIFICATION Spec
CONSTANTS
  c1 = c1
  Clients = {c1}
  Ops = {"buy", "sell", "delete"}
  Qtys = {1, 2}
  Prices = {1000000}
  Edits = {}
  PartsPerUnit = 1
  Times = {1, 2}
  MaxTx = 4
  Method = "FIFO"
INVARIANT EverySaleMatched
CHECK_DEADLOCK FALSE
