SPECIFICATION Spec
CONSTANTS
  c1 = c1
  Clients = {c1}
  Ops = {"buy", "sell"}
  Qtys = {2}
  Prices = {1000000, 4000000}
  Edits = {}
  PartsPerUnit = 1
  Times = {1}
  MaxTx = 4
  Method = "PMP"
INVARIANT FullSaleRecoversCost
CHECK_DEADLOCK FALSE
