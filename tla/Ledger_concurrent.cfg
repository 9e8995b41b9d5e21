SPECIFICATION Spec
CONSTANTS
  c1 = c1
  c2 = c2
  Clients = {c1, c2}
  Ops = {"buy", "sell", "delete", "update", "add"}
  Qtys = {1, 2}
  Prices = {0, 1000000}
  Edits = {"type", "price", "amount", "at"}
  PartsPerUnit = 1
  Times = {1}
  MaxTx = 3
  Method = "FIFO"
SYMMETRY Symmetry
INVARIANT LotConservation
PROPERTIES SaleMatchedWhole ImplementsLotBook
CHECK_DEADLOCK FALSE
