------------------------------- MODULE Ledger -------------------------------
(***************************************************************************)
(* The ledger of one holding: a position row, its transactions, its tax    *)
(* lots, the lot dispositions and the portfolio_assets row, as changed by  *)
(* TransactionService and PortfolioService.AddAssetToPortfolio.            *)
(*                                                                         *)
(* Every service call runs in one READ COMMITTED database transaction that *)
(* reads rows without locking them, computes, and writes whole rows back.  *)
(* A call is therefore two or three steps: a read keeps copies in req[c],  *)
(* and the commit writes what the copies say.  From Position.Update to the *)
(* commit the position's row lock is held, so whatever a call reads after  *)
(* that point (the open lots of a sale) is read in the commit step.        *)
(*                                                                         *)
(* A row's id is its place in the order of created_at, the start of the    *)
(* database transaction.  The transaction_id columns of lots and           *)
(* dispositions, nulled by their foreign key, are the ids id and sale: they *)
(* refer to a row of txs or to none.                                       *)
(***************************************************************************)
EXTENDS TaxLots, CostBasis

CONSTANTS
  Clients,  \* concurrent callers of the services
  Ops,      \* the operations they call
  Qtys,     \* quantities of a request, in parts of a unit
  Prices,   \* unit prices of a request, in millionths of a cent
  Times,    \* executed_at of a request
  Edits,    \* the fields of a transaction that an update sets
  MaxTx,    \* bound: requests that record a transaction
  Method    \* TaxLotMethodPMP for a French user, else TaxLotMethodFIFO

ASSUME OpsAssumption == Ops \subseteq {"buy", "sell", "delete", "update", "add"}
ASSUME RequestAssumption ==
  Qtys \subseteq Nat \ {0} /\ Prices \subseteq Nat /\ Times \subseteq Nat
ASSUME EditsAssumption == Edits \subseteq {"type", "qty", "price", "amount", "at"}
ASSUME MaxTxAssumption == MaxTx \in Nat
ASSUME MethodAssumption == Method \in {"FIFO", "PMP"}

VARIABLES
  position,  \* the positions row
  holding,   \* the portfolio_assets row
  txs,       \* the transactions rows of the position
  lots,      \* the tax_lots rows of the position
  disps,     \* the tax_lot_dispositions rows of the position
  nextId,    \* the id of the next recorded transaction
  req        \* what each client's call holds between two of its steps

vars == <<position, holding, txs, lots, disps, nextId, req>>

Cost     == [known : BOOLEAN, total : Nat, avg : Nat]
Position == [exists : BOOLEAN, qty : Nat, cost : Cost, realized : Int]

PortfolioAsset == [exists : BOOLEAN, qty : Nat, avg : Nat]

TxIds == 1 .. MaxTx

\* Only AddAssetToPortfolio takes a price of zero.
Transaction ==
  [id : TxIds, type : {"BUY", "SELL"}, qty : Nat \ {0}, price : Nat, amount : Nat, at : Nat]

TaxLot ==
  [id : TxIds, at : Nat, initial : Nat \ {0}, remaining : Nat, unit : Nat, status : TaxLotStatus]

Disposition == [lot : TxIds, sale : TxIds, qty : Nat \ {0}, cost : Nat]

\* What a call holds between two of its steps.
Call ==
  [pc : {"idle"}]
  \cup [pc : {"buy", "sell"}, row : Transaction, pos : Position]
  \cup [pc : {"replay"}, target : TxIds, pos : Position]
  \cup [pc : {"delete"}, target : TxIds, replay : [ok : BOOLEAN, pos : Position]]
  \cup [pc : {"update"}, row : Transaction]
  \cup [pc : {"create", "lock", "add"}, row : Transaction, holding : PortfolioAsset,
        pos : Position]

NoPosition    == [exists |-> FALSE, qty |-> 0, cost |-> NoCost, realized |-> 0]
EmptyPosition == [NoPosition EXCEPT !.exists = TRUE]
NoHolding     == [exists |-> FALSE, qty |-> 0, avg |-> 0]
Idle          == [pc |-> "idle"]

-----------------------------------------------------------------------------
(* Rows and what a call may write. *)

\* A transactions row recorded by a request, its amount truncated to cents.
NewRows(type, prices) ==
  {[id |-> nextId, type |-> type, qty |-> q, price |-> p, amount |-> (q * p) \div Cent, at |-> t]
     : q \in Qtys, p \in prices, t \in Times}

\* Transaction.Validate: the amount, whose sign goes with the type, is not
\* zero, nor off by more than a cent or a cent per unit.
Valid(row) ==
  LET gap   == row.qty * row.price - row.amount * Cent
      slack == Max({Cent, row.qty * Micro})
  IN  row.amount > 0 /\ row.price > 0 /\ gap \in -slack .. slack

LotOf(row) ==
  [id |-> row.id, at |-> row.at, initial |-> row.qty, remaining |-> row.qty,
   unit |-> row.price, status |-> "OPEN"]

\* FindByPositionID orders executed_at DESC, created_at DESC.
NewestFirst(rows) ==
  {s \in SetToSeqs(rows) :
     \A i, j \in DOMAIN s :
       i < j => s[i].at > s[j].at \/ (s[i].at = s[j].at /\ s[i].id > s[j].id)}

Bought(r) == AddToCostBasis(r.pos, r.row.qty, r.row.price, r.row.amount)

Sold(r) ==
  [ReduceFromCostBasis(r.pos, r.row.qty) EXCEPT
     !.realized = r.pos.realized + RealizedGain(r.pos, r.row.qty, r.row.price)]

\* The portfolio_assets row after an addition, from the copy that was read.
HoldingAfterAdd(r) ==
  LET newQty == r.holding.qty + r.row.qty
  IN  [exists |-> TRUE,
       qty    |-> newQty,
       avg    |-> RoundDiv(r.holding.qty * r.holding.avg + r.row.qty * r.row.price, newQty)]

\* The position an addition writes: the quantity of portfolio_assets, and
\* its average unless that is zero.
PositionAfterAdd(r) ==
  LET h == HoldingAfterAdd(r)
  IN  [r.pos EXCEPT
         !.exists = TRUE,
         !.qty    = h.qty,
         !.cost   = IF h.avg > 0 THEN CostOf(RoundDiv(h.qty * h.avg, Cent), h.avg)
                                 ELSE @]

\* Seeded fault: a sale is allocated without asking whether the lots suffice.
CanCommitShort(r) ==
  CASE r.pc = "buy"    -> Consistent(Bought(r))
    [] r.pc = "sell"   -> Consistent(Sold(r))
    [] r.pc = "delete" -> r.replay.ok /\ r.target \in {t.id : t \in txs}
    [] r.pc = "update" -> r.row.id \in {t.id : t \in txs}
    [] r.pc = "create" -> ~holding.exists
    [] OTHER           -> TRUE

\* The checks a call makes between its reads and its commit; a call that fails
\* one of them is rolled back whole.
CanCommit(r) ==
  CASE r.pc = "buy"    -> Consistent(Bought(r))
    [] r.pc = "sell"   -> /\ Consistent(Sold(r))
                          /\ FindOpen(lots) # {} => Available(FindOpen(lots)) >= r.row.qty
    [] r.pc = "delete" -> r.replay.ok /\ r.target \in {t.id : t \in txs}
    [] r.pc = "update" -> r.row.id \in {t.id : t \in txs}
    [] r.pc = "create" -> ~holding.exists
    [] OTHER           -> TRUE

-----------------------------------------------------------------------------
Init ==
  /\ position \in {NoPosition, EmptyPosition}
  /\ holding = NoHolding
  /\ txs = {} /\ lots = {} /\ disps = {}
  /\ nextId = 1
  /\ req = [c \in Clients |-> Idle]

At(c, pc) == req[c].pc = pc
Hold(c, r) == req' = [req EXCEPT ![c] = r]
Reply(c) == Hold(c, Idle)

\* First step of a call that records a transaction.
StartRecording(c, op) ==
  /\ At(c, "idle") /\ op \in Ops
  /\ nextId <= MaxTx /\ nextId' = nextId + 1
  /\ UNCHANGED <<position, holding, txs, lots, disps>>

\* ProcessBuyTransaction up to its reads.  Without a position the lookup
\* fails with sql.ErrNoRows and so does the call, as it does on a row that is
\* not valid.
StartBuy(c) ==
  /\ StartRecording(c, "buy")
  /\ position.exists
  /\ \E row \in NewRows("BUY", Prices \ {0}) :
       /\ Valid(row)
       /\ Hold(c, [pc |-> "buy", row |-> row, pos |-> position])

CommitBuy(c) ==
  /\ At(c, "buy") /\ CanCommit(req[c])
  /\ position' = Bought(req[c])
  /\ txs'  = txs \cup {req[c].row}
  /\ lots' = lots \cup {LotOf(req[c].row)}
  /\ Reply(c)
  /\ UNCHANGED <<holding, disps, nextId>>

\* ProcessSellTransaction with its checks of the quantity and the row.
StartSell(c) ==
  /\ StartRecording(c, "sell")
  /\ position.exists
  /\ \E row \in NewRows("SELL", Prices \ {0}) :
       /\ row.qty <= position.qty /\ Valid(row)
       /\ Hold(c, [pc |-> "sell", row |-> row, pos |-> position])

\* The rest of the sale.  With no open lot there is nothing to allocate and
\* the sale commits without dispositions.
CommitSell(c) ==
  /\ At(c, "sell") /\ CanCommit(req[c])
  /\ position' = Sold(req[c])
  /\ txs' = txs \cup {req[c].row}
  /\ \E order \in SaleOrders(FindOpen(lots), Method) :
       /\ lots'  = AfterSale(lots, order, req[c].row.qty)
       /\ disps' = disps \cup Dispositions(order, req[c].row.qty, req[c].row.id, Method)
  /\ Reply(c)
  /\ UNCHANGED <<holding, nextId>>

\* DeleteTransaction: the transaction, then the position.
StartDelete(c) ==
  /\ At(c, "idle") /\ "delete" \in Ops
  /\ \E t \in txs : Hold(c, [pc |-> "replay", target |-> t.id, pos |-> position])
  /\ UNCHANGED <<position, holding, txs, lots, disps, nextId>>

\* The position's transactions are read, newest first, and replayed without
\* the deleted one.
ReplayHistory(c) ==
  /\ At(c, "replay")
  /\ \E history \in NewestFirst({t \in txs : t.id # req[c].target}) :
       Hold(c, [pc |-> "delete", target |-> req[c].target,
                replay |-> Replay(req[c].pos, history)])
  /\ UNCHANGED <<position, holding, txs, lots, disps, nextId>>

\* Position.Update and Transaction.Delete; lots and dispositions stay.
CommitDelete(c) ==
  /\ At(c, "delete") /\ CanCommit(req[c])
  /\ position' = req[c].replay.pos
  /\ txs' = {t \in txs : t.id # req[c].target}
  /\ Reply(c)
  /\ UNCHANGED <<holding, lots, disps, nextId>>

\* What an update leaves in a field.
Given(field, old, new) == IF field \in Edits THEN {old} \cup new ELSE {old}

\* UpdateTransaction: one autocommitted read and one whole-row write.  A
\* field is left alone or set by the caller, as long as the row stays valid: a
\* purchase may become a sale.  The position is not recomputed.
StartUpdate(c) ==
  /\ At(c, "idle") /\ "update" \in Ops
  /\ \E t \in txs :
       \E type \in Given("type", t.type, {"BUY", "SELL"}), q \in Given("qty", t.qty, Qtys),
          p \in Given("price", t.price, Prices), d \in Given("at", t.at, Times) :
         \E a \in Given("amount", t.amount, {(q * p) \div Cent}) :
           LET row == [t EXCEPT !.type = type, !.qty = q, !.price = p, !.amount = a, !.at = d]
           IN  Valid(row) /\ Hold(c, [pc |-> "update", row |-> row])
  /\ UNCHANGED <<position, holding, txs, lots, disps, nextId>>

\* Seeded fault: editing a purchase opens its lot again as edited.
CommitUpdateReopening(c) ==
  /\ At(c, "update") /\ CanCommit(req[c])
  /\ txs' = {t \in txs : t.id # req[c].row.id} \cup {req[c].row}
  /\ lots' = {IF l.id = req[c].row.id THEN LotOf(req[c].row) ELSE l : l \in lots}
  /\ Reply(c)
  /\ UNCHANGED <<position, holding, disps, nextId>>

CommitUpdate(c) ==
  /\ At(c, "update") /\ CanCommit(req[c])
  /\ txs' = {t \in txs : t.id # req[c].row.id} \cup {req[c].row}
  /\ Reply(c)
  /\ UNCHANGED <<position, holding, lots, disps, nextId>>

\* AddAssetToPortfolio up to its read of portfolio_assets.  It rounds the
\* amount and does not validate the row.
StartAdd(c) ==
  /\ StartRecording(c, "add")
  /\ \E row \in NewRows("BUY", Prices) :
       Hold(c, [pc      |-> IF holding.exists THEN "lock" ELSE "create",
                row     |-> [row EXCEPT !.amount = RoundDiv(row.qty * row.price, Cent)],
                holding |-> holding,
                pos     |-> NoPosition])

\* PortfolioAsset.Create, whose unique index stops a second creator, and the
\* position with its first transaction and lot if there is none yet.
CommitCreate(c) ==
  LET r == req[c]
      priced == r.row.price > 0 /\ ~position.exists
  IN  /\ At(c, "create") /\ CanCommit(r)
      /\ holding' = HoldingAfterAdd(r)
      /\ position' = IF position.exists THEN position ELSE PositionAfterAdd(r)
      /\ txs'  = IF priced THEN txs \cup {r.row} ELSE txs
      /\ lots' = IF priced THEN lots \cup {LotOf(r.row)} ELSE lots
      /\ Reply(c)
      /\ UNCHANGED <<disps, nextId>>

\* PortfolioAsset.Update takes the row's lock, held to the end of the call;
\* then the position is read.
LockHolding(c) ==
  /\ At(c, "lock")
  /\ \A other \in Clients : ~At(other, "add")
  /\ Hold(c, [req[c] EXCEPT !.pc = "add", !.pos = position])
  /\ UNCHANGED <<position, holding, txs, lots, disps, nextId>>

CommitAdd(c) ==
  LET r == req[c]
      recorded == r.row.price > 0 /\ r.pos.exists
  IN  /\ At(c, "add") /\ CanCommit(r)
      /\ holding' = HoldingAfterAdd(r)
      /\ position' = IF r.pos.exists THEN PositionAfterAdd(r) ELSE position
      /\ txs'  = IF recorded THEN txs \cup {r.row} ELSE txs
      /\ lots' = IF recorded THEN lots \cup {LotOf(r.row)} ELSE lots
      /\ Reply(c)
      /\ UNCHANGED <<disps, nextId>>

\* A call that fails a check returns its error and leaves every row alone.
RollBack(c) ==
  /\ req[c].pc \in {"buy", "sell", "delete", "update", "create"}
  /\ ~CanCommit(req[c])
  /\ Reply(c)
  /\ UNCHANGED <<position, holding, txs, lots, disps, nextId>>

Next ==
  \E c \in Clients :
    \/ StartBuy(c)    \/ CommitBuy(c)
    \/ StartSell(c)   \/ CommitSell(c)
    \/ StartDelete(c) \/ ReplayHistory(c) \/ CommitDelete(c)
    \/ StartUpdate(c) \/ CommitUpdate(c)
    \/ StartAdd(c)    \/ CommitCreate(c)  \/ LockHolding(c) \/ CommitAdd(c)
    \/ RollBack(c)

Spec == Init /\ [][Next]_vars

-----------------------------------------------------------------------------
(* Properties. *)

Ids(rows) == {r.id : r \in rows}

DispsOf(l) == {d \in disps : d.lot = l.id}

Amount(rows, type) == SumOver({t \in rows : t.type = type}, LAMBDA t : t.amount)
Units(rows, type)  == SumOver({t \in rows : t.type = type}, LAMBDA t : t.qty)

\* Every lot and every disposition still has its transaction.
NothingDeleted ==
  /\ Ids(lots) \subseteq Ids(txs)
  /\ {d.sale : d \in disps} \subseteq Ids(txs)

\* Rows hold values of their columns (positions.quantity has a CHECK >= 0),
\* calls hold copies of such rows, ids are keys, and a lot's status says how
\* much of it is left.
TypeOK ==
  /\ position \in Position /\ holding \in PortfolioAsset
  /\ txs \subseteq Transaction /\ lots \subseteq TaxLot /\ disps \subseteq Disposition
  /\ nextId \in 1 .. MaxTx + 1
  /\ req \in [Clients -> Call]
  /\ \A l \in lots :
       /\ l.remaining <= l.initial
       /\ l.status = CASE l.remaining = l.initial -> "OPEN"
                       [] l.remaining = 0         -> "CLOSED"
                       [] OTHER                   -> "PARTIALLY_CLOSED"
  /\ \A l, m \in lots : l.id = m.id => l = m
  /\ \A t, u \in txs : t.id = u.id => t = u

\* No unit of a lot is sold twice and none vanishes, whatever calls overlap:
\* what a lot lost is what its dispositions say it sold (UpdateBatch and
\* CreateBatch of ProcessSellTransaction under the position's row lock).
LotConservation ==
  \A l \in lots : l.initial = l.remaining + SumOver(DispsOf(l), LAMBDA d : d.qty)

\* A committed sale is matched to lots for its whole quantity or not at all,
\* the latter only if no lot was open: AllocateTaxLots refuses the rest.
SaleMatchedWhole ==
  [][\A t \in txs' \ txs :
       t.type = "SELL" /\ t.id \notin Ids(txs) =>
         SumOver({d \in disps' : d.sale = t.id}, LAMBDA d : d.qty)
            = (IF FindOpen(lots) = {} THEN 0 ELSE t.qty)]_vars

\* A sale draws on a lot only when it empties every lot acquired earlier
\* (sortLots, FIFO and PMP).
OldestLotFirst ==
  [][\A d \in disps' \ disps : \A taken \in lots, l \in lots' :
       taken.id = d.lot /\ l.at < taken.at => l.remaining = 0]_vars

\* With one caller the position's quantity is what its transactions say,
\* after any history of purchases, sales and deletions: a deletion whose
\* replay would not give that is refused.
PositionMatchesTransactions ==
  position.qty = Units(txs, "BUY") - Units(txs, "SELL")

\* With one caller and nothing deleted the open lots hold exactly the units
\* of the position: the two books that a sale writes agree.
LotsMatchPosition ==
  NothingDeleted => Available(lots) = position.qty

\* Under FIFO the sales of a lot together charge what its sold units cost, to
\* within half a cent for each of them: each match is rounded on its own, so a
\* unit bought for a cent and sold in halves is charged two.
LotCostWithinRounding ==
  \A l \in lots :
    LET charged == SumOver(DispsOf(l), LAMBDA d : d.cost)
        gap     == charged * Cent - (l.initial - l.remaining) * l.unit
        slack   == Cardinality(DispsOf(l)) * Cent
    IN  2 * gap \in -slack .. slack

\* With one caller and nothing deleted, what was paid is what is still on the
\* position plus what sales charged against their proceeds.  The two round
\* apart (CalculateRealizedGains truncates what reduceFromCostBasis rounds
\* up), so each sale moves the difference, by two cents up or one down at most.
EconomicCostConserved ==
  LET sales   == Cardinality({t \in txs : t.type = "SELL"})
      charged == Amount(txs, "SELL") - position.realized
      gap     == Amount(txs, "BUY") - charged - position.cost.total
  IN  NothingDeleted => gap \in -sales .. 2 * sales

\* When every lot is sold, the dispositions together report what the lots
\* cost, to within a rounding of one cent each.
FullSaleRecoversCost ==
  (\A l \in lots : l.remaining = 0) =>
    LET paid  == SumOver(lots, LAMBDA l : l.initial * l.unit)
        gap   == SumOver(disps, LAMBDA d : d.cost) * Cent - paid
        slack == Cardinality(disps) * Cent
    IN  gap \in -slack .. slack

\* "silently selling without fiscal G/L is no longer acceptable": every
\* recorded sale has dispositions.
EverySaleMatched ==
  \A t \in txs : t.type = "SELL" => \E d \in disps : d.sale = t.id

\* The books of lots and dispositions, by the ids of their rows.
LotById(rows, id) == CHOOSE l \in rows : l.id = id
Acquired(rows) == [id \in Ids(rows) |-> LotById(rows, id).initial]
Left(rows)     == [id \in Ids(rows) |-> LotById(rows, id).remaining]

Sales(rows) == {d.sale : d \in rows}
DrawnOn(rows, s) == {d.lot : d \in {e \in rows : e.sale = s}}
Drawn(rows) ==
  [s \in Sales(rows) |->
     [id \in DrawnOn(rows, s) |-> (CHOOSE d \in rows : d.sale = s /\ d.lot = id).qty]]

Book == INSTANCE LotBook WITH
  Lots <- TxIds, Trades <- TxIds, Quantities <- Qtys,
  acquired <- Acquired(lots), left <- Left(lots), drawn <- Drawn(disps)

\* Whatever calls overlap, the ledger keeps such a book: a sale draws once and
\* for its whole quantity on lots that have it, no call rewrites what was
\* acquired or drawn, and deleting or editing a transaction touches neither.
ImplementsLotBook == Book!Spec

-----------------------------------------------------------------------------
(* The inductive invariants behind the properties. *)

\* A call that has a row to record, whose id is its own.
Recording(c) == req[c].pc \in {"buy", "sell", "create", "lock", "add"}

CallsOK ==
  \A c \in Clients :
    /\ req[c].pc = "sell" => req[c].row.type = "SELL" /\ req[c].row.qty <= req[c].pos.qty
    /\ Recording(c) /\ req[c].pc # "sell" => req[c].row.type = "BUY"

\* Rows refer to each other by the ids that requests got, each a new one.
IdsOK ==
  /\ \A id \in Ids(txs) \cup Ids(lots) \cup {d.sale : d \in disps} : id < nextId
  /\ {d.lot : d \in disps} \subseteq Ids(lots)
  /\ \A c \in Clients : Recording(c) =>
       /\ req[c].row.id < nextId
       /\ req[c].row.id \notin Ids(txs) \cup Ids(lots) \cup {d.sale : d \in disps}
       /\ \A e \in Clients : Recording(e) /\ req[e].row.id = req[c].row.id => e = c

RowsFinite == IsFiniteSet(txs) /\ IsFiniteSet(lots) /\ IsFiniteSet(disps)

IInv == TypeOK /\ CallsOK /\ IdsOK /\ RowsFinite /\ LotConservation

\* With nothing deleted, every purchase has its lot and every sale its
\* dispositions.
BooksLinked ==
  /\ \A t \in txs : t.type = "BUY" => t.id \in Ids(lots)
  /\ NothingDeleted => EverySaleMatched
=============================================================================
