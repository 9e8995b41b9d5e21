------------------------------- MODULE TaxLots -------------------------------
(***************************************************************************)
(* The lot-matching engine AllocateTaxLots (domain/model/tax_lot.go).      *)
(*                                                                         *)
(* A lot is a record [id, at, initial, remaining, unit, status]: at is the *)
(* acquisition date, unit the cost of one unit, quantities and unit costs  *)
(* as in CostBasis.  The loop of the code is given in closed form: a lot   *)
(* yields what the lots before it left to sell, and no more than it has.   *)
(***************************************************************************)
EXTENDS Integers, Sequences, FiniteSets, SequencesExt, FiniteSetsExt, CostBasis

TaxLotStatus == {"OPEN", "PARTIALLY_CLOSED", "CLOSED"}
TaxLotMethod == {"FIFO", "LIFO", "HIFO", "LOWEST_COST", "PMP"}

SumOver(S, value(_)) == SumFunction([x \in S |-> value(x)])

\* Seeded fault: partially closed lots are not loaded.
FindOpenUntouched(lots) == {l \in lots : l.remaining > 0 /\ l.status = "OPEN"}

\* FindOpenByPositionID: the lots a sale may draw on.
FindOpen(lots) ==
  {l \in lots : l.remaining > 0 /\ l.status \in {"OPEN", "PARTIALLY_CLOSED"}}

\* Seeded fault: the default order is reversed.
MayPrecedeReversed(a, b, method) == a.at >= b.at

\* sortLots, a stable sort of rows that arrive in acquired_at order: a may
\* stand before b.  Rows alike in both keys may come in either order.
MayPrecede(a, b, method) ==
  CASE method = "LIFO"        -> a.at >= b.at
    [] method = "HIFO"        -> a.unit > b.unit \/ (a.unit = b.unit /\ a.at <= b.at)
    [] method = "LOWEST_COST" -> a.unit < b.unit \/ (a.unit = b.unit /\ a.at <= b.at)
    [] OTHER                  -> a.at <= b.at

SaleOrders(open, method) ==
  {s \in SetToSeqs(open) :
     \A i, j \in DOMAIN s : i < j => MayPrecede(s[i], s[j], method)}

Available(open) == SumOver(open, LAMBDA l : l.remaining)

\* What the i-th lot of the sale order yields to a sale of qty units.
Take(order, qty, i) ==
  LET before == SumOver(1 .. i - 1, LAMBDA j : order[j].remaining)
  IN  Min({order[i].remaining, Max({qty - before, 0})})

Matched(order, qty) == {i \in DOMAIN order : Take(order, qty, i) > 0}

\* The cost of what the open lots still hold, rounded to cents lot by lot.
Worth(held) == SumOver(held, LAMBDA l : RoundDiv(l.remaining * l.unit, Cent))

\* Seeded fault: the cost of a match is truncated to cents.
MatchCostTruncated(order, lot, n, method) == (n * lot.unit) \div Cent

\* Cost in cents of n units of a lot: its own unit cost, or under PMP the
\* average cost of the units still held by the open lots.  The quotient by
\* Available, kept in 16 decimals, is taken as exact.
MatchCost(order, lot, n, method) ==
  LET held == Range(order)
  IN  IF method = "PMP" /\ Worth(held) > 0
        THEN RoundDiv(n * Worth(held), Available(held))
        ELSE RoundDiv(n * lot.unit, Cent)

\* Seeded fault: the status of a lot is never moved on.
AfterSaleStatusKept(lots, order, qty) ==
  (lots \ {order[i] : i \in Matched(order, qty)})
    \cup {[order[i] EXCEPT !.remaining = @ - Take(order, qty, i)]
             : i \in Matched(order, qty)}

\* Seeded fault: what is left is computed from the initial quantity.
AfterSaleFromInitial(lots, order, qty) ==
  LET sold(i) == LET left == order[i].initial - Take(order, qty, i)
                 IN  [order[i] EXCEPT
                        !.remaining = left,
                        !.status    = IF left = 0 THEN "CLOSED"
                                                  ELSE "PARTIALLY_CLOSED"]
  IN  (lots \ {order[i] : i \in Matched(order, qty)})
        \cup {sold(i) : i \in Matched(order, qty)}

\* The lots after the sale.
AfterSale(lots, order, qty) ==
  LET sold(i) == LET left == order[i].remaining - Take(order, qty, i)
                 IN  [order[i] EXCEPT
                        !.remaining = left,
                        !.status    = IF left = 0 THEN "CLOSED"
                                                  ELSE "PARTIALLY_CLOSED"]
  IN  (lots \ {order[i] : i \in Matched(order, qty)})
        \cup {sold(i) : i \in Matched(order, qty)}

\* NewDispositionsFromAllocation: one row per lot the sale drew on.
Dispositions(order, qty, sale, method) ==
  {[lot |-> order[i].id, sale |-> sale, qty |-> Take(order, qty, i),
    cost |-> MatchCost(order, order[i], Take(order, qty, i), method)]
     : i \in Matched(order, qty)}
=============================================================================
