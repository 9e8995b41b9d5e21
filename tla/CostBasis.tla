------------------------------ MODULE CostBasis ------------------------------
(***************************************************************************)
(* Average-cost arithmetic of a position (domain/model/position.go).       *)
(*                                                                         *)
(* A position carries a quantity (decimal(20,8)), a total cost in cents    *)
(* (Money, an int64) and an average unit cost (decimal(20,8), in dollars). *)
(* Quantities are counted in the smallest part of a unit in use.  Prices   *)
(* and averages are counted in millionths of a cent, which is the eighth   *)
(* decimal of a dollar that the columns store, so a quantity times a price *)
(* is exact and Cent says how much of it makes a cent.  The roundings of   *)
(* the code are kept: Div and Round(0) round half away from zero, IntPart  *)
(* truncates.                                                              *)
(***************************************************************************)
EXTENDS Integers, Sequences, SequencesExt

CONSTANT PartsPerUnit       \* how finely a unit is divided, 10^8 at most

ASSUME PartsAssumption == PartsPerUnit \in Nat \ {0}

Micro == 1000000            \* millionths of a cent in a cent
Cent  == Micro * PartsPerUnit

\* Nearest integer to n / d, halves up (n >= 0, d > 0): decimal.Div, Round.
RoundDiv(n, d) == (2 * n + d) \div (2 * d)

\* AverageCostBasis and TotalCostBasis both nil: a gift, or an empty position.
NoCost == [known |-> FALSE, total |-> 0, avg |-> 0]

CostOf(total, avg) == [known |-> TRUE, total |-> total, avg |-> avg]

\* validateCostBasis: an empty position costs nothing, otherwise the average
\* times the quantity is within one cent of the total.
Consistent(p) ==
  p.cost.known =>
    IF p.qty = 0
      THEN p.cost.total = 0 /\ p.cost.avg = 0
      ELSE LET gap == p.cost.avg * p.qty - p.cost.total * Cent
           IN  gap \in -Cent .. Cent

\* addToCostBasis without its final validation.
AddToCostBasis(p, qty, price, amount) ==
  LET newQty   == p.qty + qty
      newTotal == p.cost.total + amount
  IN  [p EXCEPT
         !.qty  = newQty,
         !.cost = IF p.qty = 0
                    THEN CostOf(amount, price)
                    ELSE CostOf(newTotal, RoundDiv(newTotal * Cent, newQty))]

\* quantity.Div(p.Quantity) keeps 16 decimals: TRUE when it rounds up.
\* 10^16 is reduced modulo the divisor before it is used.
ProportionRoundsUp(qty, of) ==
  LET e8   == 100000000 % of
      rest == (((e8 * e8) % of) * qty) % of
  IN  rest # 0 /\ 2 * rest >= of

\* The total cost left after selling qty of p.qty units: IntPart of
\* total - total * (qty / p.qty).  A proportion rounded up costs a whole cent
\* when the exact result is a whole number of cents.
RemainingTotal(p, qty) ==
  LET exact == p.cost.total * (p.qty - qty)
  IN  IF exact > 0 /\ exact % p.qty = 0 /\ ProportionRoundsUp(qty, p.qty)
        THEN exact \div p.qty - 1
        ELSE exact \div p.qty

\* reduceFromCostBasis (qty <= p.qty) without its final validation: the
\* average stays, and goes with the last unit.
ReduceFromCostBasis(p, qty) ==
  [p EXCEPT
     !.qty  = p.qty - qty,
     !.cost = IF qty = p.qty THEN NoCost
              ELSE IF p.cost.known
                THEN CostOf(RemainingTotal(p, qty), p.cost.avg)
                ELSE NoCost]

\* What is charged for qty units at the average cost.
AverageCharge(p, qty) == IF p.cost.known THEN (qty * p.cost.avg) \div Cent ELSE 0

\* Seeded fault: the cost of one unit is charged instead of the cost of qty.
RealizedGainOfOneUnit(p, qty, price) ==
  (qty * price) \div Cent - AverageCharge(p, PartsPerUnit)

\* CalculateRealizedGains: proceeds less the average cost, each truncated to
\* cents.
RealizedGain(p, qty, price) == (qty * price) \div Cent - AverageCharge(p, qty)

\* Seeded fault: a transaction that cannot be replayed is passed over.
ReplayOnePassingOver(acc, t) ==
  LET next == IF t.type = "SELL"
                THEN ReduceFromCostBasis(acc.pos, t.qty)
                ELSE AddToCostBasis(acc.pos, t.qty, t.price, t.amount)
  IN  IF t.type = "SELL" /\ t.qty > acc.pos.qty
        THEN acc
        ELSE [ok |-> Consistent(next), pos |-> next]

\* One iteration of the replay loop of DeleteTransaction: UpdateCostBasis with
\* the signed quantity, ok turning FALSE on the first error.
ReplayOne(acc, t) ==
  LET next == IF t.type = "SELL"
                THEN ReduceFromCostBasis(acc.pos, t.qty)
                ELSE AddToCostBasis(acc.pos, t.qty, t.price, t.amount)
  IN  IF ~acc.ok \/ (t.type = "SELL" /\ t.qty > acc.pos.qty)
        THEN [acc EXCEPT !.ok = FALSE]
        ELSE [ok |-> Consistent(next), pos |-> next]

\* The position rebuilt from a sequence of transactions, oldest call first.
Replay(p, history) ==
  FoldLeft(ReplayOne,
           [ok |-> TRUE, pos |-> [p EXCEPT !.qty = 0, !.cost = NoCost]],
           history)
=============================================================================
