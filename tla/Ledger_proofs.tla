---------------------------- MODULE Ledger_proofs ----------------------------
(***************************************************************************)
(* Proofs about Ledger, for any clients, requests and number of            *)
(* transactions.  The invariant IInv says that rows are typed, ids fresh   *)
(* and units conserved; every step keeps it.  From it follow the matching  *)
(* of sales to lots, under FIFO their cost, and the refinement of LotBook. *)
(* For one caller the copies that calls hold are fresh: the position, its  *)
(* transactions and its lots agree, and what was paid is accounted for.    *)
(* At the end, what the methods of AllocateTaxLots promise about cost.     *)
(***************************************************************************)
EXTENDS Ledger, SumTheorems

-----------------------------------------------------------------------------
(* The order of a sale and what each lot yields. *)

\* The library's minimum and maximum of two integers.
LEMMA MinMax ==
  \A a, b \in Int : /\ Min({a, b}) = IF a <= b THEN a ELSE b
                    /\ Max({a, b}) = IF a >= b THEN a ELSE b
<1> SUFFICES ASSUME NEW a \in Int, NEW b \in Int
             PROVE  /\ Min({a, b}) = IF a <= b THEN a ELSE b
                    /\ Max({a, b}) = IF a >= b THEN a ELSE b
  OBVIOUS
<1>1. \E x \in {a, b} : \A y \in {a, b} : x <= y OBVIOUS
<1>2. \E x \in {a, b} : \A y \in {a, b} : x >= y OBVIOUS
<1>3. Min({a, b}) \in {a, b} /\ \A y \in {a, b} : Min({a, b}) <= y
  BY <1>1 DEF Min
<1>4. Max({a, b}) \in {a, b} /\ \A y \in {a, b} : Max({a, b}) >= y
  BY <1>2 DEF Max
<1> QED BY <1>3, <1>4

\* An order lists every open lot once.
Lists(order, open, n, method) ==
  /\ n \in Nat /\ order \in [1 .. n -> open]
  /\ \A i, j \in 1 .. n : order[i] = order[j] => i = j
  /\ \A l \in open : \E i \in 1 .. n : l = order[i]
  /\ \A i, j \in 1 .. n : i < j => MayPrecede(order[i], order[j], method)

\* A sale order lists the open lots.
LEMMA OrderLists ==
  ASSUME NEW open, IsFiniteSet(open), NEW method, NEW order \in SaleOrders(open, method)
  PROVE  Lists(order, open, Cardinality(open), method)
<1> DEFINE n == Cardinality(open)
<1>1. n \in Nat BY FS_CardinalityType
<1>2. /\ order \in [1 .. n -> open]
      /\ \A i, j \in 1 .. n : order[i] = order[j] => i = j
      /\ \A i, j \in 1 .. n : i < j => MayPrecede(order[i], order[j], method)
  BY DEF SaleOrders, SetToSeqs
<1>3. open = {order[i] : i \in 1 .. n} BY <1>2, InjectionOnto
<1> HIDE DEF n
<1>4. \A l \in open : \E i \in 1 .. n : l = order[i] BY <1>3
<1>5. Lists(order, open, n, method) BY <1>1, <1>2, <1>4 DEF Lists
<1> QED BY <1>5 DEF n

\* What each lot of the order still holds, and what the lots before the i-th
\* hold together.
Held(order, n) == [j \in 1 .. n |-> order[j].remaining]
Before(order, n, i) == SumOn(Held(order, n), 1 .. i - 1)

\* What the lots before the i-th hold grows along the order.
LEMMA BeforeFx ==
  ASSUME NEW n \in Nat, NEW order, \A i \in 1 .. n : order[i].remaining \in Nat
  PROVE  /\ Before(order, n, 1) = 0
         /\ \A i \in 1 .. n + 1 : Before(order, n, i) \in Nat
         /\ \A i \in 1 .. n : Before(order, n, i + 1) = Before(order, n, i) + order[i].remaining
         /\ \A i, k \in 1 .. n : i < k => Before(order, n, i + 1) <= Before(order, n, k)
<1> DEFINE held == Held(order, n)
<1>0. \A i \in 1 .. n : held[i] = order[i].remaining /\ held[i] \in Nat BY DEF Held
<1> HIDE DEF held
<1>1. SumOn(held, 1 .. 0) = 0
  <2>1. 1 .. 0 = {} OBVIOUS
  <2> QED BY <2>1, SumOnEmpty
<1>2. \A i \in 1 .. n + 1 : SumOn(held, 1 .. i - 1) \in Nat
  <2> TAKE i \in 1 .. n + 1
  <2> DEFINE k == i - 1
  <2>0. k \in Int OBVIOUS
  <2>1. IsFiniteSet(1 .. k)
    <3> HIDE DEF k
    <3> QED BY <2>0, FS_Interval
  <2>2. \A j \in 1 .. i - 1 : held[j] \in Nat BY <1>0
  <2> QED BY <2>1, <2>2, SumOnNat
<1>3. \A i \in 1 .. n : SumOn(held, 1 .. i) = SumOn(held, 1 .. i - 1) + held[i]
  <2> TAKE i \in 1 .. n
  <2>1. IsFiniteSet(1 .. i) BY FS_Interval
  <2>2. \A j \in 1 .. i : held[j] \in Int BY <1>0
  <2>3. i \in 1 .. i /\ (1 .. i) \ {i} = 1 .. i - 1 OBVIOUS
  <2> DEFINE S == 1 .. i
  <2>4. SumOn(held, S) = held[i] + SumOn(held, S \ {i})
    <3>1. IsFiniteSet(S) /\ (\A j \in S : held[j] \in Int) /\ i \in S BY <2>1, <2>2, <2>3
    <3> HIDE DEF S
    <3> QED BY <3>1, SumRemove
  <2>5. SumOn(held, 1 .. i - 1) \in Nat BY <1>2
  <2> DEFINE h == held[i]
             rest == SumOn(held, 1 .. i - 1)
             all == SumOn(held, 1 .. i)
  <2>6. h \in Int /\ rest \in Int /\ all = h + rest
    <3>1. h \in Int BY <1>0
    <3>2. rest \in Int BY <2>5
    <3>3. S = 1 .. i /\ S \ {i} = 1 .. i - 1 BY <2>3
    <3> HIDE DEF S
    <3>4. all = h + rest BY <2>4, <3>3
    <3> QED BY <3>1, <3>2, <3>4
  <2>7. all = rest + h
    <3> HIDE DEF h, rest, all
    <3> QED BY <2>6
  <2> QED BY <2>7
<1>4. /\ Before(order, n, 1) = 0
      /\ \A i \in 1 .. n + 1 : Before(order, n, i) \in Nat
      /\ \A i \in 1 .. n : Before(order, n, i + 1) = Before(order, n, i) + order[i].remaining
  <2>1. \A i \in Int : (i + 1) - 1 = i OBVIOUS
  <2> QED BY <1>0, <1>1, <1>2, <1>3, <2>1 DEF Before, held
<1>5. ASSUME NEW i \in 1 .. n
      PROVE  \A d \in Nat : i + 1 + d <= n => Before(order, n, i + 1) <= Before(order, n, i + 1 + d)
  <2> DEFINE G == {d \in Nat : i + 1 + d <= n => Before(order, n, i + 1) <= Before(order, n, i + 1 + d)}
  <2>1. 0 \in G
    <3>1. i + 1 + 0 = i + 1 /\ Before(order, n, i + 1) \in Nat BY <1>4
    <3> QED BY <3>1
  <2>2. ASSUME NEW d \in Nat, d \in G PROVE d + 1 \in G
    <3> SUFFICES ASSUME i + 1 + (d + 1) <= n
                 PROVE  Before(order, n, i + 1) <= Before(order, n, i + 1 + (d + 1))
      OBVIOUS
    <3> DEFINE k == i + 1 + d
    <3>1. k \in 1 .. n /\ i + 1 + (d + 1) = k + 1 /\ i + 1 \in 1 .. n + 1 OBVIOUS
    <3>2. Before(order, n, i + 1) <= Before(order, n, k) BY <2>2
    <3> HIDE DEF k
    <3>3. Before(order, n, k + 1) = Before(order, n, k) + order[k].remaining BY <1>4, <3>1
    <3>4. Before(order, n, i + 1) \in Nat /\ Before(order, n, k) \in Nat /\ order[k].remaining \in Nat
      BY <1>4, <3>1
    <3> QED BY <3>1, <3>2, <3>3, <3>4
  <2> HIDE DEF G
  <2>3. \A d \in Nat : d \in G BY <2>1, <2>2, SetInduction
  <2> QED BY <2>3 DEF G
<1>6. ASSUME NEW i \in 1 .. n, NEW k \in 1 .. n, i < k
      PROVE  Before(order, n, i + 1) <= Before(order, n, k)
  <2>1. k - (i + 1) \in Nat /\ i + 1 + (k - (i + 1)) = k BY <1>6
  <2> QED BY <1>5, <2>1
<1> QED BY <1>4, <1>6

\* What the i-th lot yields, by cases.
LEMMA TakeIs ==
  ASSUME NEW n \in Nat, NEW order, \A i \in 1 .. n : order[i].remaining \in Nat,
         NEW qty \in Nat, NEW i \in 1 .. n
  PROVE  Take(order, qty, i) =
           IF qty <= Before(order, n, i) THEN 0
           ELSE IF qty - Before(order, n, i) <= order[i].remaining
                  THEN qty - Before(order, n, i) ELSE order[i].remaining
<1>1. [j \in 1 .. i - 1 |-> order[j].remaining] = [j \in 1 .. i - 1 |-> Held(order, n)[j]]
  BY DEF Held
<1>2. SumOver(1 .. i - 1, LAMBDA j : order[j].remaining) = Before(order, n, i)
  BY <1>1 DEF SumOver, Before, SumOn
<1>3. Before(order, n, i) \in Nat BY BeforeFx
<1>4. Take(order, qty, i) = Min({order[i].remaining, Max({qty - Before(order, n, i), 0})})
  BY <1>2 DEF Take
<1> DEFINE d == qty - Before(order, n, i)
           r == order[i].remaining
           m == Max({d, 0})
<1>5. d \in Int /\ r \in Int /\ 0 \in Int BY <1>3
<1>6. d <= 0 <=> qty <= Before(order, n, i) BY <1>3
<1>7. Take(order, qty, i) = Min({r, m}) BY <1>4
<1> HIDE DEF d, r, m
<1>8. m = IF d >= 0 THEN d ELSE 0
  BY <1>5, MinMax DEF m
<1>9. m \in Int BY <1>5, <1>8
<1>10. Min({r, m}) = IF r <= m THEN r ELSE m
  BY <1>5, <1>9, MinMax
<1>11. r >= 0 BY DEF r
<1>12. Take(order, qty, i) = IF d <= 0 THEN 0 ELSE IF d <= r THEN d ELSE r
  BY <1>5, <1>7, <1>8, <1>10, <1>11
<1> QED BY <1>6, <1>12 DEF d, r

-----------------------------------------------------------------------------
(* What a sale does to the lots and which dispositions it writes. *)

\* A lot whose status agrees with what is left of it.
LotOK(l) ==
  /\ l \in TaxLot /\ l.remaining <= l.initial
  /\ l.status = CASE l.remaining = l.initial -> "OPEN"
                  [] l.remaining = 0         -> "CLOSED"
                  [] OTHER                   -> "PARTIALLY_CLOSED"

\* Such lots, each with its own id.
LotsOK(L) ==
  /\ IsFiniteSet(L) /\ \A l \in L : LotOK(l)
  /\ \A l, m \in L : l.id = m.id => l = m

\* An order of the open lots among L.
Ordering(L, order, n, method) ==
  /\ n \in Nat /\ order \in [1 .. n -> L]
  /\ \A i, j \in 1 .. n : order[i] = order[j] => i = j
  /\ \A i \in 1 .. n : order[i].remaining > 0
  /\ \A l \in L : l.remaining > 0 => \E i \in 1 .. n : l = order[i]
  /\ \A i, j \in 1 .. n : i < j => MayPrecede(order[i], order[j], method)

\* The lots loaded for a sale are those with something left.
LEMMA OpenLots ==
  ASSUME NEW L, LotsOK(L)
  PROVE  /\ FindOpen(L) = {l \in L : l.remaining > 0}
         /\ IsFiniteSet(FindOpen(L))
<1>1. ASSUME NEW l \in L, l.remaining > 0 PROVE l.status \in {"OPEN", "PARTIALLY_CLOSED"}
  <2>1. LotOK(l) BY DEF LotsOK
  <2>2. l.remaining # 0 BY <1>1
  <2> QED BY <2>1, <2>2 DEF LotOK
<1>2. FindOpen(L) = {l \in L : l.remaining > 0} BY <1>1 DEF FindOpen
<1>3. FindOpen(L) \subseteq L BY DEF FindOpen
<1> QED BY <1>2, <1>3, FS_Subset DEF LotsOK

\* A sale order is an ordering of the lots that have something left.
LEMMA OrderingOfSale ==
  ASSUME NEW L, LotsOK(L), NEW method, NEW order \in SaleOrders(FindOpen(L), method)
  PROVE  Ordering(L, order, Cardinality(FindOpen(L)), method)
<1> DEFINE open == FindOpen(L)
<1>1. IsFiniteSet(open) /\ open = {l \in L : l.remaining > 0} BY OpenLots
<1>2. order \in SaleOrders(open, method) OBVIOUS
<1> HIDE DEF open
<1>3. Lists(order, open, Cardinality(open), method)
  BY <1>1, <1>2, OrderLists
<1>4. Ordering(L, order, Cardinality(open), method) BY <1>1, <1>3 DEF Ordering, Lists
<1> QED BY <1>4 DEF open

\* A lot yields no more than it has.
LEMMA Takes ==
  ASSUME NEW L, LotsOK(L), NEW method, NEW order, NEW n, Ordering(L, order, n, method),
         NEW qty \in Nat
  PROVE  /\ DOMAIN order = 1 .. n
         /\ \A i \in 1 .. n : LotOK(order[i]) /\ order[i].remaining \in Nat /\ order[i] \in L
         /\ \A i \in 1 .. n : Take(order, qty, i) \in Nat /\ Take(order, qty, i) <= order[i].remaining
         /\ Matched(order, qty) = {i \in 1 .. n : Take(order, qty, i) > 0}
<1>1. DOMAIN order = 1 .. n /\ n \in Nat BY DEF Ordering
<1>2. \A i \in 1 .. n : LotOK(order[i]) /\ order[i].remaining \in Nat /\ order[i] \in L
  BY DEF Ordering, LotsOK, LotOK, TaxLot
<1>3. ASSUME NEW i \in 1 .. n
      PROVE  Take(order, qty, i) \in Nat /\ Take(order, qty, i) <= order[i].remaining
  <2>1. \A k \in 1 .. n : order[k].remaining \in Nat BY <1>2
  <2>2. \A k \in 1 .. n + 1 : Before(order, n, k) \in Nat BY <1>1, <2>1, BeforeFx
  <2>3. Before(order, n, i) \in Nat BY <1>1, <2>2
  <2>4. Take(order, qty, i) =
          IF qty <= Before(order, n, i) THEN 0
          ELSE IF qty - Before(order, n, i) <= order[i].remaining
                 THEN qty - Before(order, n, i) ELSE order[i].remaining
    BY <1>1, <2>1, TakeIs
  <2> QED BY <2>1, <2>3, <2>4
<1> QED BY <1>1, <1>2, <1>3 DEF Matched

\* The lot order[i] after the sale.
SoldLot(order, qty, i) ==
  [order[i] EXCEPT
     !.remaining = order[i].remaining - Take(order, qty, i),
     !.status    = IF order[i].remaining - Take(order, qty, i) = 0 THEN "CLOSED"
                                                                  ELSE "PARTIALLY_CLOSED"]

\* A lot that yields something changes only in what is left and in its
\* status, which agree.
LEMMA SoldLotFx ==
  ASSUME NEW order, NEW qty, NEW i, LotOK(order[i]),
         Take(order, qty, i) \in Nat, 0 < Take(order, qty, i), Take(order, qty, i) <= order[i].remaining
  PROVE  /\ LotOK(SoldLot(order, qty, i))
         /\ SoldLot(order, qty, i).id = order[i].id
         /\ SoldLot(order, qty, i).at = order[i].at
         /\ SoldLot(order, qty, i).initial = order[i].initial
         /\ SoldLot(order, qty, i).unit = order[i].unit
         /\ SoldLot(order, qty, i).remaining = order[i].remaining - Take(order, qty, i)
<1> DEFINE l == order[i]
           y == Take(order, qty, i)
           left == l.remaining - y
           m == [l EXCEPT !.remaining = left,
                          !.status = IF left = 0 THEN "CLOSED" ELSE "PARTIALLY_CLOSED"]
<1>1. m = SoldLot(order, qty, i) BY DEF SoldLot
<1>2. LotOK(l) /\ y \in Nat /\ 0 < y /\ y <= l.remaining OBVIOUS
<1> HIDE DEF l, y
<1>3. l \in TaxLot /\ l.remaining \in Nat /\ l.initial \in Nat /\ l.remaining <= l.initial
  BY <1>2 DEF LotOK, TaxLot
<1>4. left \in Nat /\ left < l.initial BY <1>2, <1>3
<1> HIDE DEF left
<1>5. m \in TaxLot /\ m.id = l.id /\ m.at = l.at /\ m.initial = l.initial /\ m.unit = l.unit
      /\ m.remaining = left /\ m.status = IF left = 0 THEN "CLOSED" ELSE "PARTIALLY_CLOSED"
  BY <1>3, <1>4 DEF TaxLot, TaxLotStatus
<1> HIDE DEF m
<1>6. LotOK(m) BY <1>3, <1>4, <1>5 DEF LotOK
<1> QED BY <1>1, <1>5, <1>6 DEF l, y, left

\* The lots after a sale, written with SoldLot.
LEMMA AfterSaleIs ==
  \A L, order, qty : AfterSale(L, order, qty) =
     (L \ {order[i] : i \in Matched(order, qty)})
       \cup {SoldLot(order, qty, i) : i \in Matched(order, qty)}
BY DEF AfterSale, SoldLot

\* Every lot after the sale is a lot of before, untouched or less what it yielded.
LEMMA AfterSaleFx ==
  ASSUME NEW L, LotsOK(L), NEW method, NEW order, NEW n, Ordering(L, order, n, method),
         NEW qty \in Nat
  PROVE  /\ LotsOK(AfterSale(L, order, qty))
         /\ \A m \in AfterSale(L, order, qty) :
              \/ m \in L /\ \A i \in 1 .. n : order[i].id = m.id => Take(order, qty, i) = 0
              \/ \E i \in 1 .. n : 0 < Take(order, qty, i) /\ m = SoldLot(order, qty, i)
         /\ \A l \in L : \E m \in AfterSale(L, order, qty) : m.id = l.id
<1> DEFINE A == AfterSale(L, order, qty)
<1>1. /\ \A i \in 1 .. n : LotOK(order[i]) /\ order[i] \in L /\ Take(order, qty, i) \in Nat
                           /\ Take(order, qty, i) <= order[i].remaining
      /\ Matched(order, qty) = {i \in 1 .. n : Take(order, qty, i) > 0}
  BY Takes
<1>2. \A i \in Matched(order, qty) : LotOK(SoldLot(order, qty, i)) /\ SoldLot(order, qty, i).id = order[i].id
  BY <1>1, SoldLotFx
<1>3. A = (L \ {order[i] : i \in Matched(order, qty)})
            \cup {SoldLot(order, qty, i) : i \in Matched(order, qty)}
  BY AfterSaleIs
<1>4. \A l, m \in L : l.id = m.id => l = m BY DEF LotsOK
<1>5. \A m \in A :
        \/ m \in L /\ \A i \in 1 .. n : order[i].id = m.id => Take(order, qty, i) = 0
        \/ \E i \in 1 .. n : 0 < Take(order, qty, i) /\ m = SoldLot(order, qty, i)
  <2> TAKE m \in A
  <2>1. CASE m \in L \ {order[i] : i \in Matched(order, qty)}
    <3>1. ASSUME NEW i \in 1 .. n, order[i].id = m.id PROVE Take(order, qty, i) = 0
      <4>1. order[i] = m BY <1>1, <1>4, <2>1, <3>1
      <4>2. i \notin Matched(order, qty) BY <2>1, <4>1
      <4> QED BY <4>2, <1>1
    <3> QED BY <2>1, <3>1
  <2>2. CASE m \in {SoldLot(order, qty, i) : i \in Matched(order, qty)}
    BY <1>1, <2>2
  <2> QED BY <1>3, <2>1, <2>2
<1>6. \A l \in L : \E m \in A : m.id = l.id
  <2> TAKE l \in L
  <2>1. CASE \E i \in Matched(order, qty) : l = order[i] BY <1>2, <1>3, <2>1
  <2>2. CASE ~ \E i \in Matched(order, qty) : l = order[i] BY <1>3, <2>2
  <2> QED BY <2>1, <2>2
<1>7. \A m \in A : LotOK(m) BY <1>2, <1>3 DEF LotsOK
<1>8. \A l, m \in A : l.id = m.id => l = m
  <2> SUFFICES ASSUME NEW l \in A, NEW m \in A, l.id = m.id PROVE l = m
    OBVIOUS
  <2>1. \A i, j \in Matched(order, qty) : order[i].id = order[j].id => i = j
    BY <1>1, <1>4 DEF Ordering
  <2>2. \A k \in L \ {order[i] : i \in Matched(order, qty)} : \A i \in Matched(order, qty) :
          k.id # SoldLot(order, qty, i).id
    BY <1>1, <1>2, <1>4
  <2> QED BY <1>2, <1>3, <1>4, <2>1, <2>2
<1>9. IsFiniteSet(A)
  <2> DEFINE f == [i \in 1 .. n |-> SoldLot(order, qty, i)]
             M == Matched(order, qty)
  <2>1. IsFiniteSet(1 .. n) BY FS_Interval DEF Ordering
  <2>2. IsFiniteSet(M) BY <1>1, <2>1, FS_Subset
  <2>3. IsFiniteSet({f[i] : i \in M}) BY <2>2, ImageFinite
  <2>4. {f[i] : i \in M} = {SoldLot(order, qty, i) : i \in M} BY <1>1
  <2>5. IsFiniteSet(L \ {order[i] : i \in M}) BY FS_Subset DEF LotsOK
  <2> DEFINE X == L \ {order[i] : i \in M}
             Y == {SoldLot(order, qty, i) : i \in M}
  <2>6. IsFiniteSet(X) /\ IsFiniteSet(Y) /\ A = X \cup Y BY <1>3, <2>3, <2>4, <2>5
  <2> HIDE DEF X, Y
  <2> QED BY <2>6, FS_Union
<1> QED BY <1>5, <1>6, <1>7, <1>8, <1>9 DEF LotsOK

\* Quotients of naturals are naturals.
LEMMA DivNat ==
  \A n \in Nat, d \in Nat \ {0} : n \div d \in Nat
OBVIOUS

\* A quotient rounded down.
LEMMA DivBounds ==
  \A n \in Nat, d \in Nat \ {0} : d * (n \div d) <= n /\ n < d * (n \div d) + d
OBVIOUS

\* Products of naturals are naturals.
LEMMA TimesNat == \A a, b \in Nat : a * b \in Nat
OBVIOUS

\* Rounded quotients of naturals are naturals.
LEMMA RoundDivNat ==
  \A n \in Nat, d \in Nat \ {0} : RoundDiv(n, d) \in Nat
<1> SUFFICES ASSUME NEW n \in Nat, NEW d \in Nat \ {0} PROVE RoundDiv(n, d) \in Nat
  OBVIOUS
<1>1. 2 * n + d \in Nat /\ 2 * d \in Nat \ {0} OBVIOUS
<1> QED BY <1>1, DivNat DEF RoundDiv

\* A cent is some positive amount.
LEMMA CentPositive == Cent \in Nat \ {0}
BY PartsAssumption, SMT DEF Cent, Micro

\* The quantities summed over lots and dispositions, as functions.
Remaining == [l \in TaxLot |-> l.remaining]
LotWorth  == [l \in TaxLot |-> RoundDiv(l.remaining * l.unit, Cent)]
DispQty   == [d \in Disposition |-> d.qty]

\* The model's sums are sums of these functions.
LEMMA SumsAre ==
  /\ \A S \in SUBSET TaxLot : Available(S) = SumOn(Remaining, S)
  /\ \A S \in SUBSET TaxLot : Worth(S) = SumOn(LotWorth, S)
  /\ \A S \in SUBSET Disposition : SumOver(S, LAMBDA d : d.qty) = SumOn(DispQty, S)
<1>1. ASSUME NEW S \in SUBSET TaxLot PROVE Available(S) = SumOn(Remaining, S)
  <2>1. [x \in S |-> x.remaining] = [x \in S |-> Remaining[x]] BY DEF Remaining
  <2> QED BY <2>1 DEF Available, SumOver, SumOn
<1>2. ASSUME NEW S \in SUBSET TaxLot PROVE Worth(S) = SumOn(LotWorth, S)
  <2>1. [x \in S |-> RoundDiv(x.remaining * x.unit, Cent)] = [x \in S |-> LotWorth[x]] BY DEF LotWorth
  <2> QED BY <2>1 DEF Worth, SumOver, SumOn
<1>3. ASSUME NEW S \in SUBSET Disposition
      PROVE  SumOver(S, LAMBDA d : d.qty) = SumOn(DispQty, S)
  <2>1. [x \in S |-> x.qty] = [x \in S |-> DispQty[x]] BY DEF DispQty
  <2> QED BY <2>1 DEF SumOver, SumOn
<1> QED BY <1>1, <1>2, <1>3

\* The cost charged for units of a lot is a natural.
LEMMA MatchCostNat ==
  ASSUME NEW L, LotsOK(L), NEW method, NEW order, NEW n, Ordering(L, order, n, method),
         NEW i \in 1 .. n, NEW k \in Nat
  PROVE  MatchCost(order, order[i], k, method) \in Nat
<1> DEFINE held == Range(order)
           worth == SumOn(LotWorth, held)
           all == Available(held)
<1>0. order[i] \in L /\ order[i] \in TaxLot /\ order[i].remaining > 0 /\ L \subseteq TaxLot
      /\ order \in [1 .. n -> L] /\ n \in Nat
  BY DEF Ordering, LotsOK, LotOK
<1>1. held \subseteq L /\ order[i] \in held BY <1>0 DEF Range
<1>2. IsFiniteSet(held) /\ held \subseteq TaxLot BY <1>0, <1>1, FS_Subset DEF LotsOK
<1>3. \A l \in held : LotWorth[l] \in Nat /\ Remaining[l] \in Nat
  <2>1. \A l \in TaxLot : l.remaining \in Nat /\ l.unit \in Nat BY DEF TaxLot
  <2>2. \A l \in TaxLot : RoundDiv(l.remaining * l.unit, Cent) \in Nat
    BY <2>1, TimesNat, RoundDivNat, CentPositive
  <2> QED BY <1>2, <2>1, <2>2 DEF LotWorth, Remaining
<1>4. all = SumOn(Remaining, held) BY <1>2, SumsAre
<1>5. MatchCost(order, order[i], k, method) =
        IF method = "PMP" /\ worth > 0 THEN RoundDiv(k * worth, all) ELSE RoundDiv(k * order[i].unit, Cent)
  BY <1>2, SumsAre DEF MatchCost
<1>6. Remaining[order[i]] = order[i].remaining /\ order[i].remaining \in Nat /\ order[i].unit \in Nat
  BY <1>0 DEF Remaining, TaxLot
<1> HIDE DEF held
<1>7. worth \in Nat BY <1>2, <1>3, SumOnNat
<1>8. all \in Nat \ {0}
  <2>1. SumOn(Remaining, held) = Remaining[order[i]] + SumOn(Remaining, held \ {order[i]})
    BY <1>1, <1>2, <1>3, SumRemove
  <2>2. SumOn(Remaining, held \ {order[i]}) \in Nat
    <3>1. IsFiniteSet(held \ {order[i]}) BY <1>2, FS_Subset
    <3> QED BY <1>3, <3>1, SumOnNat
  <2> QED BY <1>0, <1>4, <1>6, <2>1, <2>2
<1> HIDE DEF worth, all
<1>9. k * worth \in Nat /\ k * order[i].unit \in Nat BY <1>6, <1>7, TimesNat
<1> QED BY <1>5, <1>8, <1>9, RoundDivNat, CentPositive

\* The row a sale writes for the i-th lot of its order.
SoldRow(order, qty, sale, method, i) ==
  [lot |-> order[i].id, sale |-> sale, qty |-> Take(order, qty, i),
   cost |-> MatchCost(order, order[i], Take(order, qty, i), method)]

\* A sale writes one disposition for each lot that yields something.
LEMMA DispositionsFx ==
  ASSUME NEW L, LotsOK(L), NEW method, NEW order, NEW n, Ordering(L, order, n, method),
         NEW qty \in Nat, NEW sale \in TxIds
  PROVE  /\ IsFiniteSet(Dispositions(order, qty, sale, method))
         /\ Dispositions(order, qty, sale, method) =
              {SoldRow(order, qty, sale, method, i) : i \in Matched(order, qty)}
         /\ \A i \in Matched(order, qty) :
              /\ i \in 1 .. n
              /\ SoldRow(order, qty, sale, method, i) \in Disposition
              /\ SoldRow(order, qty, sale, method, i).lot = order[i].id
              /\ SoldRow(order, qty, sale, method, i).sale = sale
              /\ SoldRow(order, qty, sale, method, i).qty = Take(order, qty, i)
<1>1. /\ \A i \in 1 .. n : order[i] \in TaxLot /\ Take(order, qty, i) \in Nat
      /\ Matched(order, qty) = {i \in 1 .. n : Take(order, qty, i) > 0}
  BY Takes DEF LotOK
<1>2. Dispositions(order, qty, sale, method) =
        {SoldRow(order, qty, sale, method, i) : i \in Matched(order, qty)}
  BY DEF Dispositions, SoldRow
<1>3. ASSUME NEW i \in Matched(order, qty)
      PROVE  /\ i \in 1 .. n
             /\ SoldRow(order, qty, sale, method, i) \in Disposition
             /\ SoldRow(order, qty, sale, method, i).lot = order[i].id
             /\ SoldRow(order, qty, sale, method, i).sale = sale
             /\ SoldRow(order, qty, sale, method, i).qty = Take(order, qty, i)
  <2>1. i \in 1 .. n /\ Take(order, qty, i) \in Nat \ {0} BY <1>1
  <2>2. MatchCost(order, order[i], Take(order, qty, i), method) \in Nat BY <2>1, MatchCostNat
  <2>3. order[i].id \in TxIds BY <1>1, <2>1 DEF TaxLot
  <2> QED BY <2>1, <2>2, <2>3 DEF SoldRow, Disposition
<1>4. IsFiniteSet(Dispositions(order, qty, sale, method))
  <2> DEFINE M == Matched(order, qty)
             f == [i \in M |-> SoldRow(order, qty, sale, method, i)]
  <2>1. IsFiniteSet(1 .. n) BY FS_Interval DEF Ordering
  <2>2. IsFiniteSet(M) BY <1>1, <2>1, FS_Subset
  <2>3. IsFiniteSet({f[i] : i \in M}) BY <2>2, ImageFinite
  <2>4. {f[i] : i \in M} = {SoldRow(order, qty, sale, method, i) : i \in M} OBVIOUS
  <2> QED BY <1>2, <2>3, <2>4
<1> QED BY <1>2, <1>3, <1>4

-----------------------------------------------------------------------------
(* What calls write to the position. *)

\* A purchase leaves a position that holds its units more (AddToCostBasis).
LEMMA AddTyped ==
  ASSUME NEW p \in Position, NEW qty \in Nat \ {0}, NEW price \in Nat, NEW amount \in Nat
  PROVE  /\ AddToCostBasis(p, qty, price, amount) \in Position
         /\ AddToCostBasis(p, qty, price, amount).qty = p.qty + qty
<1> DEFINE newQty == p.qty + qty
           newTotal == p.cost.total + amount
           cost == IF p.qty = 0 THEN CostOf(amount, price)
                                ELSE CostOf(newTotal, RoundDiv(newTotal * Cent, newQty))
<1>1. p.qty \in Nat /\ p.cost \in Cost /\ p.cost.total \in Nat BY DEF Position, Cost
<1>2. newQty \in Nat \ {0} /\ newTotal \in Nat /\ Cent \in Nat BY <1>1, CentPositive
<1>3. newTotal * Cent \in Nat BY <1>2, TimesNat
<1>4. RoundDiv(newTotal * Cent, newQty) \in Nat BY <1>2, <1>3, RoundDivNat
<1>5. cost \in Cost BY <1>2, <1>3, <1>4 DEF CostOf, Cost
<1>6. AddToCostBasis(p, qty, price, amount) = [p EXCEPT !.qty = newQty, !.cost = cost]
  BY DEF AddToCostBasis
<1> HIDE DEF newQty, newTotal, cost
<1>7. [p EXCEPT !.qty = newQty, !.cost = cost] \in Position
      /\ [p EXCEPT !.qty = newQty, !.cost = cost].qty = newQty
  BY <1>2, <1>5 DEF Position
<1> QED BY <1>6, <1>7 DEF newQty

\* An exact quotient of positive numbers is positive.
LEMMA DivPos ==
  \A n, d \in Nat \ {0} : n % d = 0 => n \div d \in Nat \ {0}
<1> SUFFICES ASSUME NEW n \in Nat \ {0}, NEW d \in Nat \ {0}, n % d = 0
             PROVE  n \div d \in Nat \ {0}
  OBVIOUS
<1>1. n = d * (n \div d) + (n % d) OBVIOUS
<1>2. n \div d \in Nat BY DivNat
<1>3. n \div d # 0 BY <1>1
<1> QED BY <1>2, <1>3

\* The cost left by a partial sale is not negative, one cent of truncation
\* included.
LEMMA RemainingTotalNat ==
  ASSUME NEW p \in Position, NEW qty \in Nat \ {0}, qty <= p.qty
  PROVE  RemainingTotal(p, qty) \in Nat
<1> DEFINE exact == p.cost.total * (p.qty - qty)
<1>1. p.qty \in Nat \ {0} /\ p.cost.total \in Nat /\ p.qty - qty \in Nat BY DEF Position, Cost
<1>2. exact \in Nat BY <1>1, TimesNat
<1>3. RemainingTotal(p, qty) =
        IF exact > 0 /\ exact % p.qty = 0 /\ ProportionRoundsUp(qty, p.qty)
          THEN exact \div p.qty - 1 ELSE exact \div p.qty
  BY DEF RemainingTotal
<1> HIDE DEF exact
<1>4. exact \div p.qty \in Nat BY <1>1, <1>2, DivNat
<1>5. exact > 0 /\ exact % p.qty = 0 => exact \div p.qty \in Nat \ {0} BY <1>1, <1>2, DivPos
<1> QED BY <1>3, <1>4, <1>5

\* A sale covered by the position leaves one that holds its units less
\* (ReduceFromCostBasis).
LEMMA ReduceTyped ==
  ASSUME NEW p \in Position, NEW qty \in Nat \ {0}, qty <= p.qty
  PROVE  /\ ReduceFromCostBasis(p, qty) \in Position
         /\ ReduceFromCostBasis(p, qty).qty = p.qty - qty
<1> DEFINE cost == IF qty = p.qty THEN NoCost
                   ELSE IF p.cost.known THEN CostOf(RemainingTotal(p, qty), p.cost.avg) ELSE NoCost
           left == p.qty - qty
<1>1. left \in Nat /\ p.cost.avg \in Nat BY DEF Position, Cost
<1>2. RemainingTotal(p, qty) \in Nat BY RemainingTotalNat
<1>3. cost \in Cost BY <1>1, <1>2 DEF CostOf, NoCost, Cost
<1>4. ReduceFromCostBasis(p, qty) = [p EXCEPT !.qty = left, !.cost = cost]
  BY DEF ReduceFromCostBasis
<1> HIDE DEF left, cost
<1>5. [p EXCEPT !.qty = left, !.cost = cost] \in Position
      /\ [p EXCEPT !.qty = left, !.cost = cost].qty = left
  BY <1>1, <1>3 DEF Position
<1> QED BY <1>4, <1>5 DEF left

\* A realized gain is an integer.
LEMMA GainTyped ==
  ASSUME NEW p \in Position, NEW qty \in Nat, NEW price \in Nat
  PROVE  RealizedGain(p, qty, price) \in Int
<1>1. p.cost.avg \in Nat BY DEF Position, Cost
<1>2. qty * p.cost.avg \in Nat /\ qty * price \in Nat BY <1>1, TimesNat
<1>3. (qty * p.cost.avg) \div Cent \in Nat /\ (qty * price) \div Cent \in Nat
  BY <1>2, DivNat, CentPositive
<1> QED BY <1>3 DEF RealizedGain, AverageCharge

\* The position that a sale writes.
LEMMA SoldTyped ==
  ASSUME NEW r, r.pos \in Position, r.row \in Transaction, r.row.qty <= r.pos.qty
  PROVE  Sold(r) \in Position /\ Sold(r).qty = r.pos.qty - r.row.qty
<1> DEFINE q == ReduceFromCostBasis(r.pos, r.row.qty)
           g == r.pos.realized + RealizedGain(r.pos, r.row.qty, r.row.price)
<1>1. r.row.qty \in Nat \ {0} /\ r.row.price \in Nat /\ r.pos.realized \in Int
  BY DEF Transaction, Position
<1>2. q \in Position /\ q.qty = r.pos.qty - r.row.qty BY <1>1, ReduceTyped
<1>3. g \in Int BY <1>1, GainTyped
<1>4. Sold(r) = [q EXCEPT !.realized = g] BY DEF Sold
<1> HIDE DEF q, g
<1> QED BY <1>2, <1>3, <1>4 DEF Position

\* The position that a purchase writes.
LEMMA BoughtTyped ==
  ASSUME NEW r, r.pos \in Position, r.row \in Transaction
  PROVE  Bought(r) \in Position /\ Bought(r).qty = r.pos.qty + r.row.qty
<1>1. r.row.qty \in Nat \ {0} /\ r.row.price \in Nat /\ r.row.amount \in Nat
  BY DEF Transaction
<1> DEFINE p == r.pos
           q == r.row.qty
           u == r.row.price
           v == r.row.amount
<1>2. p \in Position /\ q \in Nat \ {0} /\ u \in Nat /\ v \in Nat BY <1>1
<1>3. Bought(r) = AddToCostBasis(p, q, u, v) BY DEF Bought
<1> HIDE DEF p, q, u, v
<1>4. AddToCostBasis(p, q, u, v) \in Position /\ AddToCostBasis(p, q, u, v).qty = p.qty + q
  BY <1>2, AddTyped
<1> QED BY <1>3, <1>4 DEF p, q

\* The rows that AddAssetToPortfolio writes.
LEMMA AddedTyped ==
  ASSUME NEW r, r.holding \in PortfolioAsset, r.pos \in Position, r.row \in Transaction
  PROVE  HoldingAfterAdd(r) \in PortfolioAsset /\ PositionAfterAdd(r) \in Position
<1> DEFINE newQty == r.holding.qty + r.row.qty
           avg == RoundDiv(r.holding.qty * r.holding.avg + r.row.qty * r.row.price, newQty)
           h == [exists |-> TRUE, qty |-> newQty, avg |-> avg]
           cost == IF avg > 0 THEN CostOf(RoundDiv(newQty * avg, Cent), avg) ELSE r.pos.cost
<1>1. r.holding.qty \in Nat /\ r.holding.avg \in Nat /\ r.row.qty \in Nat \ {0} /\ r.row.price \in Nat
  BY DEF PortfolioAsset, Transaction
<1>2. newQty \in Nat \ {0}
  <2> HIDE DEF avg, h, cost
  <2>1. \A a \in Nat, b \in Nat \ {0} : a + b \in Nat \ {0} OBVIOUS
  <2> QED BY <1>1, <2>1
<1>3. Cent \in Nat \ {0} BY CentPositive
<1>4. r.holding.qty * r.holding.avg \in Nat /\ r.row.qty * r.row.price \in Nat BY <1>1, TimesNat
<1>5. avg \in Nat BY <1>2, <1>4, RoundDivNat
<1>6. HoldingAfterAdd(r) = h BY DEF HoldingAfterAdd
<1>7. PositionAfterAdd(r) = [r.pos EXCEPT !.exists = TRUE, !.qty = newQty, !.cost = cost]
  BY <1>6 DEF PositionAfterAdd
<1> HIDE DEF newQty, avg
<1>8. h \in PortfolioAsset BY <1>2, <1>5 DEF PortfolioAsset
<1>9. RoundDiv(newQty * avg, Cent) \in Nat BY <1>2, <1>3, <1>5, TimesNat, RoundDivNat
<1>10. cost \in Cost BY <1>5, <1>9 DEF CostOf, Cost, Position
<1> HIDE DEF cost
<1>11. [r.pos EXCEPT !.exists = TRUE, !.qty = newQty, !.cost = cost] \in Position
  BY <1>2, <1>10 DEF Position
<1> QED BY <1>6, <1>7, <1>8, <1>11

-----------------------------------------------------------------------------
(* The replay of a history. *)

\* What a replay carries along, and what it starts from.
Accs == [ok : BOOLEAN, pos : Position]

\* The position a replay starts from, nothing on it.
ReplayBase(p) == [ok |-> TRUE, pos |-> [p EXCEPT !.qty = 0, !.cost = NoCost]]

\* h is the recursive function behind the replay of a history.
IsReplay(h, p, history) ==
  h = [s \in SUBSET DOMAIN history |->
         IF s = {} THEN ReplayBase(p)
                   ELSE ReplayOne(h[s \ {Max(s)}], history[Max(s)])]

\* The replay is that function at the whole history, if there is one.
LEMMA ReplayUnfolds ==
  ASSUME NEW p, NEW history
  PROVE  Replay(p, history) = (CHOOSE h : IsReplay(h, p, history))[DOMAIN history]
BY DEF Replay, FoldLeft, MapThenFoldSet, IsReplay, ReplayBase

\* A step of a replay leaves a position.
LEMMA ReplayOneTyped ==
  ASSUME NEW acc \in Accs, NEW t \in Transaction
  PROVE  ReplayOne(acc, t) \in Accs
<1> DEFINE next == IF t.type = "SELL" THEN ReduceFromCostBasis(acc.pos, t.qty)
                   ELSE AddToCostBasis(acc.pos, t.qty, t.price, t.amount)
<1>1. acc.pos \in Position /\ acc.ok \in BOOLEAN /\ t.qty \in Nat \ {0} /\ t.price \in Nat /\ t.amount \in Nat
      /\ acc.pos.qty \in Nat
  BY DEF Accs, Transaction, Position
<1>2. ReplayOne(acc, t) = IF ~acc.ok \/ (t.type = "SELL" /\ t.qty > acc.pos.qty)
                            THEN [acc EXCEPT !.ok = FALSE] ELSE [ok |-> Consistent(next), pos |-> next]
  BY DEF ReplayOne
<1>3. CASE ~acc.ok \/ (t.type = "SELL" /\ t.qty > acc.pos.qty)
  BY <1>2, <1>3 DEF Accs
<1>4. CASE ~(~acc.ok \/ (t.type = "SELL" /\ t.qty > acc.pos.qty))
  <2>1. CASE t.type = "SELL"
    <3>1. t.qty <= acc.pos.qty BY <1>1, <1>4, <2>1
    <3>2. next \in Position BY <1>1, <2>1, <3>1, ReduceTyped
    <3> QED BY <1>2, <1>4, <3>2 DEF Accs, Consistent
  <2>2. CASE t.type # "SELL"
    <3>2. next \in Position BY <1>1, <2>2, AddTyped
    <3> QED BY <1>2, <1>4, <3>2 DEF Accs, Consistent
  <2> QED BY <2>1, <2>2
<1> QED BY <1>3, <1>4

\* Positions in a history have a greatest one.
LEMMA MaxIn ==
  ASSUME NEW n \in Nat, NEW s \in SUBSET (1 .. n), s # {}
  PROVE  Max(s) \in s /\ \A y \in s : y <= Max(s)
<1> DEFINE S == 1 .. n
           T == {k .. n : k \in s}
<1>1. PICK x \in T : \A y \in T : y \subseteq x => y = x
  <2>1. T # {} OBVIOUS
  <2>2. T \in SUBSET SUBSET S
    <3>1. \A k \in s : k .. n \subseteq 1 .. n OBVIOUS
    <3> QED BY <3>1
  <2>3. IsFiniteSet(S) BY FS_Interval
  <2> HIDE DEF S, T
  <2> QED BY <2>1, <2>2, <2>3, SmallestSubset
<1>2. PICK k \in s : x = k .. n OBVIOUS
<1>3. ASSUME NEW y \in s PROVE k >= y
  <2> SUFFICES ASSUME k < y PROVE FALSE OBVIOUS
  <2>1. y .. n \in T /\ y .. n \subseteq x BY <1>2
  <2>2. y .. n = k .. n BY <1>1, <1>2, <2>1
  <2> QED BY <2>2
<1>4. \E m \in s : \A y \in s : m >= y BY <1>3
<1>5. Max(s) \in s /\ \A y \in s : Max(s) >= y BY <1>4 DEF Max
<1> QED BY <1>5

\* The function behind a replay exists.
LEMMA ReplayExists ==
  ASSUME NEW p \in Position, NEW n \in Nat, NEW history \in [1 .. n -> Transaction]
  PROVE  \E h : IsReplay(h, p, history)
<1> DEFINE S == 1 .. n
           pick == [s \in SUBSET S |-> Max(s)]
           step == [q \in S \X Accs |-> ReplayOne(q[2], history[q[1]])]
           base == ReplayBase(p)
<1>0. IsFiniteSet(S) BY FS_Interval
<1>1. \A s \in SUBSET S : s # {} => pick[s] \in s BY MaxIn
<1>2. step \in [S \X Accs -> Accs]
  <2>1. \A q \in S \X Accs : ReplayOne(q[2], history[q[1]]) \in Accs BY ReplayOneTyped
  <2> QED BY <2>1
<1>3. base \in Accs BY DEF ReplayBase, Accs, Position, NoCost, Cost
<1> HIDE DEF pick, step, base, S
<1>4. PICK h \in [SUBSET S -> Accs] : IsRecursion(h, S, base, step, pick)
  BY <1>0, <1>1, <1>2, <1>3, RecursionExists
<1>5. \A s \in SUBSET S : s # {} =>
        step[<<pick[s], h[s \ {pick[s]}]>>] = ReplayOne(h[s \ {Max(s)}], history[Max(s)])
  BY <1>1 DEF pick, step
<1>6. h = [s \in SUBSET S |-> IF s = {} THEN ReplayBase(p)
                                          ELSE ReplayOne(h[s \ {Max(s)}], history[Max(s)])]
  BY <1>4, <1>5 DEF IsRecursion, base
<1>7. DOMAIN history = S BY DEF S
<1> QED BY <1>6, <1>7 DEF IsReplay

\* The units a transaction adds to the position.
Signed == [t \in Transaction |-> IF t.type = "SELL" THEN -t.qty ELSE t.qty]

\* A step that succeeds adds the transaction's units.
LEMMA ReplayOneUnits ==
  ASSUME NEW acc \in Accs, NEW t \in Transaction, ReplayOne(acc, t).ok
  PROVE  acc.ok /\ ReplayOne(acc, t).pos.qty = acc.pos.qty + Signed[t]
<1> DEFINE next == IF t.type = "SELL" THEN ReduceFromCostBasis(acc.pos, t.qty)
                   ELSE AddToCostBasis(acc.pos, t.qty, t.price, t.amount)
<1>1. acc.pos \in Position /\ acc.ok \in BOOLEAN /\ t.qty \in Nat \ {0} /\ t.price \in Nat /\ t.amount \in Nat
      /\ acc.pos.qty \in Nat
  BY DEF Accs, Transaction, Position
<1>2. ReplayOne(acc, t) = IF ~acc.ok \/ (t.type = "SELL" /\ t.qty > acc.pos.qty)
                            THEN [acc EXCEPT !.ok = FALSE] ELSE [ok |-> Consistent(next), pos |-> next]
  BY DEF ReplayOne
<1>3. CASE ~acc.ok \/ (t.type = "SELL" /\ t.qty > acc.pos.qty)
  <2>1. ReplayOne(acc, t).ok = FALSE BY <1>2, <1>3 DEF Accs
  <2> QED BY <2>1
<1>4. CASE ~(~acc.ok \/ (t.type = "SELL" /\ t.qty > acc.pos.qty))
  <2>0. ReplayOne(acc, t).pos = next BY <1>2, <1>4
  <2>1. CASE t.type = "SELL"
    <3>1. t.qty <= acc.pos.qty BY <1>1, <1>4, <2>1
    <3>2. next.qty = acc.pos.qty - t.qty BY <1>1, <2>1, <3>1, ReduceTyped
    <3>3. Signed[t] = -t.qty BY <2>1 DEF Signed
    <3> HIDE DEF next
    <3> QED BY <1>1, <1>4, <2>0, <3>2, <3>3
  <2>2. CASE t.type # "SELL"
    <3>1. next = AddToCostBasis(acc.pos, t.qty, t.price, t.amount) BY <2>2
    <3>2. next.qty = acc.pos.qty + t.qty
      <4> DEFINE p == acc.pos
                 q == t.qty
                 u == t.price
                 v == t.amount
      <4>1. p \in Position /\ q \in Nat \ {0} /\ u \in Nat /\ v \in Nat BY <1>1
      <4> HIDE DEF p, q, u, v, next
      <4>2. AddToCostBasis(p, q, u, v).qty = p.qty + q BY <4>1, AddTyped
      <4> QED BY <3>1, <4>2 DEF p, q, u, v
    <3>3. Signed[t] = t.qty BY <2>2 DEF Signed
    <3> HIDE DEF next
    <3> QED BY <1>1, <1>4, <2>0, <3>2, <3>3
  <2> QED BY <2>1, <2>2
<1> QED BY <1>3, <1>4

\* Those are integers.
LEMMA SignedInt == \A t \in Transaction : Signed[t] \in Int
BY DEF Signed, Transaction

\* A replay gives a position and, if it succeeds, one that holds what its
\* transactions add up to.
LEMMA ReplayFx ==
  ASSUME NEW p \in Position, NEW n \in Nat, NEW history \in [1 .. n -> Transaction]
  PROVE  /\ Replay(p, history) \in Accs
         /\ Replay(p, history).ok =>
              Replay(p, history).pos.qty = SumOn([i \in 1 .. n |-> Signed[history[i]]], 1 .. n)
<1> DEFINE h == CHOOSE h : IsReplay(h, p, history)
           s == [i \in 1 .. n |-> Signed[history[i]]]
           G == {k \in Nat : k <= n =>
                   /\ h[1 .. k] \in Accs
                   /\ h[1 .. k].ok => h[1 .. k].pos.qty = SumOn(s, 1 .. k)}
<1>1. IsReplay(h, p, history) BY ReplayExists
<1>2. DOMAIN history = 1 .. n /\ Replay(p, history) = h[1 .. n] BY ReplayUnfolds
<1> HIDE DEF h
<1>3. \A d \in SUBSET (1 .. n) :
        h[d] = IF d = {} THEN ReplayBase(p) ELSE ReplayOne(h[d \ {Max(d)}], history[Max(d)])
  BY <1>1, <1>2 DEF IsReplay
<1>4. 0 \in G
  <2>1. 1 .. 0 = {} OBVIOUS
  <2>2. SumOn(s, 1 .. 0) = 0 BY <2>1, SumOnEmpty
  <2>3. h[1 .. 0] = ReplayBase(p) BY <1>3, <2>1
  <2>4. ReplayBase(p) \in Accs /\ ReplayBase(p).pos.qty = 0
    BY DEF ReplayBase, Accs, Position, NoCost, Cost
  <2> QED BY <2>2, <2>3, <2>4
<1>5. ASSUME NEW k \in Nat, k \in G PROVE k + 1 \in G
  <2> SUFFICES ASSUME k + 1 <= n
               PROVE  /\ h[1 .. (k + 1)] \in Accs
                      /\ h[1 .. (k + 1)].ok => h[1 .. (k + 1)].pos.qty = SumOn(s, 1 .. (k + 1))
    OBVIOUS
  <2> DEFINE d == 1 .. (k + 1)
  <2>0. k + 1 \in d /\ d \subseteq 1 .. n OBVIOUS
  <2>1. d \in SUBSET (1 .. n) /\ d # {} BY <2>0
  <2>2. Max(d) = k + 1
    <3>1. k + 1 \in d OBVIOUS
    <3>2. Max(d) \in d /\ \A y \in d : y <= Max(d) BY <2>1, MaxIn
    <3> QED BY <3>1, <3>2
  <2>3. d \ {k + 1} = 1 .. k OBVIOUS
  <2>4. h[d] = ReplayOne(h[1 .. k], history[k + 1]) BY <1>3, <2>1, <2>2, <2>3
  <2>5. h[1 .. k] \in Accs /\ (h[1 .. k].ok => h[1 .. k].pos.qty = SumOn(s, 1 .. k)) BY <1>5
  <2>6. history[k + 1] \in Transaction OBVIOUS
  <2>7. h[d] \in Accs BY <2>4, <2>5, <2>6, ReplayOneTyped
  <2>8. SumOn(s, d) = s[k + 1] + SumOn(s, d \ {k + 1}) /\ SumOn(s, 1 .. k) \in Int
    <3>1. IsFiniteSet(d) /\ k + 1 \in d /\ IsFiniteSet(1 .. k) BY FS_Interval
    <3>2. \A y \in d : s[y] \in Int BY SignedInt
    <3>3. \A y \in 1 .. k : s[y] \in Int BY SignedInt
    <3> HIDE DEF d, s
    <3> QED BY <3>1, <3>2, <3>3, SumRemove, SumOnInt
  <2>9. s[k + 1] = Signed[history[k + 1]] /\ Signed[history[k + 1]] \in Int BY SignedInt, <2>6
  <2>10. ASSUME h[d].ok PROVE h[d].pos.qty = SumOn(s, d)
    <3>1. h[1 .. k].ok /\ h[d].pos.qty = h[1 .. k].pos.qty + Signed[history[k + 1]]
      BY <2>4, <2>5, <2>6, <2>10, ReplayOneUnits
    <3>2. SumOn(s, d) = Signed[history[k + 1]] + SumOn(s, 1 .. k) BY <2>3, <2>8, <2>9
    <3>3. h[1 .. k].pos.qty = SumOn(s, 1 .. k) BY <2>5, <3>1
    <3>4. \A a, b \in Int : a + b = b + a OBVIOUS
    <3> HIDE DEF s, d
    <3> QED BY <3>1, <3>2, <3>3, <3>4, <2>8, <2>9
  <2> QED BY <2>7, <2>10
<1> HIDE DEF G
<1>6. \A k \in Nat : k \in G BY <1>4, <1>5, SetInduction
<1> QED BY <1>2, <1>6 DEF G

-----------------------------------------------------------------------------
(* Rows. *)

\* The dispositions of one lot, and conservation of the lots in terms of them.
SoldFrom(l, D) == {d \in D : d.lot = l.id}
Conserved(L, D) == \A l \in L : l.initial = l.remaining + SumOn(DispQty, SoldFrom(l, D))

\* The rows of the three tables: typed, with keys, every disposition of a lot
\* that exists, every unit of a lot accounted for.
RowsOK(T, L, D) ==
  /\ IsFiniteSet(T) /\ T \subseteq Transaction
  /\ \A t, u \in T : t.id = u.id => t = u
  /\ LotsOK(L)
  /\ IsFiniteSet(D) /\ D \subseteq Disposition
  /\ {d.lot : d \in D} \subseteq Ids(L)
  /\ Conserved(L, D)

\* A purchase keeps the rows in order.
LEMMA AddRow ==
  ASSUME NEW T, NEW L, NEW D, RowsOK(T, L, D), NEW row \in Transaction,
         row.id \notin Ids(T), row.id \notin Ids(L)
  PROVE  RowsOK(T \cup {row}, L \cup {LotOf(row)}, D)
<1> DEFINE lot == LotOf(row)
<1>1. LotOK(lot) /\ lot.id = row.id /\ lot.initial = lot.remaining /\ lot.initial \in Nat
  BY DEF LotOf, LotOK, TaxLot, TaxLotStatus, Transaction
<1> HIDE DEF lot
<1>2. LotsOK(L) /\ IsFiniteSet(L) BY DEF RowsOK, LotsOK
<1>3. LotsOK(L \cup {lot})
  <2>1. IsFiniteSet(L \cup {lot}) BY <1>2, FS_AddElement
  <2>2. \A l \in L : l.id # lot.id BY <1>1 DEF Ids
  <2> QED BY <1>1, <1>2, <2>1, <2>2 DEF LotsOK
<1>4. IsFiniteSet(T \cup {row}) BY FS_AddElement DEF RowsOK
<1>5. Conserved(L \cup {lot}, D)
  <2>1. SoldFrom(lot, D) = {} BY <1>1 DEF SoldFrom, RowsOK, Ids
  <2>2. SumOn(DispQty, SoldFrom(lot, D)) = 0 BY <2>1, SumOnEmpty
  <2>3. lot.initial = lot.remaining + SumOn(DispQty, SoldFrom(lot, D)) BY <1>1, <2>2
  <2> QED BY <2>3 DEF Conserved, RowsOK
<1>6. \A t, u \in T \cup {row} : t.id = u.id => t = u BY DEF RowsOK, Ids
<1>7. {d.lot : d \in D} \subseteq Ids(L \cup {lot}) BY DEF RowsOK, Ids
<1>8. RowsOK(T \cup {row}, L \cup {lot}, D)
  BY <1>3, <1>4, <1>5, <1>6, <1>7 DEF RowsOK
<1> QED BY <1>8 DEF lot

\* A deleted transaction does: its lot and dispositions stay.
LEMMA DropRow ==
  ASSUME NEW T, NEW L, NEW D, RowsOK(T, L, D), NEW i
  PROVE  /\ RowsOK({t \in T : t.id # i}, L, D)
         /\ Ids({t \in T : t.id # i}) \subseteq Ids(T)
<1>1. IsFiniteSet({t \in T : t.id # i}) BY FS_Subset DEF RowsOK
<1> QED BY <1>1 DEF RowsOK, Ids

\* So does a transaction overwritten under its id.
LEMMA ChangeRow ==
  ASSUME NEW T, NEW L, NEW D, RowsOK(T, L, D), NEW row \in Transaction, row.id \in Ids(T)
  PROVE  /\ RowsOK({t \in T : t.id # row.id} \cup {row}, L, D)
         /\ Ids({t \in T : t.id # row.id} \cup {row}) = Ids(T)
<1> DEFINE K == {t \in T : t.id # row.id}
<1>1. IsFiniteSet(K \cup {row})
  <2>1. IsFiniteSet(K) BY FS_Subset DEF RowsOK
  <2> HIDE DEF K
  <2> QED BY <2>1, FS_AddElement
<1>2. \A t, u \in K \cup {row} : t.id = u.id => t = u BY DEF RowsOK
<1>3. K \cup {row} \subseteq Transaction BY DEF RowsOK
<1> QED BY <1>1, <1>2, <1>3 DEF RowsOK, Ids

\* A lot m after a sale is one of before with the same dispositions, or one
\* the sale drew on with one disposition more.
FromSale(m, L, D, E, order, n, qty, sale, method) ==
  \/ m \in L /\ SoldFrom(m, E) = SoldFrom(m, D)
  \/ \E i \in 1 .. n :
       /\ 0 < Take(order, qty, i) /\ Take(order, qty, i) <= order[i].remaining
       /\ m = SoldLot(order, qty, i)
       /\ SoldFrom(m, E) = SoldFrom(order[i], D) \cup {SoldRow(order, qty, sale, method, i)}
       /\ SoldRow(order, qty, sale, method, i) \notin SoldFrom(order[i], D)

\* Every lot after a sale is such.
LEMMA SoldFromAfter ==
  ASSUME NEW T, NEW L, NEW D, RowsOK(T, L, D), NEW method,
         NEW order, NEW n, Ordering(L, order, n, method),
         NEW qty \in Nat, NEW sale \in TxIds, sale \notin Sales(D),
         NEW m \in AfterSale(L, order, qty)
  PROVE  FromSale(m, L, D, D \cup Dispositions(order, qty, sale, method), order, n, qty, sale, method)
<1> DEFINE N == Dispositions(order, qty, sale, method)
           r(i) == SoldRow(order, qty, sale, method, i)
<1>1. LotsOK(L) BY DEF RowsOK
<1>3. /\ \A i \in 1 .. n : order[i] \in L /\ LotOK(order[i]) /\ Take(order, qty, i) \in Nat
                           /\ Take(order, qty, i) <= order[i].remaining
      /\ Matched(order, qty) = {i \in 1 .. n : Take(order, qty, i) > 0}
  BY <1>1, Takes
<1>4. \/ m \in L /\ \A i \in 1 .. n : order[i].id = m.id => Take(order, qty, i) = 0
      \/ \E i \in 1 .. n : 0 < Take(order, qty, i) /\ m = SoldLot(order, qty, i)
  BY <1>1, AfterSaleFx
<1>5. /\ N = {r(i) : i \in Matched(order, qty)}
      /\ \A i \in Matched(order, qty) :
              /\ i \in 1 .. n
              /\ r(i) \in Disposition
              /\ r(i).lot = order[i].id
              /\ r(i).sale = sale
  BY <1>1, DispositionsFx
<1> HIDE DEF N, r
<1>6. CASE m \in L /\ \A i \in 1 .. n : order[i].id = m.id => Take(order, qty, i) = 0
  <2>1. \A i \in Matched(order, qty) : order[i].id # m.id BY <1>3, <1>5, <1>6
  <2>2. \A d \in N : d.lot # m.id BY <1>5, <2>1
  <2>3. SoldFrom(m, D \cup N) = SoldFrom(m, D) BY <2>2 DEF SoldFrom
  <2> QED BY <1>6, <2>3 DEF N, FromSale
<1>7. CASE \E i \in 1 .. n : 0 < Take(order, qty, i) /\ m = SoldLot(order, qty, i)
  <2>1. PICK i \in 1 .. n : 0 < Take(order, qty, i) /\ m = SoldLot(order, qty, i) BY <1>7
  <2> DEFINE l == order[i]
  <2>2. l \in L /\ LotOK(l) /\ i \in Matched(order, qty) BY <1>3, <2>1
  <2>3. m.id = l.id BY <1>3, <2>1, SoldLotFx
  <2>4. r(i) \in N /\ r(i).lot = l.id /\ r(i).sale = sale BY <1>5, <2>2
  <2>5. r(i) \notin D BY <2>4 DEF Sales
  <2>6. \A d \in N : d.lot = l.id => d = r(i)
    <3> SUFFICES ASSUME NEW j \in Matched(order, qty), order[j].id = l.id PROVE j = i
      BY <1>5
    <3>1. j \in 1 .. n BY <1>5
    <3>2. order[j] \in L BY <3>1, <1>3
    <3>3. order[j] = l BY <3>2, <1>1, <2>2 DEF LotsOK
    <3> QED BY <3>1, <3>3 DEF Ordering
  <2>7. SoldFrom(m, D \cup N) = SoldFrom(l, D) \cup {r(i)}
    BY <2>3, <2>4, <2>6 DEF SoldFrom
  <2>8. r(i) \notin SoldFrom(l, D) BY <2>5 DEF SoldFrom
  <2>9. Take(order, qty, i) <= l.remaining BY <1>3
  <2> QED BY <2>1, <2>7, <2>8, <2>9 DEF N, r, FromSale
<1> QED BY <1>4, <1>6, <1>7

\* One disposition more adds its value to the sum over a lot's dispositions.
LEMMA SoldSums ==
  ASSUME NEW D, IsFiniteSet(D), D \subseteq Disposition, NEW l, NEW d \in Disposition,
         d \notin SoldFrom(l, D), NEW value, \A x \in Disposition : value[x] \in Nat
  PROVE  /\ SumOn(value, SoldFrom(l, D)) \in Nat
         /\ SumOn(value, SoldFrom(l, D) \cup {d}) = value[d] + SumOn(value, SoldFrom(l, D))
<1> DEFINE old == SoldFrom(l, D)
           new == old \cup {d}
<1>1. IsFiniteSet(old) /\ old \subseteq Disposition
  <2>1. old \subseteq D BY DEF SoldFrom
  <2> QED BY <2>1, FS_Subset
<1>2. d \notin old OBVIOUS
<1> HIDE DEF old
<1>3. IsFiniteSet(new) BY <1>1, FS_AddElement
<1>4. new \ {d} = old /\ d \in new BY <1>2
<1>5. \A x \in new : value[x] \in Int BY <1>1
<1>6. \A x \in old : value[x] \in Nat BY <1>1
<1> HIDE DEF new
<1>7. SumOn(value, old) \in Nat BY <1>1, <1>6, SumOnNat
<1>8. SumOn(value, new) = value[d] + SumOn(value, new \ {d}) BY <1>3, <1>4, <1>5, SumRemove
<1> QED BY <1>4, <1>7, <1>8 DEF old, new

\* A sale changes no lot's id.
LEMMA SaleIds ==
  ASSUME NEW L, LotsOK(L), NEW method, NEW order, NEW n, Ordering(L, order, n, method), NEW qty \in Nat
  PROVE  Ids(AfterSale(L, order, qty)) = Ids(L)
<1> DEFINE A == AfterSale(L, order, qty)
<1>1. /\ \A m \in A :
           \/ m \in L /\ \A i \in 1 .. n : order[i].id = m.id => Take(order, qty, i) = 0
           \/ \E i \in 1 .. n : 0 < Take(order, qty, i) /\ m = SoldLot(order, qty, i)
      /\ \A l \in L : \E m \in A : m.id = l.id
  BY AfterSaleFx
<1>2. \A i \in 1 .. n : order[i] \in L /\ LotOK(order[i]) /\ Take(order, qty, i) \in Nat
                        /\ Take(order, qty, i) <= order[i].remaining
  BY Takes
<1> HIDE DEF A
<1>3. \A i \in 1 .. n : 0 < Take(order, qty, i) => SoldLot(order, qty, i).id = order[i].id
  BY <1>2, SoldLotFx
<1>4. \A m \in A : m.id \in Ids(L) BY <1>1, <1>2, <1>3 DEF Ids
<1>5. Ids(A) = Ids(L) BY <1>1, <1>4 DEF Ids
<1> QED BY <1>5 DEF A

\* A sale keeps the rows in order: what it takes off a lot is what its
\* disposition says.
LEMMA SaleRows ==
  ASSUME NEW T, NEW L, NEW D, RowsOK(T, L, D), NEW row \in Transaction,
         row.id \notin Ids(T), row.id \notin Sales(D), NEW method,
         NEW order \in SaleOrders(FindOpen(L), method)
  PROVE  /\ RowsOK(T \cup {row}, AfterSale(L, order, row.qty),
                   D \cup Dispositions(order, row.qty, row.id, method))
         /\ Ids(AfterSale(L, order, row.qty)) = Ids(L)
         /\ Sales(D \cup Dispositions(order, row.qty, row.id, method)) \subseteq Sales(D) \cup {row.id}
<1> DEFINE n == Cardinality(FindOpen(L))
           qty == row.qty
           A == AfterSale(L, order, qty)
           N == Dispositions(order, qty, row.id, method)
           r(i) == SoldRow(order, qty, row.id, method, i)
<1>1. LotsOK(L) /\ qty \in Nat /\ row.id \in TxIds BY DEF RowsOK, Transaction
<1>2. Ordering(L, order, n, method) BY <1>1, OrderingOfSale
<1> HIDE DEF n, qty
<1>3. /\ \A i \in 1 .. n : order[i] \in L /\ LotOK(order[i]) /\ Take(order, qty, i) \in Nat
                           /\ Take(order, qty, i) <= order[i].remaining
      /\ Matched(order, qty) = {i \in 1 .. n : Take(order, qty, i) > 0}
  BY <1>1, <1>2, Takes
<1>4. /\ LotsOK(A)
      /\ \A m \in A :
           \/ m \in L /\ \A i \in 1 .. n : order[i].id = m.id => Take(order, qty, i) = 0
           \/ \E i \in 1 .. n : 0 < Take(order, qty, i) /\ m = SoldLot(order, qty, i)
      /\ \A l \in L : \E m \in A : m.id = l.id
  BY <1>1, <1>2, AfterSaleFx
<1>5. /\ IsFiniteSet(N)
      /\ N = {r(i) : i \in Matched(order, qty)}
      /\ \A i \in Matched(order, qty) :
              /\ i \in 1 .. n
              /\ r(i) \in Disposition
              /\ r(i).lot = order[i].id
              /\ r(i).sale = row.id
              /\ r(i).qty = Take(order, qty, i)
  BY <1>1, <1>2, DispositionsFx
<1> HIDE DEF A, N, r
<1>6. Ids(A) = Ids(L) BY <1>1, <1>2, SaleIds DEF A
<1>7. {d.lot : d \in D \cup N} \subseteq Ids(A) /\ D \cup N \subseteq Disposition
  <2>1. {d.lot : d \in N} \subseteq Ids(L) /\ N \subseteq Disposition BY <1>3, <1>5 DEF Ids
  <2> QED BY <1>6, <2>1 DEF RowsOK
<1>8. IsFiniteSet(D \cup N) BY <1>5, FS_Union DEF RowsOK
<1>9. IsFiniteSet(T \cup {row}) /\ T \cup {row} \subseteq Transaction
  BY FS_AddElement DEF RowsOK
<1>10. \A t, u \in T \cup {row} : t.id = u.id => t = u BY DEF RowsOK, Ids
<1>11. Sales(D \cup N) \subseteq Sales(D) \cup {row.id} BY <1>5 DEF Sales
<1>12. Conserved(A, D \cup N)
  <2> SUFFICES ASSUME NEW m \in A
               PROVE  m.initial = m.remaining + SumOn(DispQty, SoldFrom(m, D \cup N))
    BY DEF Conserved
  <2>1. CASE m \in L /\ SoldFrom(m, D \cup N) = SoldFrom(m, D)
    BY <2>1 DEF RowsOK, Conserved
  <2>2. CASE \E i \in 1 .. n :
               /\ 0 < Take(order, qty, i) /\ Take(order, qty, i) <= order[i].remaining
               /\ m = SoldLot(order, qty, i)
               /\ SoldFrom(m, D \cup N) = SoldFrom(order[i], D) \cup {r(i)}
               /\ r(i) \notin SoldFrom(order[i], D)
    <3>1. PICK i \in 1 .. n :
               /\ 0 < Take(order, qty, i) /\ Take(order, qty, i) <= order[i].remaining
               /\ m = SoldLot(order, qty, i)
               /\ SoldFrom(m, D \cup N) = SoldFrom(order[i], D) \cup {r(i)}
               /\ r(i) \notin SoldFrom(order[i], D)
      BY <2>2
    <3> DEFINE l == order[i]
               y == Take(order, qty, i)
               sum == SumOn(DispQty, SoldFrom(l, D))
    <3>2. l \in L /\ LotOK(l) /\ y \in Nat /\ i \in Matched(order, qty) BY <1>3, <3>1
    <3>3. m.initial = l.initial /\ m.remaining = l.remaining - y
      BY <1>3, <3>1, SoldLotFx
    <3>4. l.initial = l.remaining + sum BY <3>2 DEF RowsOK, Conserved
    <3>5. r(i) \in Disposition /\ DispQty[r(i)] = y BY <1>5, <3>2 DEF DispQty
    <3>6. \A x \in Disposition : DispQty[x] \in Nat BY DEF DispQty, Disposition
    <3>7. IsFiniteSet(D) /\ D \subseteq Disposition BY DEF RowsOK
    <3>8. sum \in Nat /\ SumOn(DispQty, SoldFrom(l, D) \cup {r(i)}) = DispQty[r(i)] + sum
      BY <3>1, <3>5, <3>6, <3>7, SoldSums
    <3>9. l.remaining \in Nat /\ l.initial \in Nat BY <3>2 DEF LotOK, TaxLot
    <3>10. SumOn(DispQty, SoldFrom(m, D \cup N)) = y + sum BY <3>1, <3>5, <3>8
    <3> HIDE DEF l, y, sum
    <3> QED BY <3>2, <3>3, <3>4, <3>8, <3>9, <3>10
  <2>3. \/ m \in L /\ SoldFrom(m, D \cup N) = SoldFrom(m, D)
        \/ \E i \in 1 .. n :
               /\ 0 < Take(order, qty, i) /\ Take(order, qty, i) <= order[i].remaining
               /\ m = SoldLot(order, qty, i)
               /\ SoldFrom(m, D \cup N) = SoldFrom(order[i], D) \cup {r(i)}
               /\ r(i) \notin SoldFrom(order[i], D)
    <3> DEFINE sale == row.id
    <3>1. m \in AfterSale(L, order, qty) /\ sale \in TxIds /\ sale \notin Sales(D) BY <1>1 DEF A
    <3> HIDE DEF sale
    <3>2. FromSale(m, L, D, D \cup Dispositions(order, qty, sale, method), order, n, qty, sale, method)
      BY <1>1, <1>2, <3>1, SoldFromAfter
    <3> QED BY <3>2 DEF N, r, sale, FromSale
  <2> QED BY <2>1, <2>2, <2>3
<1>13. RowsOK(T \cup {row}, A, D \cup N)
  BY <1>4, <1>7, <1>8, <1>9, <1>10, <1>12 DEF RowsOK
<1> QED BY <1>6, <1>11, <1>13 DEF A, N, qty

-----------------------------------------------------------------------------
(* The parts of the inductive invariant: calls and rows. *)

\* What a call holds at each of its steps.
LEMMA CallIs ==
  ASSUME NEW r \in Call
  PROVE  /\ r.pc \in {"idle", "buy", "sell", "replay", "delete", "update", "create", "lock", "add"}
         /\ r.pc \in {"buy", "sell"} => r.row \in Transaction /\ r.pos \in Position
         /\ r.pc = "replay" => r.target \in TxIds /\ r.pos \in Position
         /\ r.pc = "delete" => r.target \in TxIds /\ r.replay \in Accs
         /\ r.pc = "update" => r.row \in Transaction
         /\ r.pc \in {"create", "lock", "add"} =>
              r.row \in Transaction /\ r.holding \in PortfolioAsset /\ r.pos \in Position
BY DEF Call, Accs

\* The part of the type invariant about position, holding, ids and calls.
StateTyped == /\ position \in Position /\ holding \in PortfolioAsset /\ nextId \in 1 .. MaxTx + 1
          /\ req \in [Clients -> Call]

\* The part of IdsOK about the ids that calls hold.
IdsFresh ==
  /\ \A id \in Ids(txs) \cup Ids(lots) \cup Sales(disps) : id < nextId
  /\ \A c \in Clients : Recording(c) =>
       /\ req[c].row.id < nextId
       /\ req[c].row.id \notin Ids(txs) \cup Ids(lots) \cup Sales(disps)
       /\ \A e \in Clients : Recording(e) /\ req[e].row.id = req[c].row.id => e = c

\* Conservation in the model's words.
LEMMA ConservedIs ==
  \A L, D : D \in SUBSET Disposition =>
    (Conserved(L, D) <=>
       \A l \in L : l.initial = l.remaining + SumOver({d \in D : d.lot = l.id}, LAMBDA d : d.qty))
<1> SUFFICES ASSUME NEW L, NEW D \in SUBSET Disposition, NEW l \in L
             PROVE  SumOn(DispQty, SoldFrom(l, D)) = SumOver({d \in D : d.lot = l.id}, LAMBDA d : d.qty)
  BY DEF Conserved
<1>1. SoldFrom(l, D) = {d \in D : d.lot = l.id} BY DEF SoldFrom
<1>2. {d \in D : d.lot = l.id} \in SUBSET Disposition OBVIOUS
<1> QED BY <1>1, <1>2, SumsAre

\* The part of the type invariant about lots.
LEMMA LotsTyped ==
  \A L : (LotsOK(L) <=>
    /\ IsFiniteSet(L) /\ L \subseteq TaxLot
    /\ \A l \in L :
       /\ l.remaining <= l.initial
       /\ l.status = CASE l.remaining = l.initial -> "OPEN"
                       [] l.remaining = 0         -> "CLOSED"
                       [] OTHER                   -> "PARTIALLY_CLOSED"
    /\ \A l, m \in L : l.id = m.id => l = m)
BY DEF LotsOK, LotOK

\* The inductive invariant as the conjunction of these parts.
LEMMA Parts == IInv <=> StateTyped /\ CallsOK /\ RowsOK(txs, lots, disps) /\ IdsFresh
<1>1. TypeOK /\ RowsFinite <=>
        /\ StateTyped /\ LotsOK(lots)
        /\ IsFiniteSet(txs) /\ txs \subseteq Transaction /\ (\A t, u \in txs : t.id = u.id => t = u)
        /\ IsFiniteSet(disps) /\ disps \subseteq Disposition
  BY LotsTyped DEF TypeOK, RowsFinite, StateTyped
<1>2. IdsOK <=> IdsFresh /\ {d.lot : d \in disps} \subseteq Ids(lots)
  BY DEF IdsOK, IdsFresh, Sales
<1>3. ASSUME disps \subseteq Disposition PROVE LotConservation <=> Conserved(lots, disps)
  <2>1. disps \in SUBSET Disposition BY <1>3
  <2> QED BY <2>1, ConservedIs DEF LotConservation, DispsOf
<1> QED BY <1>1, <1>2, <1>3 DEF IInv, RowsOK

\* The same in the next state.
LEMMA PartsNext == (IInv <=> StateTyped /\ CallsOK /\ RowsOK(txs, lots, disps) /\ IdsFresh)'
<1>1. (TypeOK /\ RowsFinite <=>
        /\ StateTyped /\ LotsOK(lots)
        /\ IsFiniteSet(txs) /\ txs \subseteq Transaction /\ (\A t, u \in txs : t.id = u.id => t = u)
        /\ IsFiniteSet(disps) /\ disps \subseteq Disposition)'
  BY LotsTyped DEF TypeOK, RowsFinite, StateTyped
<1>2. (IdsOK <=> IdsFresh /\ {d.lot : d \in disps} \subseteq Ids(lots))'
  BY DEF IdsOK, IdsFresh, Sales
<1>3. ASSUME disps' \subseteq Disposition PROVE (LotConservation <=> Conserved(lots, disps))'
  <2>1. disps' \in SUBSET Disposition BY <1>3
  <2>2. Conserved(lots', disps') <=> \A l \in lots' :
          l.initial = l.remaining + SumOver({d \in disps' : d.lot = l.id}, LAMBDA d : d.qty)
    BY <2>1, ConservedIs
  <2>3. LotConservation' <=> \A l \in lots' :
          l.initial = l.remaining + SumOver({d \in disps' : d.lot = l.id}, LAMBDA d : d.qty)
    BY DEF LotConservation, DispsOf, SumOver
  <2>4. Conserved(lots, disps)' <=> Conserved(lots', disps')
    BY DEF Conserved
  <2> QED BY <2>2, <2>3, <2>4
<1> QED BY <1>1, <1>2, <1>3 DEF IInv, RowsOK

\* The ids in use, and the part of the invariant that is about calls.
Used == Ids(txs) \cup Ids(lots) \cup Sales(disps)

Calls == StateTyped /\ CallsOK /\ IdsFresh

\* A call that ends: every id it adds is the one it holds.
LEMMA CallEnds ==
  ASSUME Calls, NEW c \in Clients, Reply(c), nextId' = nextId,
         position' \in Position, holding' \in PortfolioAsset,
         \A id \in Used' : id \in Used \/ (Recording(c) /\ id = req[c].row.id)
  PROVE  Calls'
<1>1. req' = [req EXCEPT ![c] = Idle] /\ Idle \in Call /\ Idle.pc = "idle"
  BY DEF Reply, Hold, Idle, Call
<1>2. StateTyped' BY <1>1 DEF Calls, StateTyped
<1>3. req'[c].pc = "idle" /\ \A e \in Clients : e # c => req'[e] = req[e]
  BY <1>1 DEF Calls, StateTyped
<1>4. CallsOK' BY <1>3 DEF Calls, CallsOK, Recording
<1>5. ~Recording(c)' /\ \A e \in Clients : Recording(e)' => e # c /\ Recording(e)
  BY <1>3 DEF Recording
<1>6. IdsFresh'
  <2>1. \A id \in Used' : id < nextId' BY DEF Calls, IdsFresh, Used
  <2>2. \A e \in Clients : Recording(e)' => req'[e].row.id < nextId' /\ req'[e].row.id \notin Used'
    BY <1>3, <1>5 DEF Calls, IdsFresh, Used
  <2>3. \A e, d \in Clients : Recording(e)' /\ Recording(d)' /\ req'[d].row.id = req'[e].row.id => d = e
    BY <1>3, <1>5 DEF Calls, IdsFresh
  <2> QED BY <2>1, <2>2, <2>3 DEF IdsFresh, Used
<1> QED BY <1>2, <1>4, <1>6 DEF Calls

\* A call that reads on without an id of its own.
LEMMA CallReads ==
  ASSUME Calls, NEW c \in Clients, NEW r \in Call, r.pc \in {"replay", "delete", "update"},
         Hold(c, r), UNCHANGED <<position, holding, txs, lots, disps, nextId>>
  PROVE  Calls'
<1>1. req' = [req EXCEPT ![c] = r] BY DEF Hold
<1>2. StateTyped' BY <1>1 DEF Calls, StateTyped
<1>3. req'[c] = r /\ \A e \in Clients : e # c => req'[e] = req[e]
  BY <1>1 DEF Calls, StateTyped
<1>4. CallsOK' BY <1>3 DEF Calls, CallsOK, Recording
<1>5. ~Recording(c)' /\ \A e \in Clients : Recording(e)' => e # c /\ Recording(e)
  BY <1>3 DEF Recording
<1>6. IdsFresh'
  <2>1. Used' = Used BY DEF Used, Sales, Ids
  <2>2. \A e \in Clients : Recording(e)' => req'[e].row.id < nextId' /\ req'[e].row.id \notin Used'
    BY <1>3, <1>5, <2>1 DEF Calls, IdsFresh, Used
  <2>3. \A e, d \in Clients : Recording(e)' /\ Recording(d)' /\ req'[d].row.id = req'[e].row.id => d = e
    BY <1>3, <1>5 DEF Calls, IdsFresh
  <2>4. \A id \in Used' : id < nextId' BY <2>1 DEF Calls, IdsFresh, Used
  <2> QED BY <2>2, <2>3, <2>4 DEF IdsFresh, Used
<1> QED BY <1>2, <1>4, <1>6 DEF Calls

\* A call that takes the next id.
LEMMA CallRecords ==
  ASSUME Calls, RowsOK(txs, lots, disps), NEW c \in Clients, NEW op, StartRecording(c, op),
         NEW r \in Call, r.pc \in {"buy", "sell", "create", "lock"}, r.row.id = nextId,
         r.pc = "sell" => r.row.type = "SELL" /\ r.row.qty <= r.pos.qty,
         r.pc # "sell" => r.row.type = "BUY",
         Hold(c, r)
  PROVE  Calls'
<1>1. req' = [req EXCEPT ![c] = r] /\ nextId <= MaxTx /\ nextId' = nextId + 1
      /\ UNCHANGED <<position, holding, txs, lots, disps>> /\ nextId \in Nat /\ MaxTx \in Nat
  BY MaxTxAssumption DEF Hold, StartRecording, Calls, StateTyped
<1>2. StateTyped' BY <1>1 DEF Calls, StateTyped
<1>3. req'[c] = r /\ \A e \in Clients : e # c => req'[e] = req[e]
  BY <1>1 DEF Calls, StateTyped
<1>4. CallsOK' BY <1>3 DEF Calls, CallsOK, Recording
<1>5. \A e \in Clients : e # c /\ Recording(e)' => Recording(e)
  BY <1>3 DEF Recording
<1>6. IdsFresh'
  <2>0. Used' = Used BY <1>1 DEF Used, Sales, Ids
  <2>1. \A id \in Used' : id < nextId /\ id \in Int
    <3>1. \A id \in Used : id < nextId BY DEF Calls, IdsFresh, Used
    <3>2. Ids(txs) \subseteq TxIds /\ Ids(lots) \subseteq TxIds /\ Sales(disps) \subseteq TxIds
      BY DEF RowsOK, LotsOK, LotOK, Ids, Sales, Transaction, TaxLot, Disposition
    <3>3. \A id \in TxIds : id \in Int BY DEF TxIds
    <3> QED BY <2>0, <3>1, <3>2, <3>3 DEF Used
  <2>2. \A e \in Clients : e # c /\ Recording(e)' =>
          /\ req'[e].row.id < nextId /\ req'[e].row.id \notin Used'
          /\ req'[e].row.id \in Int
    <3>1. \A e \in Clients : Recording(e) => req[e].row.id \in Int
      <4> SUFFICES ASSUME NEW e \in Clients, Recording(e) PROVE req[e].row.id \in Int
        OBVIOUS
      <4>1. req[e] \in Call BY DEF Calls, StateTyped
      <4>2. req[e].row \in Transaction BY <4>1, CallIs DEF Recording
      <4> QED BY <4>2 DEF Transaction, TxIds
    <3> QED BY <1>3, <1>5, <2>0, <3>1 DEF Calls, IdsFresh, Used
  <2>3. \A e, d \in Clients : e # c /\ d # c /\ Recording(e)' /\ Recording(d)'
                              /\ req'[d].row.id = req'[e].row.id => d = e
    BY <1>3, <1>5 DEF Calls, IdsFresh
  <2>4. req'[c].row.id = nextId BY <1>3
  <2>5. \A id \in Used' : id < nextId' BY <1>1, <2>1
  <2>6. \A e \in Clients : Recording(e)' =>
          /\ req'[e].row.id < nextId' /\ req'[e].row.id \notin Used'
    <3> SUFFICES ASSUME NEW e \in Clients, Recording(e)'
                 PROVE  req'[e].row.id < nextId' /\ req'[e].row.id \notin Used'
      OBVIOUS
    <3>1. CASE e = c BY <1>1, <2>1, <2>4, <3>1
    <3>2. CASE e # c BY <1>1, <2>2, <3>2
    <3> QED BY <3>1, <3>2
  <2>7. \A e, d \in Clients : Recording(e)' /\ Recording(d)'
                              /\ req'[d].row.id = req'[e].row.id => d = e
    BY <1>1, <2>2, <2>3, <2>4
  <2> QED BY <2>5, <2>6, <2>7 DEF IdsFresh, Used
<1> QED BY <1>2, <1>4, <1>6 DEF Calls

-----------------------------------------------------------------------------
(* The steps that read. *)

\* The rows of the next state.
LEMMA RowsNext == RowsOK(txs, lots, disps)' <=> RowsOK(txs', lots', disps')
OBVIOUS

\* The invariant is about the calls and about the rows.
LEMMA Whole == IInv <=> Calls /\ RowsOK(txs, lots, disps)
BY Parts DEF Calls

\* The same in the next state.
LEMMA WholeNext == IInv' <=> Calls' /\ RowsOK(txs', lots', disps')
BY PartsNext, RowsNext DEF Calls

\* A request's row has the next id.
LEMMA NewRowTyped ==
  ASSUME nextId \in 1 .. MaxTx, NEW type \in {"BUY", "SELL"}, NEW prices \in SUBSET Prices,
         NEW row \in NewRows(type, prices)
  PROVE  row \in Transaction /\ row.id = nextId /\ row.type = type
<1>1. PICK q \in Qtys, p \in prices, t \in Times :
        row = [id |-> nextId, type |-> type, qty |-> q, price |-> p, amount |-> (q * p) \div Cent, at |-> t]
  BY DEF NewRows
<1>2. q \in Nat \ {0} /\ p \in Nat /\ t \in Nat BY RequestAssumption
<1> DEFINE amount == (q * p) \div Cent
<1>3. amount \in Nat BY <1>2, TimesNat, CentPositive, DivNat
<1> HIDE DEF amount
<1>4. row = [id |-> nextId, type |-> type, qty |-> q, price |-> p, amount |-> amount, at |-> t]
  BY <1>1 DEF amount
<1> QED BY <1>2, <1>3, <1>4 DEF Transaction, TxIds

\* An addition rounds the amount of its row.
LEMMA RoundedRow ==
  ASSUME NEW row \in Transaction
  PROVE  LET rounded == [row EXCEPT !.amount = RoundDiv(row.qty * row.price, Cent)]
         IN  rounded \in Transaction /\ rounded.id = row.id /\ rounded.type = row.type
             /\ rounded.qty = row.qty
<1> DEFINE amount == RoundDiv(row.qty * row.price, Cent)
<1>1. row.qty \in Nat /\ row.price \in Nat BY DEF Transaction
<1>2. amount \in Nat BY <1>1, TimesNat, CentPositive, RoundDivNat
<1> HIDE DEF amount
<1>3. [row EXCEPT !.amount = amount] \in Transaction /\ [row EXCEPT !.amount = amount].id = row.id
      /\ [row EXCEPT !.amount = amount].type = row.type /\ [row EXCEPT !.amount = amount].qty = row.qty
  BY <1>2 DEF Transaction
<1> QED BY <1>3 DEF amount

\* The invariant holds at first.
LEMMA InitInv == Init => IInv
<1> SUFFICES ASSUME Init PROVE IInv OBVIOUS
<1>1. position \in Position /\ holding \in PortfolioAsset
  <2>1. NoCost \in Cost BY DEF NoCost, Cost
  <2>2. NoPosition \in Position BY <2>1 DEF NoPosition, Position
  <2>3. EmptyPosition \in Position BY <2>2 DEF EmptyPosition, Position
  <2>4. NoHolding \in PortfolioAsset BY DEF NoHolding, PortfolioAsset
  <2> QED BY <2>2, <2>3, <2>4 DEF Init
<1>2. nextId \in 1 .. MaxTx + 1 BY MaxTxAssumption DEF Init
<1>3. Idle \in Call /\ Idle.pc = "idle" BY DEF Idle, Call
<1>4. req \in [Clients -> Call] /\ \A c \in Clients : req[c].pc = "idle" BY <1>3 DEF Init
<1>5. Calls BY <1>1, <1>2, <1>4 DEF Init, Calls, StateTyped, CallsOK, IdsFresh, Recording, Ids, Sales
<1>6. RowsOK({}, {}, {})
  BY FS_EmptySet DEF RowsOK, LotsOK, Conserved, Ids
<1>7. RowsOK(txs, lots, disps) BY <1>6 DEF Init
<1> QED BY <1>5, <1>7, Whole

\* ProcessBuyTransaction up to its lock keeps the invariant.
LEMMA StartBuyInv ==
  ASSUME IInv, NEW c \in Clients, StartBuy(c) PROVE IInv'
<1>0. Calls /\ RowsOK(txs, lots, disps) /\ position \in Position /\ nextId \in 1 .. MaxTx
  BY Whole, MaxTxAssumption DEF Calls, StateTyped, StartBuy, StartRecording
<1>1. PICK row \in NewRows("BUY", Prices \ {0}) :
        /\ Valid(row)
        /\ Hold(c, [pc |-> "buy", row |-> row, pos |-> position])
  BY DEF StartBuy
<1>2. row \in Transaction /\ row.id = nextId /\ row.type = "BUY" BY <1>0, NewRowTyped
<1> DEFINE r == [pc |-> "buy", row |-> row, pos |-> position]
<1>3. r \in Call /\ r.pc = "buy" /\ r.row = row BY <1>0, <1>2 DEF Call
<1>4. StartRecording(c, "buy") /\ Hold(c, r) BY <1>1 DEF StartBuy
<1> HIDE DEF r
<1>5. Calls' BY <1>0, <1>2, <1>3, <1>4, CallRecords
<1>6. RowsOK(txs', lots', disps') BY <1>0, <1>4 DEF StartRecording
<1> QED BY <1>5, <1>6, WholeNext

\* ProcessSellTransaction up to its quantity check does.
LEMMA StartSellInv ==
  ASSUME IInv, NEW c \in Clients, StartSell(c) PROVE IInv'
<1>0. Calls /\ RowsOK(txs, lots, disps) /\ position \in Position /\ nextId \in 1 .. MaxTx
  BY Whole, MaxTxAssumption DEF Calls, StateTyped, StartSell, StartRecording
<1>1. PICK row \in NewRows("SELL", Prices \ {0}) :
        /\ row.qty <= position.qty /\ Valid(row)
        /\ Hold(c, [pc |-> "sell", row |-> row, pos |-> position])
  BY DEF StartSell
<1>2. row \in Transaction /\ row.id = nextId /\ row.type = "SELL" BY <1>0, NewRowTyped
<1> DEFINE r == [pc |-> "sell", row |-> row, pos |-> position]
<1>3. r \in Call /\ r.pc = "sell" /\ r.row = row /\ r.pos = position BY <1>0, <1>2 DEF Call
<1>4. StartRecording(c, "sell") /\ Hold(c, r) BY <1>1 DEF StartSell
<1> HIDE DEF r
<1>5. Calls' BY <1>0, <1>1, <1>2, <1>3, <1>4, CallRecords
<1>6. RowsOK(txs', lots', disps') BY <1>0, <1>4 DEF StartRecording
<1> QED BY <1>5, <1>6, WholeNext

\* The row of an addition.
LEMMA StartAddRow ==
  ASSUME nextId \in 1 .. MaxTx, NEW c \in Clients, StartAdd(c)
  PROVE  \E row \in Transaction :
           /\ row.id = nextId /\ row.type = "BUY" /\ row.qty \in Qtys
           /\ Hold(c, [pc |-> IF holding.exists THEN "lock" ELSE "create",
                       row |-> row, holding |-> holding, pos |-> NoPosition])
<1>1. PICK asked \in NewRows("BUY", Prices) :
         Hold(c, [pc      |-> IF holding.exists THEN "lock" ELSE "create",
                  row     |-> [asked EXCEPT !.amount = RoundDiv(asked.qty * asked.price, Cent)],
                  holding |-> holding,
                  pos     |-> NoPosition])
  BY DEF StartAdd
<1>2. asked \in Transaction /\ asked.id = nextId /\ asked.type = "BUY" BY NewRowTyped
<1>3. asked.qty \in Qtys BY DEF NewRows
<1> DEFINE row == [asked EXCEPT !.amount = RoundDiv(asked.qty * asked.price, Cent)]
<1>4. row \in Transaction /\ row.id = nextId /\ row.type = "BUY" /\ row.qty \in Qtys
  BY <1>2, <1>3, RoundedRow
<1> QED BY <1>1, <1>4

\* AddAssetToPortfolio's read does.
LEMMA StartAddInv ==
  ASSUME IInv, NEW c \in Clients, StartAdd(c) PROVE IInv'
<1>0. Calls /\ RowsOK(txs, lots, disps) /\ holding \in PortfolioAsset /\ nextId \in 1 .. MaxTx
  BY Whole, MaxTxAssumption DEF Calls, StateTyped, StartAdd, StartRecording
<1>1. PICK row \in Transaction :
         /\ row.id = nextId /\ row.type = "BUY"
         /\ Hold(c, [pc |-> IF holding.exists THEN "lock" ELSE "create",
                     row |-> row, holding |-> holding, pos |-> NoPosition])
  BY <1>0, StartAddRow
<1>2. row \in Transaction /\ row.id = nextId /\ row.type = "BUY" BY <1>1
<1> DEFINE r == [pc |-> IF holding.exists THEN "lock" ELSE "create",
                 row |-> row, holding |-> holding, pos |-> NoPosition]
<1>3. NoPosition \in Position BY DEF NoPosition, NoCost, Position, Cost
<1>4. r \in Call /\ r.pc \in {"create", "lock"} /\ r.row = row BY <1>0, <1>2, <1>3 DEF Call
<1>5. StartRecording(c, "add") /\ Hold(c, r) BY <1>1 DEF StartAdd
<1> HIDE DEF r
<1>6. Calls' BY <1>0, <1>2, <1>4, <1>5, CallRecords
<1>7. RowsOK(txs', lots', disps') BY <1>0, <1>5 DEF StartRecording
<1> QED BY <1>6, <1>7, WholeNext

\* The history of a position lists its transactions once each.
LEMMA HistoryIs ==
  ASSUME NEW T \in SUBSET Transaction, IsFiniteSet(T), NEW history \in NewestFirst(T)
  PROVE  /\ Cardinality(T) \in Nat
         /\ history \in [1 .. Cardinality(T) -> T]
         /\ \A i, j \in 1 .. Cardinality(T) : history[i] = history[j] => i = j
<1>1. Cardinality(T) \in Nat BY FS_CardinalityType
<1> QED BY <1>1 DEF NewestFirst, SetToSeqs

\* Its replay gives a position.
LEMMA ReplayTyped ==
  ASSUME NEW T \in SUBSET Transaction, IsFiniteSet(T), NEW history \in NewestFirst(T),
         NEW p \in Position
  PROVE  Replay(p, history) \in Accs
<1>1. Cardinality(T) \in Nat /\ history \in [1 .. Cardinality(T) -> Transaction] BY HistoryIs
<1> QED BY <1>1, ReplayFx

\* The row that an update writes, whichever fields it sets.
LEMMA EditedRow ==
  ASSUME txs \subseteq Transaction, NEW c \in Clients, StartUpdate(c)
  PROVE  \E row \in Transaction : Hold(c, [pc |-> "update", row |-> row])
<1> DEFINE row(t, type, q, p, d, a) ==
             [t EXCEPT !.type = type, !.qty = q, !.price = p, !.amount = a, !.at = d]
<1>1. PICK t \in txs :
        \E type \in Given("type", t.type, {"BUY", "SELL"}), q \in Given("qty", t.qty, Qtys),
           p \in Given("price", t.price, Prices), d \in Given("at", t.at, Times) :
          \E a \in Given("amount", t.amount, {(q * p) \div Cent}) :
            /\ Valid(row(t, type, q, p, d, a))
            /\ Hold(c, [pc |-> "update", row |-> row(t, type, q, p, d, a)])
  BY Zenon DEF StartUpdate
<1>2. /\ t.type \in {"BUY", "SELL"} /\ t.qty \in Nat \ {0} /\ t.price \in Nat
      /\ t.amount \in Nat /\ t.at \in Nat /\ t \in Transaction
  BY DEF Transaction
<1>3. PICK type \in Given("type", t.type, {"BUY", "SELL"}), q \in Given("qty", t.qty, Qtys),
           p \in Given("price", t.price, Prices), d \in Given("at", t.at, Times) :
        \E a \in Given("amount", t.amount, {(q * p) \div Cent}) :
          Hold(c, [pc |-> "update", row |-> row(t, type, q, p, d, a)])
  BY <1>1
<1>4. PICK a \in Given("amount", t.amount, {(q * p) \div Cent}) :
        Hold(c, [pc |-> "update", row |-> row(t, type, q, p, d, a)])
  BY <1>3
<1>5. type \in {"BUY", "SELL"} /\ q \in Nat \ {0} /\ p \in Nat /\ d \in Nat
  BY <1>2, RequestAssumption DEF Given
<1>6. a \in Nat
  <2>1. (q * p) \div Cent \in Nat BY <1>5, TimesNat, CentPositive, DivNat
  <2> QED BY <1>2, <2>1 DEF Given
<1>7. [t EXCEPT !.type = type, !.qty = q, !.price = p, !.amount = a, !.at = d] \in Transaction
  BY <1>2, <1>5, <1>6 DEF Transaction
<1> QED BY <1>4, <1>7

\* The reads of DeleteTransaction and UpdateTransaction keep the invariant.
LEMMA DeleteReadsInv ==
  ASSUME IInv, NEW c \in Clients, StartDelete(c) \/ ReplayHistory(c) \/ StartUpdate(c) PROVE IInv'
<1>0. Calls /\ RowsOK(txs, lots, disps) /\ position \in Position /\ req[c] \in Call
  BY Whole DEF Calls, StateTyped
<1>a. UNCHANGED <<position, holding, txs, lots, disps, nextId>>
  BY DEF StartDelete, ReplayHistory, StartUpdate
<1>b. \E r \in Call : r.pc \in {"replay", "delete", "update"} /\ Hold(c, r)
  <2>1. CASE StartDelete(c)
    <3>1. PICK t \in txs : Hold(c, [pc |-> "replay", target |-> t.id, pos |-> position])
      BY <2>1 DEF StartDelete
    <3>2. t.id \in TxIds BY <1>0 DEF RowsOK, Transaction
    <3> DEFINE r == [pc |-> "replay", target |-> t.id, pos |-> position]
    <3>3. r \in Call /\ r.pc = "replay" BY <1>0, <3>2 DEF Call
    <3> QED BY <3>1, <3>3
  <2>2. CASE ReplayHistory(c)
    <3> DEFINE T == {t \in txs : t.id # req[c].target}
    <3>1. PICK history \in NewestFirst(T) :
            Hold(c, [pc |-> "delete", target |-> req[c].target, replay |-> Replay(req[c].pos, history)])
      BY <2>2 DEF ReplayHistory
    <3>2. req[c].target \in TxIds /\ req[c].pos \in Position
      BY <1>0, <2>2, CallIs DEF ReplayHistory, At
    <3>3. T \in SUBSET Transaction /\ IsFiniteSet(T) BY <1>0, FS_Subset DEF RowsOK
    <3> HIDE DEF T
    <3>4. Replay(req[c].pos, history) \in Accs BY <3>1, <3>2, <3>3, ReplayTyped
    <3> DEFINE x == Replay(req[c].pos, history)
               r == [pc |-> "delete", target |-> req[c].target, replay |-> x]
    <3>5. x \in Accs BY <3>4
    <3>6. Hold(c, r) BY <3>1
    <3> HIDE DEF x
    <3>7. r \in Call /\ r.pc = "delete" BY <3>2, <3>5 DEF Call, Accs
    <3> QED BY <3>6, <3>7
  <2>3. CASE StartUpdate(c)
    <3>1. PICK row \in Transaction : Hold(c, [pc |-> "update", row |-> row])
      BY <1>0, <2>3, EditedRow DEF RowsOK
    <3> DEFINE r == [pc |-> "update", row |-> row]
    <3>2. r \in Call /\ r.pc = "update" BY DEF Call
    <3> QED BY <3>1, <3>2
  <2> QED BY <2>1, <2>2, <2>3
<1>1. Calls' BY <1>0, <1>a, <1>b, CallReads
<1>2. RowsOK(txs', lots', disps') BY <1>0, <1>a
<1> QED BY <1>1, <1>2, WholeNext

\* Taking the lock of the portfolio_assets row does.
LEMMA LockHoldingInv ==
  ASSUME IInv, NEW c \in Clients, LockHolding(c) PROVE IInv'
<1>0. Calls /\ RowsOK(txs, lots, disps) /\ position \in Position /\ req \in [Clients -> Call]
  BY Whole DEF Calls, StateTyped
<1> DEFINE r == [req[c] EXCEPT !.pc = "add", !.pos = position]
<1>1. req' = [req EXCEPT ![c] = r] /\ req[c].pc = "lock"
      /\ UNCHANGED <<position, holding, txs, lots, disps, nextId>>
  BY DEF LockHolding, Hold, At
<1>2. req[c] \in Call /\ req[c].row \in Transaction /\ req[c].holding \in PortfolioAsset
  BY <1>0, <1>1, CallIs
<1>3. r \in Call /\ r.pc = "add" /\ r.row = req[c].row
  <2>1. req[c] \in [pc : {"create", "lock", "add"}, row : Transaction, holding : PortfolioAsset,
                    pos : Position]
    BY <1>1, <1>2 DEF Call
  <2>2. r \in [pc : {"create", "lock", "add"}, row : Transaction, holding : PortfolioAsset,
               pos : Position] /\ r.pc = "add" /\ r.row = req[c].row
    BY <1>0, <2>1
  <2> QED BY <2>2 DEF Call
<1> HIDE DEF r
<1>4. req'[c] = r /\ \A e \in Clients : e # c => req'[e] = req[e] BY <1>0, <1>1
<1>5. StateTyped' BY <1>0, <1>1, <1>3 DEF Calls, StateTyped
<1>6. \A e \in Clients : (Recording(e)' <=> Recording(e)) /\ (Recording(e) => req'[e].row = req[e].row)
  BY <1>1, <1>3, <1>4 DEF Recording
<1>7. CallsOK' BY <1>0, <1>1, <1>3, <1>4, <1>6 DEF Calls, CallsOK, Recording
<1>8. IdsFresh'
  <2>1. Used' = Used BY <1>1 DEF Used, Sales, Ids
  <2>2. \A id \in Used' : id < nextId' BY <1>0, <1>1, <2>1 DEF Calls, IdsFresh, Used
  <2>3. \A e \in Clients : Recording(e)' => req'[e].row.id < nextId' /\ req'[e].row.id \notin Used'
    BY <1>0, <1>1, <1>6, <2>1 DEF Calls, IdsFresh, Used
  <2>4. \A e, d \in Clients : Recording(e)' /\ Recording(d)' /\ req'[d].row.id = req'[e].row.id => d = e
    BY <1>0, <1>6 DEF Calls, IdsFresh
  <2> QED BY <2>2, <2>3, <2>4 DEF IdsFresh, Used
<1>9. Calls' BY <1>5, <1>7, <1>8 DEF Calls
<1>10. RowsOK(txs', lots', disps') BY <1>0, <1>1
<1> QED BY <1>9, <1>10, WholeNext

-----------------------------------------------------------------------------
(* The steps that write. *)

\* What a call that is about to write knows.
LEMMA AtCommit ==
  ASSUME IInv, NEW c \in Clients
  PROVE  /\ Calls /\ RowsOK(txs, lots, disps)
         /\ req[c] \in Call
         /\ position \in Position /\ holding \in PortfolioAsset
         /\ Recording(c) => /\ req[c].row \in Transaction
                            /\ req[c].row.id \notin Ids(txs)
                            /\ req[c].row.id \notin Ids(lots)
                            /\ req[c].row.id \notin Sales(disps)
<1>1. Calls /\ RowsOK(txs, lots, disps) BY Whole
<1>2. req[c] \in Call /\ position \in Position /\ holding \in PortfolioAsset
  BY <1>1 DEF Calls, StateTyped
<1>3. Recording(c) => req[c].row \in Transaction BY <1>2, CallIs DEF Recording
<1> QED BY <1>1, <1>2, <1>3 DEF Calls, IdsFresh

\* A purchase that commits keeps the invariant.
LEMMA CommitBuyInv ==
  ASSUME IInv, NEW c \in Clients, CommitBuy(c) PROVE IInv'
<1>1. req[c].pc = "buy" /\ Recording(c) BY DEF CommitBuy, At, Recording
<1>2. /\ Calls /\ RowsOK(txs, lots, disps) /\ holding \in PortfolioAsset
      /\ req[c].row \in Transaction /\ req[c].pos \in Position
      /\ req[c].row.id \notin Ids(txs) /\ req[c].row.id \notin Ids(lots)
  BY <1>1, AtCommit, CallIs
<1>3. position' = Bought(req[c]) /\ txs' = txs \cup {req[c].row} /\ lots' = lots \cup {LotOf(req[c].row)}
      /\ Reply(c) /\ UNCHANGED <<holding, disps, nextId>>
  BY DEF CommitBuy
<1>4. position' \in Position BY <1>2, <1>3, BoughtTyped
<1>5. /\ RowsOK(txs \cup {req[c].row}, lots \cup {LotOf(req[c].row)}, disps)
      /\ Ids(txs \cup {req[c].row}) = Ids(txs) \cup {req[c].row.id}
      /\ Ids(lots \cup {LotOf(req[c].row)}) = Ids(lots) \cup {req[c].row.id}
  <2> DEFINE row == req[c].row
  <2>1. row \in Transaction /\ row.id \notin Ids(txs) /\ row.id \notin Ids(lots) /\ RowsOK(txs, lots, disps)
    BY <1>2
  <2> HIDE DEF row
  <2>2. RowsOK(txs \cup {row}, lots \cup {LotOf(row)}, disps) BY <2>1, AddRow
  <2>3. Ids(txs \cup {row}) = Ids(txs) \cup {row.id} BY DEF Ids
  <2>4. Ids(lots \cup {LotOf(row)}) = Ids(lots) \cup {row.id}
    <3>1. LotOf(row).id = row.id BY DEF LotOf
    <3> QED BY <3>1 DEF Ids
  <2> QED BY <2>2, <2>3, <2>4 DEF row
<1>6. Used' = Ids(txs') \cup Ids(lots') \cup Sales(disps') BY DEF Used, Ids, Sales
<1>7. \A id \in Used' : id \in Used \/ (Recording(c) /\ id = req[c].row.id)
  BY <1>1, <1>3, <1>5, <1>6 DEF Used
<1>8. Calls' BY <1>2, <1>3, <1>4, <1>7, CallEnds
<1>9. RowsOK(txs', lots', disps') BY <1>3, <1>5
<1> QED BY <1>8, <1>9, WholeNext

\* A sale that commits does, whatever other calls hold.
LEMMA CommitSellInv ==
  ASSUME IInv, NEW c \in Clients, CommitSell(c) PROVE IInv'
<1>1. req[c].pc = "sell" /\ Recording(c) BY DEF CommitSell, At, Recording
<1>2. /\ Calls /\ RowsOK(txs, lots, disps) /\ holding \in PortfolioAsset
      /\ req[c].row \in Transaction /\ req[c].pos \in Position
      /\ req[c].row.id \notin Ids(txs) /\ req[c].row.id \notin Sales(disps)
  BY <1>1, AtCommit, CallIs
<1>3. req[c].row.qty <= req[c].pos.qty BY <1>1, <1>2 DEF Calls, CallsOK
<1>4. position' = Sold(req[c]) /\ txs' = txs \cup {req[c].row}
      /\ Reply(c) /\ UNCHANGED <<holding, nextId>>
  BY DEF CommitSell
<1>5. PICK order \in SaleOrders(FindOpen(lots), Method) :
        /\ lots'  = AfterSale(lots, order, req[c].row.qty)
        /\ disps' = disps \cup Dispositions(order, req[c].row.qty, req[c].row.id, Method)
  BY DEF CommitSell
<1>6. position' \in Position BY <1>2, <1>3, <1>4, SoldTyped
<1>7. /\ RowsOK(txs \cup {req[c].row}, AfterSale(lots, order, req[c].row.qty),
                disps \cup Dispositions(order, req[c].row.qty, req[c].row.id, Method))
      /\ Ids(AfterSale(lots, order, req[c].row.qty)) = Ids(lots)
      /\ Sales(disps \cup Dispositions(order, req[c].row.qty, req[c].row.id, Method))
           \subseteq Sales(disps) \cup {req[c].row.id}
  BY <1>2, SaleRows
<1>8. Ids(txs') = Ids(txs) \cup {req[c].row.id} BY <1>4 DEF Ids
<1>9. Used' = Ids(txs') \cup Ids(lots') \cup Sales(disps') BY DEF Used, Ids, Sales
<1>10. \A id \in Used' : id \in Used \/ (Recording(c) /\ id = req[c].row.id)
  BY <1>1, <1>5, <1>7, <1>8, <1>9 DEF Used
<1>11. Calls' BY <1>2, <1>4, <1>6, <1>10, CallEnds
<1>12. RowsOK(txs', lots', disps') BY <1>4, <1>5, <1>7
<1> QED BY <1>11, <1>12, WholeNext

\* A deletion that commits does.
LEMMA CommitDeleteInv ==
  ASSUME IInv, NEW c \in Clients, CommitDelete(c) PROVE IInv'
<1>1. req[c].pc = "delete" BY DEF CommitDelete, At
<1>2. /\ Calls /\ RowsOK(txs, lots, disps) /\ holding \in PortfolioAsset
      /\ req[c].replay \in Accs
  BY <1>1, AtCommit, CallIs
<1>3. position' = req[c].replay.pos /\ txs' = {t \in txs : t.id # req[c].target}
      /\ Reply(c) /\ UNCHANGED <<holding, lots, disps, nextId>>
  BY DEF CommitDelete
<1>4. position' \in Position BY <1>2, <1>3 DEF Accs
<1> DEFINE target == req[c].target
<1>5. RowsOK(txs', lots', disps') /\ Ids(txs') \subseteq Ids(txs)
  <2>1. txs' = {t \in txs : t.id # target} /\ UNCHANGED <<lots, disps>> BY <1>3
  <2> HIDE DEF target
  <2>2. RowsOK({t \in txs : t.id # target}, lots, disps)
        /\ Ids({t \in txs : t.id # target}) \subseteq Ids(txs)
    BY <1>2, DropRow
  <2> QED BY <2>1, <2>2
<1>6. Used' = Ids(txs') \cup Ids(lots') \cup Sales(disps') BY DEF Used, Ids, Sales
<1>7. \A id \in Used' : id \in Used \/ (Recording(c) /\ id = req[c].row.id)
  BY <1>3, <1>5, <1>6 DEF Used
<1>8. Calls' BY <1>2, <1>3, <1>4, <1>7, CallEnds
<1> QED BY <1>5, <1>8, WholeNext

\* An overwritten transaction does.
LEMMA CommitUpdateInv ==
  ASSUME IInv, NEW c \in Clients, CommitUpdate(c) PROVE IInv'
<1>1. req[c].pc = "update" BY DEF CommitUpdate, At
<1>2. /\ Calls /\ RowsOK(txs, lots, disps) /\ holding \in PortfolioAsset /\ position \in Position
      /\ req[c].row \in Transaction
  BY <1>1, AtCommit, CallIs
<1>3. txs' = {t \in txs : t.id # req[c].row.id} \cup {req[c].row}
      /\ Reply(c) /\ UNCHANGED <<position, holding, lots, disps, nextId>>
  BY DEF CommitUpdate
<1>4. req[c].row.id \in Ids(txs) BY <1>1 DEF CommitUpdate, CanCommit, Ids
<1>5. RowsOK(txs', lots', disps') /\ Ids(txs') = Ids(txs) BY <1>2, <1>3, <1>4, ChangeRow
<1>6. Used' = Ids(txs') \cup Ids(lots') \cup Sales(disps') BY DEF Used, Ids, Sales
<1>7. \A id \in Used' : id \in Used \/ (Recording(c) /\ id = req[c].row.id)
  BY <1>3, <1>5, <1>6 DEF Used
<1>8. Calls' BY <1>2, <1>3, <1>7, CallEnds
<1> QED BY <1>5, <1>8, WholeNext

\* AddAssetToPortfolio's writes do.
LEMMA AdditionInv ==
  ASSUME IInv, NEW c \in Clients, CommitCreate(c) \/ CommitAdd(c) PROVE IInv'
<1>1. req[c].pc \in {"create", "add"} /\ Recording(c) BY DEF CommitCreate, CommitAdd, At, Recording
<1>2. /\ Calls /\ RowsOK(txs, lots, disps) /\ position \in Position
      /\ req[c].row \in Transaction /\ req[c].pos \in Position /\ req[c].holding \in PortfolioAsset
      /\ req[c].row.id \notin Ids(txs) /\ req[c].row.id \notin Ids(lots)
  BY <1>1, AtCommit, CallIs
<1>3. /\ holding' = HoldingAfterAdd(req[c])
      /\ position' \in {position, PositionAfterAdd(req[c])}
      /\ \/ txs' = txs /\ lots' = lots
         \/ txs' = txs \cup {req[c].row} /\ lots' = lots \cup {LotOf(req[c].row)}
      /\ Reply(c) /\ UNCHANGED <<disps, nextId>>
  BY DEF CommitCreate, CommitAdd
<1>4. position' \in Position /\ holding' \in PortfolioAsset BY <1>2, <1>3, AddedTyped
<1>5. /\ RowsOK(txs \cup {req[c].row}, lots \cup {LotOf(req[c].row)}, disps)
      /\ Ids(txs \cup {req[c].row}) = Ids(txs) \cup {req[c].row.id}
      /\ Ids(lots \cup {LotOf(req[c].row)}) = Ids(lots) \cup {req[c].row.id}
  <2> DEFINE row == req[c].row
  <2>1. row \in Transaction /\ row.id \notin Ids(txs) /\ row.id \notin Ids(lots) /\ RowsOK(txs, lots, disps)
    BY <1>2
  <2> HIDE DEF row
  <2>2. RowsOK(txs \cup {row}, lots \cup {LotOf(row)}, disps) BY <2>1, AddRow
  <2>3. Ids(txs \cup {row}) = Ids(txs) \cup {row.id} BY DEF Ids
  <2>4. Ids(lots \cup {LotOf(row)}) = Ids(lots) \cup {row.id}
    <3>1. LotOf(row).id = row.id BY DEF LotOf
    <3> QED BY <3>1 DEF Ids
  <2> QED BY <2>2, <2>3, <2>4 DEF row
<1>6. Used' = Ids(txs') \cup Ids(lots') \cup Sales(disps') BY DEF Used, Ids, Sales
<1>7. \A id \in Used' : id \in Used \/ (Recording(c) /\ id = req[c].row.id)
  BY <1>1, <1>3, <1>5, <1>6 DEF Used
<1>8. Calls' BY <1>2, <1>3, <1>4, <1>7, CallEnds
<1>9. RowsOK(txs', lots', disps') BY <1>2, <1>3, <1>5
<1> QED BY <1>8, <1>9, WholeNext

\* A call that fails does.
LEMMA RollBackInv ==
  ASSUME IInv, NEW c \in Clients, RollBack(c) PROVE IInv'
<1>1. Calls /\ RowsOK(txs, lots, disps) /\ position \in Position /\ holding \in PortfolioAsset
  BY AtCommit
<1>2. Reply(c) /\ UNCHANGED <<position, holding, txs, lots, disps, nextId>> BY DEF RollBack
<1>3. Used' = Used BY <1>2 DEF Used, Ids, Sales
<1>4. Calls' BY <1>1, <1>2, <1>3, CallEnds
<1>5. RowsOK(txs', lots', disps') BY <1>1, <1>2
<1> QED BY <1>4, <1>5, WholeNext

\* Every step keeps the invariant.
LEMMA NextInv == IInv /\ [Next]_vars => IInv'
<1> SUFFICES ASSUME IInv, [Next]_vars PROVE IInv' OBVIOUS
<1>1. ASSUME NEW c \in Clients, StartBuy(c) PROVE IInv' BY <1>1, StartBuyInv
<1>2. ASSUME NEW c \in Clients, CommitBuy(c) PROVE IInv' BY <1>2, CommitBuyInv
<1>3. ASSUME NEW c \in Clients, StartSell(c) PROVE IInv' BY <1>3, StartSellInv
<1>4. ASSUME NEW c \in Clients, CommitSell(c) PROVE IInv' BY <1>4, CommitSellInv
<1>5. ASSUME NEW c \in Clients, StartDelete(c) \/ ReplayHistory(c) \/ StartUpdate(c) PROVE IInv'
  BY <1>5, DeleteReadsInv
<1>6. ASSUME NEW c \in Clients, CommitDelete(c) PROVE IInv' BY <1>6, CommitDeleteInv
<1>7. ASSUME NEW c \in Clients, CommitUpdate(c) PROVE IInv' BY <1>7, CommitUpdateInv
<1>8. ASSUME NEW c \in Clients, StartAdd(c) PROVE IInv' BY <1>8, StartAddInv
<1>9. ASSUME NEW c \in Clients, CommitCreate(c) \/ CommitAdd(c) PROVE IInv' BY <1>9, AdditionInv
<1>10. ASSUME NEW c \in Clients, LockHolding(c) PROVE IInv' BY <1>10, LockHoldingInv
<1>11. ASSUME NEW c \in Clients, RollBack(c) PROVE IInv' BY <1>11, RollBackInv
<1>12. CASE UNCHANGED vars
  <2>1. UNCHANGED <<position, holding, txs, lots, disps, nextId, req>> BY <1>12 DEF vars
  <2>2. Calls /\ RowsOK(txs, lots, disps) BY Whole
  <2>3. Used' = Used /\ \A c \in Clients : Recording(c)' <=> Recording(c)
    BY <2>1 DEF Used, Ids, Sales, Recording
  <2>4. Calls'
    <3>1. StateTyped' /\ CallsOK' BY <2>1, <2>2 DEF Calls, StateTyped, CallsOK, Recording
    <3>2. IdsFresh' BY <2>1, <2>2, <2>3 DEF Calls, IdsFresh, Used
    <3> QED BY <3>1, <3>2 DEF Calls
  <2>5. RowsOK(txs', lots', disps') BY <2>1, <2>2
  <2> QED BY <2>4, <2>5, WholeNext
<1> QED BY <1>1, <1>2, <1>3, <1>4, <1>5, <1>6, <1>7, <1>8, <1>9, <1>10, <1>11, <1>12 DEF Next

\* The inductive invariant holds for every number of clients, every mix of
\* operations and every method.
THEOREM Inductive == Spec => []IInv
BY InitInv, NextInv, PTL DEF Spec

\* The type invariant: no row is ever out of its column's range, quantities
\* never fall below 0, ids stay keys and every lot's status tells how much of
\* it is left, whatever calls overlap.
THEOREM TypeCorrect == Spec => []TypeOK
<1>1. IInv => TypeOK BY DEF IInv
<1> QED BY <1>1, Inductive, PTL

\* No unit of a lot is sold twice and none vanishes (ProcessSellTransaction),
\* whatever calls overlap.
THEOREM ConservesLots == Spec => []LotConservation
<1>1. IInv => LotConservation BY DEF IInv
<1> QED BY <1>1, Inductive, PTL

-----------------------------------------------------------------------------
(* Sales draw on the oldest lots first. *)

\* Every lot before one that is drawn on yields all it has.
LEMMA EarlierEmptied ==
  ASSUME NEW L, LotsOK(L), NEW method, NEW order, NEW n, Ordering(L, order, n, method),
         NEW qty \in Nat, NEW i \in 1 .. n, NEW j \in 1 .. n, j < i, Take(order, qty, i) > 0
  PROVE  Take(order, qty, j) = order[j].remaining
<1>n. n \in Nat BY DEF Ordering
<1>r. \A k \in 1 .. n : order[k].remaining \in Nat BY Takes
<1>0. n \in Nat /\ \A k \in 1 .. n : order[k].remaining \in Nat BY <1>n, <1>r
<1>1. Take(order, qty, i) =
        IF qty <= Before(order, n, i) THEN 0
        ELSE IF qty - Before(order, n, i) <= order[i].remaining
               THEN qty - Before(order, n, i) ELSE order[i].remaining
  BY <1>0, TakeIs
<1>2. Take(order, qty, j) =
        IF qty <= Before(order, n, j) THEN 0
        ELSE IF qty - Before(order, n, j) <= order[j].remaining
               THEN qty - Before(order, n, j) ELSE order[j].remaining
  BY <1>0, TakeIs
<1>3. \A k \in 1 .. n + 1 : Before(order, n, k) \in Nat BY <1>0, BeforeFx
<1>4. \A k \in 1 .. n : Before(order, n, k + 1) = Before(order, n, k) + order[k].remaining BY <1>0, BeforeFx
<1>5. \A k, m \in 1 .. n : k < m => Before(order, n, k + 1) <= Before(order, n, m) BY <1>0, BeforeFx
<1>6. Before(order, n, i) \in Nat /\ Before(order, n, j) \in Nat /\ order[j].remaining \in Nat BY <1>0, <1>3
<1>7. Before(order, n, j) + order[j].remaining <= Before(order, n, i) BY <1>4, <1>5
<1>8. ~(qty <= Before(order, n, i)) BY <1>1
<1>9. ~(qty - Before(order, n, j) < order[j].remaining) BY <1>6, <1>7, <1>8
<1>10. ~(qty <= Before(order, n, j)) \/ order[j].remaining = 0 BY <1>6, <1>7, <1>8
<1> QED BY <1>2, <1>6, <1>9, <1>10

\* A lot older than one that a sale drew on is empty afterwards.
LEMMA SaleOldestFirst ==
  ASSUME NEW L, LotsOK(L), NEW method \in {"FIFO", "PMP"}, NEW order,
         NEW n, Ordering(L, order, n, method),
         NEW qty \in Nat, NEW i \in 1 .. n, Take(order, qty, i) > 0,
         NEW l \in AfterSale(L, order, qty), l.at < order[i].at
  PROVE  l.remaining = 0
<1>1. \A k \in 1 .. n : order[k] \in L /\ LotOK(order[k]) /\ Take(order, qty, k) \in Nat
                        /\ Take(order, qty, k) <= order[k].remaining
  BY Takes
<1>2. \A k \in 1 .. n : order[k].at < order[i].at => k < i
  <2> SUFFICES ASSUME NEW k \in 1 .. n, order[k].at < order[i].at, ~(k < i) PROVE FALSE
    OBVIOUS
  <2>1. order[k].at \in Nat /\ order[i].at \in Nat BY <1>1 DEF LotOK, TaxLot
  <2>2. k # i BY <2>1
  <2>3. n \in Nat BY DEF Ordering
  <2>4. i < k BY <2>2, <2>3
  <2>5. MayPrecede(order[i], order[k], method) BY <2>4 DEF Ordering
  <2>6. order[i].at <= order[k].at BY <2>5 DEF MayPrecede
  <2> QED BY <2>1, <2>6
<1>3. \/ l \in L /\ \A k \in 1 .. n : order[k].id = l.id => Take(order, qty, k) = 0
      \/ \E k \in 1 .. n : 0 < Take(order, qty, k) /\ l = SoldLot(order, qty, k)
  BY AfterSaleFx
<1>4. CASE l \in L /\ \A k \in 1 .. n : order[k].id = l.id => Take(order, qty, k) = 0
  <2> SUFFICES ASSUME l.remaining # 0 PROVE FALSE OBVIOUS
  <2>1. l.remaining > 0 BY <1>4 DEF LotsOK, LotOK, TaxLot
  <2>2. PICK k \in 1 .. n : l = order[k] BY <1>4, <2>1 DEF Ordering
  <2>3. k < i /\ Take(order, qty, k) = 0 BY <1>2, <1>4, <2>2
  <2>4. Take(order, qty, k) = order[k].remaining BY <2>3, EarlierEmptied
  <2> QED BY <2>1, <2>2, <2>3, <2>4
<1>5. CASE \E k \in 1 .. n : 0 < Take(order, qty, k) /\ l = SoldLot(order, qty, k)
  <2>1. PICK k \in 1 .. n : 0 < Take(order, qty, k) /\ l = SoldLot(order, qty, k) BY <1>5
  <2>2. l.at = order[k].at /\ l.remaining = order[k].remaining - Take(order, qty, k)
    BY <1>1, <2>1, SoldLotFx
  <2>3. k < i BY <1>2, <2>2
  <2>4. Take(order, qty, k) = order[k].remaining BY <2>3, EarlierEmptied
  <2>5. order[k].remaining \in Nat BY <1>1 DEF LotOK, TaxLot
  <2> QED BY <2>2, <2>4, <2>5
<1> QED BY <1>3, <1>4, <1>5

\* Only a sale writes dispositions.
LEMMA NewDisps ==
  ASSUME [Next]_vars, disps' # disps
  PROVE  \E c \in Clients : CommitSell(c)
BY DEF Next, vars, StartBuy, CommitBuy, StartSell, StartDelete, ReplayHistory, CommitDelete,
       StartUpdate, CommitUpdate, StartAdd, CommitCreate, LockHolding, CommitAdd, RollBack, StartRecording

\* A step that writes a disposition empties every older lot.
LEMMA OldestFirstStep ==
  ASSUME IInv, [Next]_vars, NEW d \in disps' \ disps, NEW taken \in lots, NEW l \in lots',
         taken.id = d.lot, l.at < taken.at
  PROVE  l.remaining = 0
<1>1. PICK c \in Clients : CommitSell(c) BY NewDisps
<1>2. Recording(c) BY <1>1 DEF CommitSell, At, Recording
<1>3. LotsOK(lots) /\ req[c].row \in Transaction BY <1>2, AtCommit DEF RowsOK
<1>4. PICK order \in SaleOrders(FindOpen(lots), Method) :
        /\ lots'  = AfterSale(lots, order, req[c].row.qty)
        /\ disps' = disps \cup Dispositions(order, req[c].row.qty, req[c].row.id, Method)
  BY <1>1 DEF CommitSell
<1> DEFINE n == Cardinality(FindOpen(lots))
           qty == req[c].row.qty
           sale == req[c].row.id
<1>5. Ordering(lots, order, n, Method) BY <1>3, OrderingOfSale
<1>6. qty \in Nat /\ sale \in TxIds BY <1>3 DEF Transaction
<1>7. d \in Dispositions(order, qty, sale, Method) /\ l \in AfterSale(lots, order, qty) BY <1>4
<1> HIDE DEF n, qty, sale
<1>8. Dispositions(order, qty, sale, Method) =
              {SoldRow(order, qty, sale, Method, i) : i \in Matched(order, qty)}
  BY DEF Dispositions, SoldRow
<1>9. PICK i \in Matched(order, qty) : d = SoldRow(order, qty, sale, Method, i) BY <1>7, <1>8
<1>q. qty \in Nat BY <1>6
<1>l. LotsOK(lots) BY <1>3
<1>m. Matched(order, qty) = {k \in 1 .. n : Take(order, qty, k) > 0}
  BY <1>5, <1>l, <1>q, Takes
<1>o. \A k \in 1 .. n : order[k] \in lots BY <1>5 DEF Ordering
<1>10. Matched(order, qty) = {k \in 1 .. n : Take(order, qty, k) > 0}
       /\ \A k \in 1 .. n : order[k] \in lots
  BY <1>m, <1>o
<1>11. i \in 1 .. n /\ Take(order, qty, i) > 0 BY <1>10
<1>12. d.lot = order[i].id BY <1>9 DEF SoldRow
<1>13. taken = order[i] BY <1>3, <1>10, <1>11, <1>12 DEF LotsOK
<1>14. l.at < order[i].at BY <1>13
<1>15. Method \in {"FIFO", "PMP"} BY MethodAssumption
<1> QED BY <1>3, <1>5, <1>6, <1>7, <1>11, <1>14, <1>15, SaleOldestFirst

\* A sale under FIFO or PMP draws on a lot only when it empties every older
\* one (sortLots).
THEOREM OldestFirst == Spec => OldestLotFirst
<1>1. IInv /\ [Next]_vars =>
        [\A d \in disps' \ disps : \A taken \in lots, l \in lots' :
           taken.id = d.lot /\ l.at < taken.at => l.remaining = 0]_vars
  BY OldestFirstStep
<1> QED BY <1>1, Inductive, PTL DEF Spec, OldestLotFirst

-----------------------------------------------------------------------------
(* Sales are matched whole. *)

\* What the lots yield together is the quantity sold or all they hold.
LEMMA PrefixTaken ==
  ASSUME NEW L, LotsOK(L), NEW method, NEW order, NEW n, Ordering(L, order, n, method),
         NEW qty \in Nat
  PROVE  SumOn([i \in 1 .. n |-> Take(order, qty, i)], Matched(order, qty)) =
           IF qty <= Before(order, n, n + 1) THEN qty ELSE Before(order, n, n + 1)
<1> DEFINE take == [i \in 1 .. n |-> Take(order, qty, i)]
           M == Matched(order, qty)
           B(i) == Before(order, n, i)
           G == {k \in Nat : k <= n =>
                   SumOn(take, M \cap (1 .. k)) = IF qty <= B(k + 1) THEN qty ELSE B(k + 1)}
<1>n. n \in Nat BY DEF Ordering
<1>r. \A k \in 1 .. n : order[k].remaining \in Nat BY Takes
<1>t. \A i \in 1 .. n : Take(order, qty, i) \in Nat BY Takes
<1>m. M = {i \in 1 .. n : Take(order, qty, i) > 0} BY Takes
<1>0. n \in Nat /\ (\A k \in 1 .. n : order[k].remaining \in Nat)
      /\ (\A i \in 1 .. n : Take(order, qty, i) \in Nat)
      /\ M = {i \in 1 .. n : Take(order, qty, i) > 0}
  BY <1>n, <1>r, <1>t, <1>m
<1>1. B(1) = 0 BY <1>0, BeforeFx
<1>2. \A k \in 1 .. n + 1 : B(k) \in Nat BY <1>0, BeforeFx
<1>3. \A k \in 1 .. n : B(k + 1) = B(k) + order[k].remaining BY <1>0, BeforeFx
<1>4. \A i \in 1 .. n : Take(order, qty, i) =
        IF qty <= B(i) THEN 0
        ELSE IF qty - B(i) <= order[i].remaining THEN qty - B(i) ELSE order[i].remaining
  BY <1>0, TakeIs
<1>5. \A i \in 1 .. n : take[i] = Take(order, qty, i) /\ take[i] \in Nat BY <1>0
<1> HIDE DEF take, M, B
<1>6. 0 \in G
  <2>1. M \cap (1 .. 0) = {} OBVIOUS
  <2>2. SumOn(take, M \cap (1 .. 0)) = 0 BY <2>1, SumOnEmpty
  <2>3. 0 + 1 = 1 OBVIOUS
  <2> QED BY <1>1, <2>2, <2>3
<1>7. ASSUME NEW k \in Nat, k \in G PROVE k + 1 \in G
  <2> SUFFICES ASSUME k + 1 <= n
               PROVE  SumOn(take, M \cap (1 .. (k + 1))) =
                        IF qty <= B((k + 1) + 1) THEN qty ELSE B((k + 1) + 1)
    OBVIOUS
  <2>0. SumOn(take, M \cap (1 .. k)) = IF qty <= B(k + 1) THEN qty ELSE B(k + 1)
    <3>1. k <= n BY <1>0
    <3> QED BY <1>7, <3>1
  <2> DEFINE j == k + 1
             s == M \cap (1 .. j)
             b == B(j)
             r == order[j].remaining
             y == Take(order, qty, j)
             sum == SumOn(take, M \cap (1 .. k))
  <2>1. j \in 1 .. n BY <1>0
  <2>2. b \in Nat /\ r \in Nat /\ y \in Nat /\ B(j + 1) = b + r BY <1>0, <1>2, <1>3, <2>1
  <2>3. y = IF qty <= b THEN 0 ELSE IF qty - b <= r THEN qty - b ELSE r BY <1>4, <2>1
  <2>4. sum = IF qty <= b THEN qty ELSE b BY <2>0
  <2>5. SumOn(take, s) = y + sum
    <3>1. IsFiniteSet(s)
      <4>1. IsFiniteSet(1 .. j) BY FS_Interval
      <4>2. s \subseteq 1 .. j OBVIOUS
      <4> QED BY <4>1, <4>2, FS_Subset
    <3>2. CASE j \in M
      <4>1. j \in s /\ s \ {j} = M \cap (1 .. k) BY <3>2
      <4>2. \A i \in s : take[i] \in Int BY <1>0, <1>5, <2>1
      <4> HIDE DEF s, j
      <4>3. SumOn(take, s) = take[j] + SumOn(take, s \ {j}) BY <3>1, <4>1, <4>2, SumRemove
      <4>4. take[j] = y BY <1>5, <2>1
      <4> QED BY <4>1, <4>3, <4>4
    <3>3. CASE j \notin M
      <4>1. s = M \cap (1 .. k) BY <3>3
      <4>2. ~(y > 0) BY <1>0, <2>1, <3>3
      <4>3. y = 0 BY <2>2, <4>2
      <4>4. sum \in Nat BY <2>2, <2>4
      <4>5. SumOn(take, s) = sum BY <4>1
      <4> HIDE DEF s, y, sum
      <4> QED BY <4>3, <4>4, <4>5
    <3> QED BY <3>2, <3>3
  <2> HIDE DEF b, r, y, sum, j
  <2>6. y + sum = IF qty <= b + r THEN qty ELSE b + r BY <2>2, <2>3, <2>4
  <2>7. SumOn(take, s) = IF qty <= B(j + 1) THEN qty ELSE B(j + 1) BY <2>2, <2>5, <2>6
  <2> QED BY <2>7 DEF j
<1> HIDE DEF G
<1>8. \A k \in Nat : k \in G BY <1>6, <1>7, SetInduction
<1>9. SumOn(take, M \cap (1 .. n)) = IF qty <= B(n + 1) THEN qty ELSE B(n + 1) BY <1>0, <1>8 DEF G
<1>10. M \cap (1 .. n) = M BY <1>0
<1> QED BY <1>9, <1>10 DEF take, M, B

\* The dispositions of a sale sum to what the lots yield.
LEMMA DispositionSum ==
  ASSUME NEW L, LotsOK(L), NEW method, NEW order, NEW n, Ordering(L, order, n, method),
         NEW qty \in Nat, NEW sale \in TxIds
  PROVE  SumOn(DispQty, Dispositions(order, qty, sale, method)) =
           SumOn([i \in 1 .. n |-> Take(order, qty, i)], Matched(order, qty))
<1> DEFINE take == [i \in 1 .. n |-> Take(order, qty, i)]
           M == Matched(order, qty)
           row == [i \in M |-> SoldRow(order, qty, sale, method, i)]
           N == Dispositions(order, qty, sale, method)
<1>1. N = {SoldRow(order, qty, sale, method, i) : i \in M} BY DEF Dispositions, SoldRow
<1>2. \A i \in M : /\ i \in 1 .. n
                   /\ SoldRow(order, qty, sale, method, i) \in Disposition
                   /\ SoldRow(order, qty, sale, method, i).lot = order[i].id
                   /\ SoldRow(order, qty, sale, method, i).qty = Take(order, qty, i)
  BY DispositionsFx
<1>3. \A i \in M : take[i] \in Int /\ take[i] = Take(order, qty, i)
  <2>1. \A i \in 1 .. n : Take(order, qty, i) \in Nat BY Takes
  <2> QED BY <1>2, <2>1
<1>4. IsFiniteSet(M)
  <2>1. n \in Nat BY DEF Ordering
  <2>2. IsFiniteSet(1 .. n) BY <2>1, FS_Interval
  <2>3. M \subseteq 1 .. n BY <1>2
  <2> QED BY <2>2, <2>3, FS_Subset
<1>5. \A i, j \in M : row[i] = row[j] => i = j
  <2> SUFFICES ASSUME NEW i \in M, NEW j \in M, row[i] = row[j] PROVE i = j
    OBVIOUS
  <2>1. order[i].id = order[j].id /\ i \in 1 .. n /\ j \in 1 .. n BY <1>2
  <2>2. \A k \in 1 .. n : order[k] \in L BY Takes
  <2>3. order[i] = order[j] BY <2>1, <2>2 DEF LotsOK
  <2> QED BY <2>1, <2>3 DEF Ordering
<1>6. \A i \in M : DispQty[row[i]] = take[i]
  <2> SUFFICES ASSUME NEW i \in M PROVE DispQty[row[i]] = take[i] OBVIOUS
  <2>1. row[i] = SoldRow(order, qty, sale, method, i) OBVIOUS
  <2>2. row[i] \in Disposition /\ row[i].qty = Take(order, qty, i) BY <1>2, <2>1
  <2>3. take[i] = Take(order, qty, i) BY <1>3
  <2> HIDE DEF row, take
  <2> QED BY <2>2, <2>3 DEF DispQty
<1>7. N = {row[i] : i \in M} BY <1>1
<1> HIDE DEF take, M, row, N
<1>8. SumOn(DispQty, {row[i] : i \in M}) = SumOn(take, M)
  BY <1>3, <1>4, <1>5, <1>6, SumImage
<1> QED BY <1>7, <1>8 DEF take, M, N

\* What the lots of an order hold is what is available.
LEMMA OpenSum ==
  ASSUME NEW L, LotsOK(L), NEW method, NEW order,
         NEW n, Lists(order, FindOpen(L), n, method)
  PROVE  Before(order, n, n + 1) = Available(FindOpen(L))
<1> DEFINE open == FindOpen(L)
           held == Held(order, n)
<1>1. /\ n \in Nat /\ order \in [1 .. n -> open]
      /\ \A i, j \in 1 .. n : order[i] = order[j] => i = j
      /\ \A l \in open : \E i \in 1 .. n : l = order[i]
  BY DEF Lists
<1>2. open \subseteq TaxLot BY DEF FindOpen, LotsOK, LotOK
<1>3. open = {order[i] : i \in 1 .. n} BY <1>1
<1>4. \A i \in 1 .. n : held[i] \in Int /\ Remaining[order[i]] = held[i]
  <2> SUFFICES ASSUME NEW i \in 1 .. n PROVE held[i] \in Int /\ Remaining[order[i]] = held[i]
    OBVIOUS
  <2>1. order[i] \in TaxLot BY <1>1, <1>2
  <2> QED BY <2>1 DEF Remaining, Held, TaxLot
<1>5. IsFiniteSet(1 .. n) BY <1>1, FS_Interval
<1> HIDE DEF open, held
<1>6. SumOn(Remaining, {order[i] : i \in 1 .. n}) = SumOn(held, 1 .. n)
  BY <1>1, <1>4, <1>5, SumImage
<1>7. Available(open) = SumOn(Remaining, open) BY <1>2, SumsAre
<1>8. (n + 1) - 1 = n BY <1>1
<1>9. Before(order, n, n + 1) = SumOn(held, 1 .. n) BY <1>8 DEF Before, held
<1> QED BY <1>3, <1>6, <1>7, <1>9 DEF open

\* A sale order lists the open lots.
LEMMA OrderListsOpen ==
  ASSUME NEW L, LotsOK(L), NEW method, NEW order \in SaleOrders(FindOpen(L), method)
  PROVE  Lists(order, FindOpen(L), Cardinality(FindOpen(L)), method)
<1> DEFINE open == FindOpen(L)
<1>1. IsFiniteSet(open) /\ order \in SaleOrders(open, method) BY OpenLots
<1> HIDE DEF open
<1>2. Lists(order, open, Cardinality(open), method) BY <1>1, OrderLists
<1> QED BY <1>2 DEF open

\* A sale recorded for the first time was recorded by CommitSell.
LEMMA NewSale ==
  ASSUME IInv, [Next]_vars, NEW t \in txs' \ txs, t.type = "SELL", t.id \notin Ids(txs)
  PROVE  \E c \in Clients : CommitSell(c) /\ t = req[c].row
<1>1. PICK c \in Clients : \/ CommitBuy(c) \/ CommitSell(c) \/ CommitDelete(c) \/ CommitUpdate(c)
                           \/ CommitCreate(c) \/ CommitAdd(c)
  BY DEF Next, vars, StartBuy, StartSell, StartDelete, ReplayHistory,
         StartUpdate, StartAdd, LockHolding, RollBack, StartRecording
<1>2. CASE CommitSell(c) BY <1>2 DEF CommitSell
<1>3. CASE CommitDelete(c) BY <1>3 DEF CommitDelete
<1>4. CASE CommitUpdate(c)
  <2>1. t = req[c].row /\ req[c].pc = "update" BY <1>4 DEF CommitUpdate, At
  <2>2. req[c].row.id \in Ids(txs) BY <1>4, <2>1 DEF CommitUpdate, CanCommit, Ids
  <2> QED BY <2>1, <2>2
<1>5. CASE CommitBuy(c) \/ CommitCreate(c) \/ CommitAdd(c)
  <2>1. t = req[c].row /\ req[c].pc \in {"buy", "create", "add"}
    BY <1>5 DEF CommitBuy, CommitCreate, CommitAdd, At
  <2>2. Recording(c) /\ req[c].pc # "sell" BY <2>1 DEF Recording
  <2>3. CallsOK BY DEF IInv
  <2>4. req[c].row.type = "BUY" BY <2>2, <2>3 DEF CallsOK
  <2> QED BY <2>1, <2>4
<1> QED BY <1>1, <1>2, <1>3, <1>4, <1>5

\* The step that records a sale writes dispositions for its whole quantity,
\* or none if no lot is open.
LEMMA MatchedWholeStep ==
  ASSUME IInv, [Next]_vars, NEW t \in txs' \ txs, t.type = "SELL", t.id \notin Ids(txs)
  PROVE  SumOver({d \in disps' : d.sale = t.id}, LAMBDA d : d.qty)
            = (IF FindOpen(lots) = {} THEN 0 ELSE t.qty)
<1>1. PICK c \in Clients : CommitSell(c) /\ t = req[c].row BY NewSale
<1>2. Recording(c) /\ req[c].pc = "sell" /\ CanCommit(req[c]) BY <1>1 DEF CommitSell, At, Recording
<1>3. LotsOK(lots) /\ t \in Transaction /\ t.id \notin Sales(disps) /\ RowsOK(txs, lots, disps)
  BY <1>1, <1>2, AtCommit DEF RowsOK
<1>4. FindOpen(lots) # {} => Available(FindOpen(lots)) >= t.qty BY <1>1, <1>2 DEF CanCommit
<1>5. PICK order \in SaleOrders(FindOpen(lots), Method) :
        disps' = disps \cup Dispositions(order, t.qty, t.id, Method)
  BY <1>1 DEF CommitSell
<1> DEFINE open == FindOpen(lots)
           n == Cardinality(open)
           N == Dispositions(order, t.qty, t.id, Method)
           all == Available(open)
<1>6. Ordering(lots, order, n, Method) /\ Lists(order, open, n, Method)
  BY <1>3, OrderingOfSale, OrderListsOpen
<1>7. t.qty \in Nat /\ t.id \in TxIds BY <1>3 DEF Transaction
<1>8. Before(order, n, n + 1) = all
  <2> HIDE DEF n
  <2> QED BY <1>3, <1>6, OpenSum
<1>9. /\ N \subseteq Disposition
      /\ \A d \in N : d.sale = t.id
  <2> HIDE DEF n
  <2>1. N = {SoldRow(order, t.qty, t.id, Method, i) : i \in Matched(order, t.qty)}
    BY DEF Dispositions, SoldRow
  <2>2. \A i \in Matched(order, t.qty) :
              /\ SoldRow(order, t.qty, t.id, Method, i) \in Disposition
              /\ SoldRow(order, t.qty, t.id, Method, i).sale = t.id
    BY <1>3, <1>6, <1>7, DispositionsFx
  <2> QED BY <2>1, <2>2
<1>10. {d \in disps' : d.sale = t.id} = N
  <2>1. disps' = disps \cup N BY <1>5
  <2> HIDE DEF N
  <2> QED BY <1>3, <1>9, <2>1 DEF Sales
<1>11. SumOver({d \in disps' : d.sale = t.id}, LAMBDA d : d.qty) = SumOn(DispQty, N)
  <2>1. {d \in disps' : d.sale = t.id} \in SUBSET Disposition BY <1>9, <1>10
  <2> QED BY <1>10, <2>1, SumsAre
<1>12. SumOn(DispQty, N) = IF t.qty <= all THEN t.qty ELSE all
  <2> DEFINE qty == t.qty
             sale == t.id
  <2>1. qty \in Nat /\ sale \in TxIds BY <1>7
  <2> HIDE DEF qty, sale, n, all
  <2>2. SumOn(DispQty, Dispositions(order, qty, sale, Method)) =
           SumOn([i \in 1 .. n |-> Take(order, qty, i)], Matched(order, qty))
    BY <1>3, <1>6, <2>1, DispositionSum
  <2>3. SumOn([i \in 1 .. n |-> Take(order, qty, i)], Matched(order, qty)) =
           IF qty <= Before(order, n, n + 1) THEN qty ELSE Before(order, n, n + 1)
    BY <1>3, <1>6, <2>1, PrefixTaken
  <2> QED BY <1>8, <2>2, <2>3 DEF qty, sale
<1>13. open = {} => all = 0
  <2>1. {} \in SUBSET TaxLot OBVIOUS
  <2>2. Available({}) = SumOn(Remaining, {}) BY <2>1, SumsAre
  <2> QED BY <2>2, SumOnEmpty
<1> HIDE DEF open, all, N
<1>14. ~(t.qty <= 0) BY <1>3 DEF Transaction
<1>15. CASE open = {} BY <1>11, <1>12, <1>13, <1>14, <1>15 DEF open
<1>16. CASE open # {}
  <2>1. all >= t.qty BY <1>4, <1>16 DEF open, all
  <2>2. all \in Int
    <3>1. open \subseteq TaxLot /\ IsFiniteSet(open)
      BY <1>3, OpenLots DEF open, FindOpen, LotsOK, LotOK
    <3>2. \A l \in open : Remaining[l] \in Nat BY <3>1 DEF Remaining, TaxLot
    <3>3. SumOn(Remaining, open) \in Nat BY <3>1, <3>2, SumOnNat
    <3>4. open \in SUBSET TaxLot BY <3>1
    <3>5. Available(open) = SumOn(Remaining, open) BY <3>4, SumsAre
    <3>6. Available(open) \in Nat BY <3>3, <3>5
    <3> QED BY <3>6 DEF all
  <2>3. t.qty <= all BY <1>7, <2>1, <2>2
  <2> QED BY <1>11, <1>12, <1>16, <2>3 DEF open
<1> QED BY <1>15, <1>16

\* A committed sale is matched to lots for its whole quantity, or not at all
\* when no lot was open (AllocateTaxLots).
THEOREM MatchedWhole == Spec => SaleMatchedWhole
<1>1. IInv /\ [Next]_vars =>
        [\A t \in txs' \ txs :
           t.type = "SELL" /\ t.id \notin Ids(txs) =>
             SumOver({d \in disps' : d.sale = t.id}, LAMBDA d : d.qty)
                = (IF FindOpen(lots) = {} THEN 0 ELSE t.qty)]_vars
  BY MatchedWholeStep
<1> QED BY <1>1, Inductive, PTL DEF Spec, SaleMatchedWhole

-----------------------------------------------------------------------------
(* Under FIFO a sale charges what its lots cost, rounded match by match. *)

\* The costs that dispositions report.
DispCost == [d \in Disposition |-> d.cost]

\* The model's sum of costs.
LEMMA ChargedIs == \A S \in SUBSET Disposition : SumOver(S, LAMBDA d : d.cost) = SumOn(DispCost, S)
<1> SUFFICES ASSUME NEW S \in SUBSET Disposition PROVE SumOver(S, LAMBDA d : d.cost) = SumOn(DispCost, S)
  OBVIOUS
<1>1. [x \in S |-> x.cost] = [x \in S |-> DispCost[x]] BY DEF DispCost
<1> QED BY <1>1 DEF SumOver, SumOn

\* A disposition charges its units at its lot's own cost, rounded to cents.
Priced(L, D) == \A d \in D, l \in L : d.lot = l.id => d.cost = RoundDiv(d.qty * l.unit, Cent)

\* A rounded quotient is off by half at most.
LEMMA HalfOff ==
  \A n \in Nat, d \in Nat \ {0} : (2 * d) * RoundDiv(n, d) - 2 * n \in -d .. d
<1> SUFFICES ASSUME NEW n \in Nat, NEW d \in Nat \ {0}
             PROVE  (2 * d) * RoundDiv(n, d) - 2 * n \in -d .. d
  OBVIOUS
<1> DEFINE a == 2 * n + d
           b == 2 * d
           x == b * (a \div b)
<1>1. a \in Nat /\ b \in Nat \ {0} OBVIOUS
<1>2. RoundDiv(n, d) = a \div b BY DEF RoundDiv
<1> HIDE DEF a, b
<1>3. x <= a /\ a < x + b BY <1>1, DivBounds
<1>4. x \in Int
  <2>1. a \div b \in Nat BY <1>1, DivNat
  <2> QED BY <1>1, <2>1
<1> HIDE DEF x
<1>5. x - 2 * n \in -d .. d BY <1>3, <1>4 DEF a, b
<1> QED BY <1>2, <1>5 DEF b, x

\* Costs rounded one by one are, summed, half a cent off at most for each.
LEMMA RoundedSum ==
  ASSUME NEW S, IsFiniteSet(S), NEW f, NEW g,
         \A x \in S : g[x] \in Nat /\ f[x] = RoundDiv(g[x], Cent)
  PROVE  /\ SumOn(f, S) \in Nat /\ SumOn(g, S) \in Nat /\ Cardinality(S) * Cent \in Nat
         /\ 2 * (SumOn(f, S) * Cent - SumOn(g, S)) \in -(Cardinality(S) * Cent) .. Cardinality(S) * Cent
<1> DEFINE f2 == [x \in S |-> (2 * Cent) * f[x]]
           g2 == [x \in S |-> 2 * g[x]]
           a == SumOn(f, S)
           b == SumOn(g, S)
           m == Cardinality(S) * Cent
<1>1. Cent \in Nat \ {0} BY CentPositive
<1>2. \A x \in S : f[x] \in Nat /\ g[x] \in Nat BY <1>1, RoundDivNat
<1>3. \A x \in S : (2 * Cent) * f[x] - 2 * g[x] \in -Cent .. Cent BY <1>1, HalfOff
<1>4. \A x \in S : f2[x] = (2 * Cent) * f[x] /\ g2[x] = 2 * g[x] OBVIOUS
<1>5. \A x \in S : f2[x] \in Int /\ g2[x] \in Int
  <2>1. 2 * Cent \in Nat BY <1>1
  <2> QED BY <1>2, <1>4, <2>1, TimesNat
<1> HIDE DEF f2, g2
<1>6. \A x \in S : f2[x] - g2[x] \in -Cent .. Cent BY <1>3, <1>4
<1>7. m \in Nat /\ SumOn(f2, S) - SumOn(g2, S) \in -m .. m BY <1>1, <1>5, <1>6, SumWithin
<1>8. SumOn(f2, S) = (2 * Cent) * a
  <2>1. 2 * Cent \in Int /\ \A x \in S : f[x] \in Int BY <1>1, <1>2
  <2> QED BY <1>4, <2>1, SumScale
<1>9. SumOn(g2, S) = 2 * b
  <2>1. \A x \in S : g[x] \in Int BY <1>2
  <2> QED BY <1>4, <2>1, SumScale
<1>10. a \in Nat /\ b \in Nat BY <1>2, SumOnNat
<1> HIDE DEF a, b, m
<1>11. 2 * (a * Cent - b) = (2 * Cent) * a - 2 * b BY <1>1, <1>10
<1> QED BY <1>7, <1>8, <1>9, <1>10, <1>11 DEF a, b, m

\* A FIFO sale prices its dispositions so, and changes no lot's unit cost.
LEMMA SalePrices ==
  ASSUME Method = "FIFO", NEW T, NEW L, NEW D, RowsOK(T, L, D), Priced(L, D),
         NEW order, NEW n, Ordering(L, order, n, Method), NEW qty \in Nat, NEW sale \in TxIds
  PROVE  Priced(AfterSale(L, order, qty), D \cup Dispositions(order, qty, sale, Method))
<1> DEFINE N == Dispositions(order, qty, sale, Method)
           A == AfterSale(L, order, qty)
<1>0. LotsOK(L) BY DEF RowsOK
<1>1. /\ \A i \in 1 .. n : order[i] \in L /\ LotOK(order[i]) /\ Take(order, qty, i) \in Nat
                           /\ Take(order, qty, i) <= order[i].remaining
      /\ Matched(order, qty) = {i \in 1 .. n : Take(order, qty, i) > 0}
  BY <1>0, Takes
<1>2. \A m \in A : m \in L \/ \E i \in 1 .. n : 0 < Take(order, qty, i) /\ m = SoldLot(order, qty, i)
  BY <1>0, AfterSaleFx
<1>3. \A m \in A : \E l \in L : l.id = m.id /\ l.unit = m.unit
  <2> SUFFICES ASSUME NEW i \in 1 .. n, 0 < Take(order, qty, i)
               PROVE  \E l \in L : l.id = SoldLot(order, qty, i).id /\ l.unit = SoldLot(order, qty, i).unit
    BY <1>2
  <2>1. SoldLot(order, qty, i).id = order[i].id /\ SoldLot(order, qty, i).unit = order[i].unit
    BY <1>1, SoldLotFx
  <2> QED BY <1>1, <2>1
<1>4. \A d \in N : \E i \in 1 .. n : d = SoldRow(order, qty, sale, Method, i)
  BY <1>1 DEF Dispositions, SoldRow
<1> SUFFICES ASSUME NEW d \in D \cup N, NEW m \in A, d.lot = m.id
             PROVE  d.cost = RoundDiv(d.qty * m.unit, Cent)
  BY DEF Priced
<1>5. PICK l \in L : l.id = m.id /\ l.unit = m.unit BY <1>3
<1>6. CASE d \in D BY <1>5, <1>6 DEF Priced
<1>7. CASE d \in N
  <2>1. PICK i \in 1 .. n : d = SoldRow(order, qty, sale, Method, i) BY <1>4, <1>7
  <2>2. order[i] \in L BY <1>1
  <2>3. d.lot = order[i].id /\ d.qty = Take(order, qty, i)
        /\ d.cost = RoundDiv(Take(order, qty, i) * order[i].unit, Cent)
    BY <2>1 DEF SoldRow, MatchCost
  <2>4. order[i] = l BY <1>0, <1>5, <2>2, <2>3 DEF LotsOK
  <2> QED BY <1>5, <2>3, <2>4
<1> QED BY <1>6, <1>7

\* The lots change by a purchase, by a sale, or not at all.
LEMMA LotsStep ==
  ASSUME [Next]_vars
  PROVE  \/ UNCHANGED <<lots, disps>>
         \/ \E c \in Clients : /\ Recording(c) /\ lots' = lots \cup {LotOf(req[c].row)} /\ disps' = disps
         \/ \E c \in Clients : CommitSell(c)
BY DEF Next, vars, StartBuy, CommitBuy, StartSell, StartDelete, ReplayHistory, CommitDelete,
       StartUpdate, CommitUpdate, StartAdd, CommitCreate, LockHolding, CommitAdd, RollBack, StartRecording,
       Recording, At

\* So every step prices dispositions so under FIFO.
LEMMA PricedStep ==
  ASSUME Method = "FIFO", IInv, Priced(lots, disps), [Next]_vars
  PROVE  Priced(lots', disps')
<1>1. RowsOK(txs, lots, disps) BY Whole
<1>2. CASE UNCHANGED <<lots, disps>> BY <1>2
<1>3. ASSUME NEW c \in Clients, Recording(c), lots' = lots \cup {LotOf(req[c].row)}, disps' = disps
      PROVE  Priced(lots', disps')
  <2>1. req[c].row.id \notin Ids(lots) BY <1>3, AtCommit
  <2>2. \A d \in disps : d.lot # LotOf(req[c].row).id
    <3>1. {d.lot : d \in disps} \subseteq Ids(lots) BY <1>1 DEF RowsOK
    <3>2. LotOf(req[c].row).id = req[c].row.id BY DEF LotOf
    <3> QED BY <2>1, <3>1, <3>2
  <2> QED BY <1>3, <2>2 DEF Priced
<1>4. ASSUME NEW c \in Clients, CommitSell(c) PROVE Priced(lots', disps')
  <2>1. Recording(c) BY <1>4 DEF CommitSell, At, Recording
  <2>2. LotsOK(lots) /\ req[c].row \in Transaction BY <2>1, AtCommit DEF RowsOK
  <2>3. PICK order \in SaleOrders(FindOpen(lots), Method) :
        /\ lots'  = AfterSale(lots, order, req[c].row.qty)
        /\ disps' = disps \cup Dispositions(order, req[c].row.qty, req[c].row.id, Method)
    BY <1>4 DEF CommitSell
  <2> DEFINE n == Cardinality(FindOpen(lots))
             qty == req[c].row.qty
             sale == req[c].row.id
  <2>4. Ordering(lots, order, n, Method) BY <2>2, OrderingOfSale
  <2>5. qty \in Nat /\ sale \in TxIds BY <2>2 DEF Transaction
  <2> HIDE DEF n, qty, sale
  <2>6. Priced(AfterSale(lots, order, qty), disps \cup Dispositions(order, qty, sale, Method))
    BY <1>1, <2>4, <2>5, SalePrices
  <2> QED BY <2>3, <2>6 DEF qty, sale
<1> QED BY <1>2, <1>3, <1>4, LotsStep

\* Every lot's charge is then near what its sold units cost.
LEMMA NearCost ==
  ASSUME RowsOK(txs, lots, disps), Priced(lots, disps) PROVE LotCostWithinRounding
<1> SUFFICES ASSUME NEW l \in lots
             PROVE  2 * (SumOver(DispsOf(l), LAMBDA d : d.cost) * Cent - (l.initial - l.remaining) * l.unit)
                      \in -(Cardinality(DispsOf(l)) * Cent) .. Cardinality(DispsOf(l)) * Cent
  BY DEF LotCostWithinRounding
<1> DEFINE S == DispsOf(l)
           g == [d \in S |-> d.qty * l.unit]
           charged == SumOver(DispsOf(l), LAMBDA d : d.cost)
           sold == l.initial - l.remaining
<1>1. S = SoldFrom(l, disps) BY DEF DispsOf, SoldFrom
<1>2. S \in SUBSET Disposition /\ IsFiniteSet(S)
  <2>1. S \subseteq disps BY DEF DispsOf
  <2> QED BY <2>1, FS_Subset DEF RowsOK
<1>3. l.unit \in Nat /\ l.initial \in Nat /\ l.remaining \in Nat BY DEF RowsOK, LotsOK, LotOK, TaxLot
<1>4. \A d \in S : d.qty \in Nat /\ d.cost = RoundDiv(d.qty * l.unit, Cent)
  <2>1. \A d \in S : d \in disps /\ d.lot = l.id BY DEF DispsOf
  <2> QED BY <1>2, <2>1 DEF Priced, Disposition
<1>5. charged = SumOn(DispCost, S) BY <1>2, ChargedIs
<1> HIDE DEF S, charged
<1>6. \A d \in S : g[d] \in Nat /\ DispCost[d] = RoundDiv(g[d], Cent)
  <2>1. \A d \in S : d.qty * l.unit \in Nat BY <1>3, <1>4, TimesNat
  <2> QED BY <1>2, <1>4, <2>1 DEF DispCost
<1>7. SumOn(g, S) = sold * l.unit
  <2> DEFINE q == SumOn(DispQty, S)
             u == l.unit
  <2>1. \A d \in S : DispQty[d] \in Int /\ g[d] = u * DispQty[d] BY <1>2, <1>3, <1>4 DEF DispQty
  <2> HIDE DEF g, u
  <2>2. u \in Int BY <1>3 DEF u
  <2>3. SumOn(g, S) = u * q BY <1>2, <2>1, <2>2, SumScale
  <2>4. q \in Int BY <1>2, <2>1, SumOnInt
  <2>5. l.initial = l.remaining + q BY <1>1 DEF RowsOK, Conserved
  <2> HIDE DEF q
  <2>6. sold = q BY <1>3, <2>4, <2>5
  <2> QED BY <2>2, <2>3, <2>4, <2>6 DEF u
<1> HIDE DEF g, sold
<1>8. 2 * (SumOn(DispCost, S) * Cent - SumOn(g, S)) \in -(Cardinality(S) * Cent) .. Cardinality(S) * Cent
  BY <1>2, <1>6, RoundedSum
<1>9. 2 * (charged * Cent - sold * l.unit) \in -(Cardinality(S) * Cent) .. Cardinality(S) * Cent
  BY <1>5, <1>7, <1>8
<1> QED BY <1>9 DEF charged, sold, S

\* Every disposition of a FIFO history charges its units at its lot's own
\* cost, rounded on its own.
LEMMA AlwaysPriced ==
  ASSUME Method = "FIFO" PROVE Spec => [](IInv /\ Priced(lots, disps))
<1>1. Init => Priced(lots, disps) BY DEF Init, Priced
<1>2. IInv /\ Priced(lots, disps) /\ [Next]_vars => Priced(lots, disps)'
  <2>1. Priced(lots, disps)' <=> Priced(lots', disps') BY DEF Priced
  <2> QED BY <2>1, PricedStep
<1> QED BY <1>1, <1>2, Inductive, PTL DEF Spec

\* Under FIFO the sales of a lot charge what its sold units cost, to within
\* half a cent for each sale (MatchCost, NewDispositionsFromAllocation).
THEOREM CostConserved ==
  ASSUME Method = "FIFO" PROVE Spec => []LotCostWithinRounding
<1>1. IInv /\ Priced(lots, disps) => LotCostWithinRounding
  <2>1. IInv => RowsOK(txs, lots, disps) BY Whole
  <2> QED BY <2>1, NearCost
<1> QED BY <1>1, AlwaysPriced, PTL

-----------------------------------------------------------------------------
(* One caller: the position and its transactions agree. *)

\* The quantity of a transaction.
TxQty == [t \in Transaction |-> t.qty]

\* What purchases add up to less what sales add up to, as one signed sum.
LEMMA BoughtLessSold ==
  ASSUME NEW T \in SUBSET Transaction, IsFiniteSet(T), NEW f, NEW signed,
         \A t \in T : /\ f[t] \in Nat
                      /\ signed[t] = IF t.type = "SELL" THEN -f[t] ELSE f[t]
  PROVE  SumOn(f, {t \in T : t.type = "BUY"}) - SumOn(f, {t \in T : t.type = "SELL"}) = SumOn(signed, T)
<1> DEFINE Only(s, type) == {t \in s : t.type = type}
           G == {s \in SUBSET T :
                   SumOn(f, Only(s, "BUY")) - SumOn(f, Only(s, "SELL")) = SumOn(signed, s)}
<1>0. \A t \in T : f[t] \in Nat /\ t.type \in {"BUY", "SELL"} /\ signed[t] \in Int
  BY DEF Transaction
<1>1. ASSUME NEW s \in SUBSET T, \A x \in s : s \ {x} \in G PROVE s \in G
  <2>1. CASE s = {}
    <3>1. Only(s, "BUY") = {} /\ Only(s, "SELL") = {} BY <2>1
    <3>2. SumOn(f, Only(s, "BUY")) = 0 /\ SumOn(f, Only(s, "SELL")) = 0 /\ SumOn(signed, s) = 0
      BY <2>1, <3>1, SumOnEmpty
    <3> QED BY <3>2
  <2>2. CASE s # {}
    <3>1. PICK x \in s : TRUE BY <2>2
    <3> DEFINE r == s \ {x}
               B == Only(s, "BUY")
               S == Only(s, "SELL")
               b == SumOn(f, Only(r, "BUY"))
               d == SumOn(f, Only(r, "SELL"))
               q == f[x]
    <3>2. IsFiniteSet(s) /\ IsFiniteSet(r) /\ IsFiniteSet(B) /\ IsFiniteSet(S)
          /\ IsFiniteSet(Only(r, "BUY")) /\ IsFiniteSet(Only(r, "SELL"))
      BY FS_Subset
    <3>3. /\ \A t \in s : signed[t] \in Int
          /\ \A t \in B : f[t] \in Int
          /\ \A t \in S : f[t] \in Int
          /\ \A t \in Only(r, "BUY") : f[t] \in Int
          /\ \A t \in Only(r, "SELL") : f[t] \in Int
      BY <1>0
    <3>4. SumOn(signed, s) = signed[x] + SumOn(signed, r)
      <4> HIDE DEF G, Only
      <4> QED BY <3>2, <3>3, SumRemove
    <3>5. b - d = SumOn(signed, r) BY <1>1
    <3>6. b \in Int /\ d \in Int
      <4> HIDE DEF Only, r
      <4> QED BY <3>2, <3>3, SumOnInt
    <3>7. q \in Nat /\ x \in T BY <1>0
    <3>8. CASE x.type = "BUY"
      <4>1. x \in B /\ B \ {x} = Only(r, "BUY") /\ S = Only(r, "SELL") BY <3>8
      <4> HIDE DEF B, S, Only, r
      <4>2. SumOn(f, B) = f[x] + SumOn(f, B \ {x}) BY <3>2, <3>3, <4>1, SumRemove
      <4>3. signed[x] = q BY <3>7, <3>8
      <4>4. SumOn(f, B) = q + b /\ SumOn(f, S) = d BY <4>1, <4>2
      <4> HIDE DEF b, d, q
      <4>5. SumOn(f, B) - SumOn(f, S) = SumOn(signed, s) BY <3>4, <3>5, <3>6, <3>7, <4>3, <4>4
      <4> QED BY <4>5 DEF B, S
    <3>9. CASE x.type = "SELL"
      <4>1. x \in S /\ S \ {x} = Only(r, "SELL") /\ B = Only(r, "BUY") BY <3>9
      <4> HIDE DEF B, S, Only, r
      <4>2. SumOn(f, S) = f[x] + SumOn(f, S \ {x}) BY <3>2, <3>3, <4>1, SumRemove
      <4>3. signed[x] = -q BY <3>7, <3>9
      <4>4. SumOn(f, S) = q + d /\ SumOn(f, B) = b BY <4>1, <4>2
      <4> HIDE DEF b, d, q
      <4>5. SumOn(f, B) - SumOn(f, S) = SumOn(signed, s) BY <3>4, <3>5, <3>6, <3>7, <4>3, <4>4
      <4> QED BY <4>5 DEF B, S
    <3> QED BY <1>0, <3>7, <3>8, <3>9
  <2> QED BY <2>1, <2>2
<1> HIDE DEF G
<1>2. \A s \in SUBSET T : s \in G
  BY <1>1, SubsetInduction
<1> QED BY <1>2 DEF G

\* Units bought less units sold.
LEMMA UnitsAre ==
  ASSUME NEW T \in SUBSET Transaction, IsFiniteSet(T)
  PROVE  Units(T, "BUY") - Units(T, "SELL") = SumOn(Signed, T)
<1>1. ASSUME NEW t \in T
      PROVE  TxQty[t] \in Nat /\ Signed[t] = IF t.type = "SELL" THEN -TxQty[t] ELSE TxQty[t]
  BY DEF TxQty, Transaction, Signed
<1>2. SumOn(TxQty, {t \in T : t.type = "BUY"}) - SumOn(TxQty, {t \in T : t.type = "SELL"})
        = SumOn(Signed, T)
  BY <1>1, BoughtLessSold
<1>3. ASSUME NEW type PROVE Units(T, type) = SumOn(TxQty, {t \in T : t.type = type})
  <2>1. [x \in {t \in T : t.type = type} |-> x.qty] = [x \in {t \in T : t.type = type} |-> TxQty[x]]
    BY DEF TxQty
  <2> QED BY <2>1 DEF Units, SumOver, SumOn
<1> QED BY <1>2, <1>3

\* A new transaction adds its units to the sum.
LEMMA SignedAdd ==
  ASSUME NEW T \in SUBSET Transaction, IsFiniteSet(T), NEW t \in Transaction, t \notin T
  PROVE  SumOn(Signed, T) \in Int /\ SumOn(Signed, T \cup {t}) = SumOn(Signed, T) + Signed[t]
<1>1. Signed[t] \in Int /\ \A x \in T : Signed[x] \in Int BY SignedInt
<1> QED BY <1>1, SumAdd

\* A replay that succeeds holds what the transactions add up to.
LEMMA ReplayUnits ==
  ASSUME NEW T \in SUBSET Transaction, IsFiniteSet(T), NEW history \in NewestFirst(T),
         NEW p \in Position, Replay(p, history).ok
  PROVE  Replay(p, history).pos.qty = SumOn(Signed, T)
<1> DEFINE n == Cardinality(T)
           s == [i \in 1 .. n |-> Signed[history[i]]]
<1>1. n \in Nat /\ history \in [1 .. n -> T] /\ \A i, j \in 1 .. n : history[i] = history[j] => i = j
  BY HistoryIs
<1>2. T = {history[i] : i \in 1 .. n} BY <1>1, InjectionOnto
<1>3. \A i \in 1 .. n : s[i] \in Int /\ Signed[history[i]] = s[i]
  <2>1. \A i \in 1 .. n : history[i] \in Transaction BY <1>1
  <2> QED BY <2>1, SignedInt
<1>4. IsFiniteSet(1 .. n) BY <1>1, FS_Interval
<1>5. history \in [1 .. n -> Transaction] BY <1>1
<1>6. Replay(p, history).pos.qty = SumOn(s, 1 .. n)
  <2> HIDE DEF n
  <2> QED BY <1>1, <1>5, ReplayFx
<1>7. \A i, j \in 1 .. n : history[i] = history[j] => i = j BY <1>1
<1> DEFINE S == 1 .. n
<1>8. IsFiniteSet(S) /\ (\A i, j \in S : history[i] = history[j] => i = j)
      /\ (\A i \in S : s[i] \in Int /\ Signed[history[i]] = s[i])
  BY <1>3, <1>4, <1>7
<1>9. SumOn(Signed, {history[i] : i \in S}) = SumOn(s, S)
  <2> HIDE DEF n, s, S
  <2> QED BY <1>8, SumImage
<1> HIDE DEF n, s
<1> QED BY <1>2, <1>6, <1>9

\* A single caller, who buys, sells and deletes: the setting of the
\* properties below.
OneCaller == (\A c, d \in Clients : c = d) /\ Ops \subseteq {"buy", "sell", "delete"}

\* With one caller the copy a call holds is the position, and the result of a
\* replay is that of the transactions it keeps.
Fresh ==
  \A c \in Clients :
    /\ req[c].pc \in {"idle", "buy", "sell", "replay", "delete"}
    /\ req[c].pc \in {"buy", "sell", "replay"} => req[c].pos = position
    /\ req[c].pc = "delete" /\ req[c].replay.ok =>
         req[c].replay.pos.qty = SumOn(Signed, {t \in txs : t.id # req[c].target})

\* The position holds what its transactions add up to.
Balanced == position.qty = SumOn(Signed, txs)

\* The invariant behind PositionMatchesTransactions.
PositionInv == IInv /\ Fresh /\ Balanced

\* Every step of a single caller keeps it.
LEMMA PositionInvStep ==
  ASSUME OneCaller, PositionInv, [Next]_vars PROVE PositionInv'
<1>1. IInv' BY NextInv DEF PositionInv
<1>a. RowsOK(txs, lots, disps) /\ txs \in SUBSET Transaction /\ IsFiniteSet(txs)
  BY Whole DEF PositionInv, RowsOK
<1>b. position \in Position /\ req \in [Clients -> Call] BY Whole DEF PositionInv, Calls, StateTyped
<1>2. CASE UNCHANGED vars
  <2>1. UNCHANGED <<position, txs, req>> BY <1>2 DEF vars
  <2> QED BY <1>1, <2>1 DEF PositionInv, Fresh, Balanced
<1>3. CASE Next
  <2>1. PICK c \in Clients :
          \/ StartBuy(c)    \/ CommitBuy(c)
          \/ StartSell(c)   \/ CommitSell(c)
          \/ StartDelete(c) \/ ReplayHistory(c) \/ CommitDelete(c)
          \/ StartUpdate(c) \/ CommitUpdate(c)
          \/ StartAdd(c)    \/ CommitCreate(c)  \/ LockHolding(c) \/ CommitAdd(c)
          \/ RollBack(c)
    BY <1>3 DEF Next
  <2>2. \A e \in Clients : e = c BY DEF OneCaller
  <2>3. req[c].pc \in {"idle", "buy", "sell", "replay", "delete"} BY DEF PositionInv, Fresh
  <2>p. /\ req[c].pc \in {"buy", "sell", "replay"} => req[c].pos = position
        /\ req[c].pc = "delete" /\ req[c].replay.ok =>
         req[c].replay.pos.qty = SumOn(Signed, {t \in txs : t.id # req[c].target})
    BY DEF PositionInv, Fresh
  <2>r. \A r : Hold(c, r) => req'[c] = r BY <1>b DEF Hold
  <2>4. CASE StartBuy(c) \/ StartSell(c)
    <3>1. PICK r : Hold(c, r) /\ r.pc \in {"buy", "sell"} /\ r.pos = position
      <4>1. CASE StartBuy(c)
        <5>1. PICK row : Hold(c, [pc |-> "buy", row |-> row, pos |-> position]) BY <4>1 DEF StartBuy
        <5> QED BY <5>1
      <4>2. CASE StartSell(c)
        <5>1. PICK row : Hold(c, [pc |-> "sell", row |-> row, pos |-> position]) BY <4>2 DEF StartSell
        <5> QED BY <5>1
      <4> QED BY <2>4, <4>1, <4>2
    <3>2. UNCHANGED <<position, txs>> BY <2>4 DEF StartBuy, StartSell, StartRecording
    <3>3. req'[c] = r BY <2>r, <3>1
    <3>4. Fresh' BY <2>2, <3>1, <3>2, <3>3 DEF Fresh
    <3> QED BY <1>1, <3>2, <3>4 DEF PositionInv, Balanced
  <2>5. CASE StartDelete(c)
    <3>1. PICK r : Hold(c, r) /\ r.pc = "replay" /\ r.pos = position
      BY <2>5 DEF StartDelete
    <3>2. UNCHANGED <<position, txs>> BY <2>5 DEF StartDelete
    <3>3. req'[c] = r BY <2>r, <3>1
    <3>4. Fresh' BY <2>2, <3>1, <3>2, <3>3 DEF Fresh
    <3> QED BY <1>1, <3>2, <3>4 DEF PositionInv, Balanced
  <2>6. CASE ReplayHistory(c)
    <3> DEFINE T == {t \in txs : t.id # req[c].target}
    <3>1. PICK history \in NewestFirst(T) :
            Hold(c, [pc |-> "delete", target |-> req[c].target, replay |-> Replay(req[c].pos, history)])
      BY <2>6 DEF ReplayHistory
    <3>2. UNCHANGED <<position, txs>> BY <2>6 DEF ReplayHistory
    <3>3. T \in SUBSET Transaction /\ IsFiniteSet(T) BY <1>a, FS_Subset
    <3>4. req[c].pos \in Position BY <1>b, <2>6, <2>p DEF ReplayHistory, At
    <3>5. /\ req'[c].pc = "delete" /\ req'[c].target = req[c].target
          /\ req'[c].replay = Replay(req[c].pos, history)
      BY <2>r, <3>1
    <3>6. Replay(req[c].pos, history).ok => Replay(req[c].pos, history).pos.qty = SumOn(Signed, T)
      <4> HIDE DEF T
      <4> QED BY <3>1, <3>3, <3>4, ReplayUnits
    <3>7. Fresh' BY <2>2, <3>2, <3>5, <3>6 DEF Fresh
    <3> QED BY <1>1, <3>2, <3>7 DEF PositionInv, Balanced
  <2>7. CASE CommitBuy(c)
    <3>1. req[c].pc = "buy" /\ Recording(c) BY <2>7 DEF CommitBuy, At, Recording
    <3> DEFINE row == req[c].row
    <3>2. row \in Transaction /\ row.id \notin Ids(txs) /\ CallsOK
      BY <3>1, AtCommit DEF PositionInv, Calls
    <3>3. row.type = "BUY" BY <3>1, <3>2 DEF CallsOK
    <3>4. row \notin txs BY <3>2 DEF Ids
    <3>5. SumOn(Signed, txs \cup {row}) = SumOn(Signed, txs) + Signed[row]
      <4> HIDE DEF row
      <4> QED BY <1>a, <3>2, <3>4, SignedAdd
    <3>6. position' = Bought(req[c]) /\ txs' = txs \cup {row} /\ req'[c] = Idle
      BY <2>7, <2>r DEF CommitBuy, Reply
    <3>7. Bought(req[c]).qty = position.qty + row.qty BY <1>b, <2>p, <3>1, <3>2, BoughtTyped
    <3>8. Signed[row] = row.qty BY <3>2, <3>3 DEF Signed
    <3>9. Balanced' BY <3>5, <3>6, <3>7, <3>8 DEF PositionInv, Balanced
    <3>10. Fresh' BY <2>2, <3>6 DEF Fresh, Idle
    <3> QED BY <1>1, <3>9, <3>10 DEF PositionInv
  <2>8. CASE CommitSell(c)
    <3>1. req[c].pc = "sell" /\ Recording(c) BY <2>8 DEF CommitSell, At, Recording
    <3> DEFINE row == req[c].row
    <3>2. row \in Transaction /\ row.id \notin Ids(txs) /\ CallsOK
      BY <3>1, AtCommit DEF PositionInv, Calls
    <3>3. row.type = "SELL" /\ row.qty <= req[c].pos.qty BY <3>1, <3>2 DEF CallsOK
    <3>4. row \notin txs BY <3>2 DEF Ids
    <3>5. SumOn(Signed, txs \cup {row}) = SumOn(Signed, txs) + Signed[row] /\ SumOn(Signed, txs) \in Int
      <4> HIDE DEF row
      <4> QED BY <1>a, <3>2, <3>4, SignedAdd
    <3>6. position' = Sold(req[c]) /\ txs' = txs \cup {row} /\ req'[c] = Idle
      BY <2>8, <2>r DEF CommitSell, Reply
    <3>7. Sold(req[c]).qty = position.qty - row.qty BY <1>b, <2>p, <3>1, <3>2, <3>3, SoldTyped
    <3>8. Signed[row] = -row.qty /\ row.qty \in Nat BY <3>2, <3>3 DEF Signed, Transaction
    <3>9. Balanced' BY <3>5, <3>6, <3>7, <3>8 DEF PositionInv, Balanced
    <3>10. Fresh' BY <2>2, <3>6 DEF Fresh, Idle
    <3> QED BY <1>1, <3>9, <3>10 DEF PositionInv
  <2>9. CASE CommitDelete(c)
    <3>1. req[c].pc = "delete" /\ req[c].replay.ok BY <2>9 DEF CommitDelete, At, CanCommit
    <3>2. position' = req[c].replay.pos /\ txs' = {t \in txs : t.id # req[c].target} /\ req'[c] = Idle
      BY <2>9, <2>r DEF CommitDelete, Reply
    <3>3. Balanced' BY <2>p, <3>1, <3>2 DEF Balanced
    <3>4. Fresh' BY <2>2, <3>2 DEF Fresh, Idle
    <3> QED BY <1>1, <3>3, <3>4 DEF PositionInv
  <2>10. CASE RollBack(c)
    <3>1. UNCHANGED <<position, txs>> /\ req'[c] = Idle BY <2>10, <2>r DEF RollBack, Reply
    <3>2. Fresh' BY <2>2, <3>1 DEF Fresh, Idle
    <3> QED BY <1>1, <3>1, <3>2 DEF PositionInv, Balanced
  <2>11. ~(StartUpdate(c) \/ StartAdd(c))
    BY DEF OneCaller, StartUpdate, StartAdd, StartRecording
  <2>12. ~(CommitUpdate(c) \/ CommitCreate(c) \/ LockHolding(c) \/ CommitAdd(c))
    BY <2>3 DEF CommitUpdate, CommitCreate, LockHolding, CommitAdd, At
  <2> QED BY <2>1, <2>4, <2>5, <2>6, <2>7, <2>8, <2>9, <2>10, <2>11, <2>12
<1> QED BY <1>2, <1>3

\* It holds at first.
LEMMA PositionInvInit == Init => PositionInv
<1> SUFFICES ASSUME Init PROVE PositionInv OBVIOUS
<1>1. IInv BY InitInv
<1>2. Fresh BY DEF Init, Fresh, Idle
<1>3. SumOn(Signed, txs) = 0 BY SumOnEmpty DEF Init
<1>4. position.qty = 0 BY DEF Init, NoPosition, EmptyPosition
<1> QED BY <1>1, <1>2, <1>3, <1>4 DEF PositionInv, Balanced

\* It gives the property.
LEMMA BalancedIs == PositionInv => PositionMatchesTransactions
<1> SUFFICES ASSUME PositionInv PROVE PositionMatchesTransactions OBVIOUS
<1>1. txs \in SUBSET Transaction /\ IsFiniteSet(txs) BY Whole DEF PositionInv, RowsOK
<1>2. Units(txs, "BUY") - Units(txs, "SELL") = SumOn(Signed, txs) BY <1>1, UnitsAre
<1> QED BY <1>2 DEF PositionMatchesTransactions, PositionInv, Balanced

\* With one caller the position's quantity is what its transactions say,
\* after any history of purchases, sales and deletions
\* (ProcessBuyTransaction, ProcessSellTransaction, DeleteTransaction).
THEOREM PositionCorrect ==
  ASSUME OneCaller PROVE Spec => []PositionMatchesTransactions
<1>1. PositionInv /\ [Next]_vars => PositionInv' BY PositionInvStep
<1> QED BY <1>1, PositionInvInit, BalancedIs, PTL DEF Spec

-----------------------------------------------------------------------------
(* One caller: the lots and the position agree. *)

\* What a sale leaves on the lots and what they yield is what they held.
LEMMA LeftAfterSale ==
  ASSUME NEW L, LotsOK(L), NEW method, NEW order, NEW n, Ordering(L, order, n, method),
         NEW qty \in Nat
  PROVE  SumOn(Remaining, AfterSale(L, order, qty))
           + SumOn([i \in 1 .. n |-> Take(order, qty, i)], Matched(order, qty))
         = SumOn(Remaining, L)
<1> DEFINE take == [i \in 1 .. n |-> Take(order, qty, i)]
           M == Matched(order, qty)
           A(s) == (L \ {order[i] : i \in s}) \cup {SoldLot(order, qty, i) : i \in s}
           G == {s \in SUBSET M : SumOn(Remaining, A(s)) + SumOn(take, s) = SumOn(Remaining, L)}
<1>1. \A i \in 1 .. n : order[i] \in L /\ LotOK(order[i]) /\ Take(order, qty, i) \in Nat
                        /\ Take(order, qty, i) <= order[i].remaining
  BY Takes
<1>2. M = {i \in 1 .. n : Take(order, qty, i) > 0} BY Takes
<1>3. \A i \in M : /\ LotOK(SoldLot(order, qty, i)) /\ SoldLot(order, qty, i).id = order[i].id
                   /\ SoldLot(order, qty, i).remaining = order[i].remaining - Take(order, qty, i)
  BY <1>1, <1>2, SoldLotFx
<1>4. \A l, m \in L : l.id = m.id => l = m BY DEF LotsOK
<1>5. \A i, j \in M : order[i].id = order[j].id => i = j BY <1>1, <1>2, <1>4 DEF Ordering
<1>6. IsFiniteSet(M)
  <2>1. n \in Nat BY DEF Ordering
  <2>2. IsFiniteSet(1 .. n) /\ M \subseteq 1 .. n BY <1>2, <2>1, FS_Interval
  <2> QED BY <2>2, FS_Subset
<1>7. \A s \in SUBSET M : IsFiniteSet(A(s)) /\ \A l \in A(s) : LotOK(l)
  <2> TAKE s \in SUBSET M
  <2> DEFINE f == [i \in s |-> SoldLot(order, qty, i)]
             X == L \ {order[i] : i \in s}
             Y == {SoldLot(order, qty, i) : i \in s}
  <2>1. IsFiniteSet(s) BY <1>6, FS_Subset
  <2>2. IsFiniteSet({f[i] : i \in s}) BY <2>1, ImageFinite
  <2>3. {f[i] : i \in s} = Y OBVIOUS
  <2>4. IsFiniteSet(X) BY FS_Subset DEF LotsOK
  <2>5. IsFiniteSet(X \cup Y)
    <3>1. IsFiniteSet(X) /\ IsFiniteSet(Y) BY <2>2, <2>3, <2>4
    <3> HIDE DEF X, Y
    <3> QED BY <3>1, FS_Union
  <2>6. \A l \in A(s) : LotOK(l) BY <1>3 DEF LotsOK
  <2> QED BY <2>5, <2>6
<1>8. \A l : LotOK(l) => Remaining[l] = l.remaining /\ Remaining[l] \in Nat
  BY DEF Remaining, LotOK, TaxLot
<1>9. \A i \in M : take[i] = Take(order, qty, i) /\ take[i] \in Nat BY <1>1, <1>2
<1>10. ASSUME NEW s \in SUBSET M, \A x \in s : s \ {x} \in G PROVE s \in G
  <2>1. CASE s = {}
    <3>1. A(s) = L BY <2>1
    <3>2. SumOn(take, s) = 0 BY <2>1, SumOnEmpty
    <3>3. IsFiniteSet(L) /\ \A l \in L : Remaining[l] \in Nat BY <1>8 DEF LotsOK
    <3> DEFINE sum == SumOn(Remaining, L)
    <3>4. sum \in Nat
      <4> HIDE DEF A
      <4> QED BY <3>3, SumOnNat
    <3>5. SumOn(Remaining, A(s)) = sum BY <3>1
    <3>6. sum + 0 = sum BY <3>4
    <3> QED BY <3>2, <3>5, <3>6
  <2>2. CASE s # {}
    <3>1. PICK x \in s : TRUE BY <2>2
    <3> DEFINE r == s \ {x}
               l == order[x]
               m == SoldLot(order, qty, x)
               P == A(r)
               Q == A(s)
               C == P \ {l}
    <3>2. x \in M /\ l \in L /\ LotOK(l) /\ LotOK(m) /\ m.id = l.id BY <1>1, <1>2, <1>3
    <3>3. l \in P
      <4>1. \A i \in r : order[i] # l BY <1>5, <3>2
      <4> QED BY <3>2, <4>1
    <3>4. m \in Q BY <3>1
    <3>5. \A k \in P : k.id = l.id => k = l
      <4>1. \A i \in r : SoldLot(order, qty, i).id # l.id BY <1>3, <1>5, <3>2
      <4> QED BY <1>4, <3>2, <4>1
    <3>6. Q = C \cup {m}
      <4>1. \A i \in r : SoldLot(order, qty, i) # l BY <1>3, <1>5, <3>2
      <4>2. C = (L \ {order[i] : i \in s}) \cup {SoldLot(order, qty, i) : i \in r}
        BY <4>1
      <4> QED BY <4>2
    <3>7. m \notin C BY <3>2, <3>5
    <3>8. Q \ {m} = C BY <3>6, <3>7
    <3>9. IsFiniteSet(P) /\ IsFiniteSet(Q) /\ (\A k \in P : LotOK(k)) /\ (\A k \in Q : LotOK(k)) BY <1>7
    <3>10. r \in SUBSET M /\ IsFiniteSet(s) /\ IsFiniteSet(r) BY <1>6, FS_Subset
    <3>11. SumOn(Remaining, P) + SumOn(take, r) = SumOn(Remaining, L) BY <1>10
    <3> DEFINE y == Take(order, qty, x)
               c == SumOn(Remaining, C)
               t == SumOn(take, r)
               all == SumOn(Remaining, L)
    <3>12. Remaining[l] = l.remaining /\ Remaining[m] = l.remaining - y /\ y \in Nat /\ l.remaining \in Nat
      <4>1. Remaining[l] = l.remaining /\ l.remaining \in Nat BY <1>8, <3>2
      <4>2. Remaining[m] = m.remaining BY <1>8, <3>2
      <4>3. m.remaining = l.remaining - y /\ y \in Nat BY <1>1, <1>2, <1>3, <3>2
      <4> QED BY <4>1, <4>2, <4>3
    <3>13. \A i \in s : take[i] \in Int
      <4> HIDE DEF take, M
      <4> QED BY <1>9
    <3>14. \A i \in r : take[i] \in Int BY <3>13
    <3>15. take[x] = y BY <1>9, <3>2
    <3> HIDE DEF A, take, C, P, Q, l, m, y, M
    <3>16. SumOn(Remaining, P) = Remaining[l] + c
      <4>1. \A k \in P : Remaining[k] \in Int BY <1>8, <3>9
      <4> QED BY <3>3, <3>9, <4>1, SumRemove DEF C
    <3>17. SumOn(Remaining, Q) = Remaining[m] + c
      <4>1. \A k \in Q : Remaining[k] \in Int BY <1>8, <3>9
      <4>2. SumOn(Remaining, Q) = Remaining[m] + SumOn(Remaining, Q \ {m}) BY <3>4, <3>9, <4>1, SumRemove
      <4> QED BY <3>8, <4>2
    <3>18. SumOn(take, s) = y + t
      <4> HIDE DEF r
      <4>1. SumOn(take, s) = take[x] + SumOn(take, s \ {x}) BY <3>10, <3>13, SumRemove
      <4> QED BY <3>15, <4>1 DEF r
    <3>19. c \in Int /\ t \in Int
      <4>1. IsFiniteSet(C) /\ C \subseteq P BY <3>9, FS_Subset DEF C
      <4>2. \A k \in C : Remaining[k] \in Int BY <1>8, <3>9, <4>1
      <4>3. SumOn(Remaining, C) \in Int BY <4>1, <4>2, SumOnInt
      <4>4. SumOn(take, r) \in Int
        <5> HIDE DEF r
        <5> QED BY <3>10, <3>14, SumOnInt
      <4> QED BY <4>3, <4>4
    <3> HIDE DEF c, t, all
    <3>20. SumOn(Remaining, Q) + SumOn(take, s) = all
      <4> DEFINE u == l.remaining
      <4>1. SumOn(Remaining, Q) = (u - y) + c /\ SumOn(take, s) = y + t /\ (u + c) + t = all
            /\ u \in Int /\ y \in Int
        BY <3>11, <3>12, <3>16, <3>17, <3>18 DEF t, all
      <4> HIDE DEF u
      <4> QED BY <3>19, <4>1
    <3> QED BY <3>20 DEF Q, all
  <2> QED BY <2>1, <2>2
<1> HIDE DEF G
<1>11. M \in G
  <2> HIDE DEF M
  <2>1. \A s \in SUBSET M : s \in G BY <1>10, <1>6, SubsetInduction
  <2> QED BY <2>1
<1>12. AfterSale(L, order, qty) = A(M) BY AfterSaleIs
<1> QED BY <1>11, <1>12 DEF G

\* A purchase adds its units to the lots.
LEMMA LeftAfterPurchase ==
  ASSUME NEW L, LotsOK(L), NEW row \in Transaction, row.id \notin Ids(L)
  PROVE  SumOn(Remaining, L \cup {LotOf(row)}) = SumOn(Remaining, L) + row.qty
<1> DEFINE lot == LotOf(row)
           U == L \cup {lot}
<1>1. lot \in TaxLot /\ lot.remaining = row.qty /\ lot.id = row.id /\ row.qty \in Nat
  BY DEF LotOf, TaxLot, TaxLotStatus, Transaction
<1> HIDE DEF lot
<1>2. lot \notin L BY <1>1 DEF Ids
<1>3. IsFiniteSet(L) /\ L \subseteq TaxLot BY DEF LotsOK, LotOK
<1>4. IsFiniteSet(U) /\ U \ {lot} = L /\ lot \in U BY <1>2, <1>3, FS_AddElement
<1>5. \A l \in TaxLot : Remaining[l] \in Nat /\ Remaining[l] = l.remaining BY DEF Remaining, TaxLot
<1>6. \A l \in U : Remaining[l] \in Int BY <1>1, <1>3, <1>5
<1>7. \A l \in L : Remaining[l] \in Int BY <1>3, <1>5
<1>8. Remaining[lot] = row.qty BY <1>1, <1>5
<1> HIDE DEF U
<1>9. SumOn(Remaining, U) = Remaining[lot] + SumOn(Remaining, U \ {lot}) BY <1>4, <1>6, SumRemove
<1>10. SumOn(Remaining, L) \in Int BY <1>3, <1>7, SumOnInt
<1>11. \A a, b \in Int : a + b = b + a OBVIOUS
<1>12. SumOn(Remaining, U) = row.qty + SumOn(Remaining, L) BY <1>4, <1>8, <1>9
<1>13. SumOn(Remaining, U) = SumOn(Remaining, L) + row.qty BY <1>1, <1>10, <1>11, <1>12
<1> QED BY <1>13 DEF U, lot

\* The invariant behind LotsMatchPosition.
BooksInv == PositionInv /\ BooksLinked /\ (NothingDeleted => SumOn(Remaining, lots) = position.qty)

\* With no open lot nothing is left on the lots.
LEMMA NoOpenNothingLeft ==
  ASSUME NEW L, LotsOK(L), FindOpen(L) = {}
  PROVE  SumOn(Remaining, L) = 0
<1>1. FindOpen(L) = {l \in L : l.remaining > 0} BY OpenLots
<1>2. \A l \in L : Remaining[l] = 0
  <2> TAKE l \in L
  <2>1. l \in TaxLot /\ ~(l.remaining > 0) BY <1>1 DEF LotsOK, LotOK
  <2> QED BY <2>1 DEF Remaining, TaxLot
<1>3. IsFiniteSet(L) BY DEF LotsOK
<1> QED BY <1>2, <1>3, SumOnZero

\* What a sale that commits takes off the lots, some lot being open.
LEMMA SaleTakes ==
  ASSUME NEW L, LotsOK(L), FindOpen(L) # {}, NEW method, NEW order \in SaleOrders(FindOpen(L), method),
         NEW qty \in Nat \ {0}, Available(FindOpen(L)) >= qty
  PROVE  /\ SumOn(Remaining, AfterSale(L, order, qty)) = SumOn(Remaining, L) - qty
         /\ Matched(order, qty) # {}
<1> DEFINE open == FindOpen(L)
           n == Cardinality(open)
           taken == SumOn([i \in 1 .. n |-> Take(order, qty, i)], Matched(order, qty))
           all == Available(open)
           left == SumOn(Remaining, AfterSale(L, order, qty))
           had == SumOn(Remaining, L)
<1>1. Ordering(L, order, n, method) /\ Lists(order, open, n, method)
  BY OrderingOfSale, OrderListsOpen
<1>2. Before(order, n, n + 1) = all
  <2> HIDE DEF n
  <2> QED BY <1>1, OpenSum
<1>3. qty \in Nat OBVIOUS
<1>4. taken = IF qty <= Before(order, n, n + 1) THEN qty ELSE Before(order, n, n + 1)
  <2> HIDE DEF n
  <2> QED BY <1>1, <1>3, PrefixTaken
<1>5. all \in Int
  <2> HIDE DEF all, open
  <2>1. open \subseteq TaxLot /\ IsFiniteSet(open)
    BY OpenLots DEF open, FindOpen, LotsOK, LotOK
  <2>2. \A l \in open : Remaining[l] \in Nat BY <2>1 DEF Remaining, TaxLot
  <2>3. SumOn(Remaining, open) \in Nat BY <2>1, <2>2, SumOnNat
  <2>4. open \in SUBSET TaxLot BY <2>1
  <2>5. Available(open) = SumOn(Remaining, open) BY <2>4, SumsAre
  <2>6. Available(open) \in Nat BY <2>3, <2>5
  <2> QED BY <2>6 DEF all
<1>6. qty <= all
  <2>1. all >= qty OBVIOUS
  <2> HIDE DEF all
  <2> QED BY <1>5, <2>1
<1>7. taken = qty
  <2> HIDE DEF taken, all, n
  <2> QED BY <1>2, <1>4, <1>6
<1>8. left + taken = had
  <2> HIDE DEF n
  <2> QED BY <1>1, <1>3, LeftAfterSale
<1>9. left \in Int
  <2> DEFINE A == AfterSale(L, order, qty)
  <2>1. LotsOK(A)
    <3> HIDE DEF n
    <3> QED BY <1>1, <1>3, AfterSaleFx
  <2> HIDE DEF A
  <2>2. IsFiniteSet(A) /\ \A l \in A : Remaining[l] \in Int
    BY <2>1 DEF LotsOK, LotOK, Remaining, TaxLot
  <2>3. SumOn(Remaining, A) \in Int BY <2>2, SumOnInt
  <2> QED BY <2>3 DEF A
<1>10. Matched(order, qty) # {}
  <2> SUFFICES ASSUME Matched(order, qty) = {} PROVE FALSE OBVIOUS
  <2>1. taken = 0 BY SumOnEmpty
  <2> HIDE DEF taken
  <2> QED BY <1>7, <2>1
<1> HIDE DEF taken, left, had
<1>11. left = had - qty BY <1>7, <1>8, <1>9
<1> QED BY <1>10, <1>11 DEF left, had

\* With one caller only three steps write the rows.
LEMMA WhoWrites ==
  ASSUME OneCaller, Fresh, [Next]_vars
  PROVE  \/ UNCHANGED <<position, txs, lots, disps>>
         \/ \E c \in Clients : CommitBuy(c) \/ CommitSell(c) \/ CommitDelete(c)
<1>1. ASSUME NEW c \in Clients PROVE ~(CommitUpdate(c) \/ CommitCreate(c) \/ CommitAdd(c))
  <2>1. req[c].pc \in {"idle", "buy", "sell", "replay", "delete"} BY DEF Fresh
  <2> QED BY <2>1 DEF CommitUpdate, CommitCreate, CommitAdd, At
<1>2. \A c \in Clients :
        StartBuy(c) \/ StartSell(c) \/ StartDelete(c) \/ ReplayHistory(c) \/ StartUpdate(c)
        \/ StartAdd(c) \/ LockHolding(c) \/ RollBack(c)
          => UNCHANGED <<position, txs, lots, disps>>
  BY DEF StartBuy, StartSell, StartDelete, ReplayHistory,
       StartUpdate, StartAdd, LockHolding, RollBack, StartRecording
<1>3. UNCHANGED vars => UNCHANGED <<position, txs, lots, disps>> BY DEF vars
<1> QED BY <1>1, <1>2, <1>3 DEF Next

\* A purchase or a sale does not bring a deleted transaction back.
LEMMA StillNothingDeleted ==
  ASSUME IInv, NEW c \in Clients, CommitBuy(c) \/ CommitSell(c), NothingDeleted'
  PROVE  NothingDeleted
<1>1. Recording(c) BY DEF CommitBuy, CommitSell, At, Recording
<1> DEFINE row == req[c].row
<1>2. row \in Transaction /\ row.id \notin Ids(txs) /\ row.id \notin Ids(lots) /\ row.id \notin Sales(disps)
      /\ LotsOK(lots)
  BY <1>1, AtCommit, Whole, CallIs DEF RowsOK
<1>3. txs' = txs \cup {row} BY DEF CommitBuy, CommitSell
<1>4. Ids(lots) \subseteq Ids(lots') /\ Sales(disps) \subseteq Sales(disps')
  <2>1. CASE CommitBuy(c) BY <2>1 DEF CommitBuy, Ids, Sales
  <2>2. CASE CommitSell(c)
    <3> DEFINE q == row.qty
    <3>1. PICK order \in SaleOrders(FindOpen(lots), Method) :
            /\ lots'  = AfterSale(lots, order, q)
            /\ disps' = disps \cup Dispositions(order, q, row.id, Method)
      BY <2>2 DEF CommitSell
    <3>2. q \in Nat BY <1>2 DEF Transaction
    <3> HIDE DEF q, row
    <3>3. Ids(AfterSale(lots, order, q)) = Ids(lots) BY <1>2, <3>2, OrderingOfSale, SaleIds
    <3> QED BY <3>1, <3>3 DEF Ids, Sales
  <2> QED BY <2>1, <2>2
<1>5. Ids(lots') \subseteq Ids(txs') /\ Sales(disps') \subseteq Ids(txs')
  BY DEF NothingDeleted, Sales, Ids
<1>6. Ids(txs') = Ids(txs) \cup {row.id} BY <1>3 DEF Ids
<1> QED BY <1>2, <1>4, <1>5, <1>6 DEF NothingDeleted, Sales

\* A deletion leaves a lot or a disposition without its transaction.
LEMMA DeletionShows ==
  ASSUME IInv, BooksLinked, NEW c \in Clients, CommitDelete(c)
  PROVE  ~NothingDeleted'
<1>1. txs' = {t \in txs : t.id # req[c].target} /\ UNCHANGED <<lots, disps>> BY DEF CommitDelete
<1>2. req[c].pc = "delete" /\ CanCommit(req[c]) BY DEF CommitDelete, At
<1>3. PICK t \in txs : t.id = req[c].target BY <1>2 DEF CanCommit
<1> SUFFICES ASSUME NothingDeleted' PROVE FALSE OBVIOUS
<1>4. Ids(lots) \subseteq Ids(txs') /\ Sales(disps) \subseteq Ids(txs')
  BY <1>1 DEF NothingDeleted, Sales, Ids
<1>5. req[c].target \notin Ids(txs') BY <1>1 DEF Ids
<1>6. Ids(txs') \subseteq Ids(txs) BY <1>1 DEF Ids
<1>7. NothingDeleted BY <1>4, <1>6 DEF NothingDeleted, Sales
<1>8. t.type # "BUY" BY <1>3, <1>4, <1>5 DEF BooksLinked
<1>9. t.type = "SELL" BY <1>8, Whole DEF RowsOK, Transaction
<1>10. t.id \in Sales(disps) BY <1>7, <1>9 DEF BooksLinked, EverySaleMatched, Sales
<1> QED BY <1>3, <1>4, <1>5, <1>10

\* Every step of a single caller keeps it.
LEMMA BooksInvStep ==
  ASSUME OneCaller, BooksInv, [Next]_vars PROVE BooksInv'
<1>1. PositionInv' BY PositionInvStep DEF BooksInv
<1>i. IInv BY DEF BooksInv, PositionInv
<1>a. RowsOK(txs, lots, disps) /\ CallsOK /\ LotsOK(lots) BY <1>i, Whole DEF Calls, RowsOK
<1>p. Balanced /\ Balanced' /\ Fresh BY <1>1 DEF BooksInv, PositionInv
<1>b. BooksLinked /\ (NothingDeleted => SumOn(Remaining, lots) = position.qty) BY DEF BooksInv
<1>2. CASE UNCHANGED <<position, txs, lots, disps>>
  <2>1. BooksLinked' BY <1>2, <1>b DEF BooksLinked, NothingDeleted, EverySaleMatched, Ids
  <2>2. NothingDeleted' <=> NothingDeleted BY <1>2 DEF NothingDeleted, Ids
  <2> QED BY <1>1, <1>2, <1>b, <2>1, <2>2 DEF BooksInv
<1>3. ASSUME NEW c \in Clients, CommitBuy(c) PROVE BooksInv'
  <2>1. req[c].pc = "buy" /\ Recording(c) BY <1>3 DEF CommitBuy, At, Recording
  <2> DEFINE row == req[c].row
             lot == LotOf(row)
  <2>2. row \in Transaction /\ row.id \notin Ids(txs) /\ row.id \notin Ids(lots) /\ row.id \notin Sales(disps)
        /\ req[c].pos \in Position
    BY <1>i, <2>1, AtCommit, CallIs
  <2>3. row.type = "BUY" BY <1>a, <2>1 DEF CallsOK
  <2>4. txs' = txs \cup {row} /\ lots' = lots \cup {lot} /\ disps' = disps /\ position' = Bought(req[c])
    BY <1>3 DEF CommitBuy
  <2>5. lot.id = row.id BY DEF LotOf
  <2> DEFINE pos == req[c].pos
  <2>6. position'.qty = pos.qty + row.qty /\ pos = position
    BY <1>p, <2>1, <2>2, <2>4, BoughtTyped DEF Fresh
  <2>7. SumOn(Remaining, lots \cup {lot}) = SumOn(Remaining, lots) + row.qty
    <3> HIDE DEF row
    <3> QED BY <1>a, <2>2, LeftAfterPurchase
  <2> HIDE DEF row, lot, pos
  <2>8. NothingDeleted' => NothingDeleted BY <1>i, <1>3, StillNothingDeleted
  <2>9. NothingDeleted' => SumOn(Remaining, lots') = position'.qty
    BY <1>b, <2>4, <2>6, <2>7, <2>8
  <2>10. BooksLinked'
    <3>1. \A t \in txs' : t.type = "BUY" => t.id \in Ids(lots') BY <1>b, <2>4, <2>5 DEF BooksLinked, Ids
    <3>2. NothingDeleted' => EverySaleMatched'
      BY <1>b, <2>3, <2>4, <2>8 DEF BooksLinked, EverySaleMatched
    <3> QED BY <3>1, <3>2 DEF BooksLinked, Ids
  <2> QED BY <1>1, <2>9, <2>10 DEF BooksInv
<1>4. ASSUME NEW c \in Clients, CommitSell(c) PROVE BooksInv'
  <2>1. req[c].pc = "sell" /\ Recording(c) /\ CanCommit(req[c]) BY <1>4 DEF CommitSell, At, Recording
  <2> DEFINE row == req[c].row
             pos == req[c].pos
  <2>2. row \in Transaction /\ row.id \notin Ids(txs) /\ row.id \notin Ids(lots) /\ row.id \notin Sales(disps)
        /\ pos \in Position
    BY <1>i, <2>1, AtCommit, CallIs
  <2>3. row.type = "SELL" /\ row.qty <= pos.qty BY <1>a, <2>1 DEF CallsOK
  <2>4. FindOpen(lots) # {} => Available(FindOpen(lots)) >= row.qty BY <2>1 DEF CanCommit
  <2>5. txs' = txs \cup {row} /\ position' = Sold(req[c])
    BY <1>4 DEF CommitSell
  <2>6. PICK order \in SaleOrders(FindOpen(lots), Method) :
        /\ lots'  = AfterSale(lots, order, row.qty)
        /\ disps' = disps \cup Dispositions(order, row.qty, row.id, Method)
    BY <1>4 DEF CommitSell
  <2>7. position'.qty = pos.qty - row.qty /\ pos = position
    BY <1>p, <2>1, <2>2, <2>3, <2>5, SoldTyped DEF Fresh
  <2> HIDE DEF row, pos
  <2>q. row.qty \in Nat \ {0} /\ pos.qty \in Nat BY <2>2 DEF Transaction, Position
  <2>8. Ids(lots') = Ids(lots)
    <3> DEFINE q == row.qty
    <3>1. q \in Nat BY <2>q
    <3> HIDE DEF q
    <3>2. Ids(AfterSale(lots, order, q)) = Ids(lots) BY <1>a, <3>1, OrderingOfSale, SaleIds
    <3> QED BY <2>6, <3>2 DEF q
  <2>9. NothingDeleted' => NothingDeleted BY <1>i, <1>4, StillNothingDeleted
  <2>10. NothingDeleted' => FindOpen(lots) # {}
    <3> SUFFICES ASSUME NothingDeleted', FindOpen(lots) = {} PROVE FALSE OBVIOUS
    <3>1. SumOn(Remaining, lots) = 0 BY <1>a, NoOpenNothingLeft
    <3>2. pos.qty = 0 BY <1>b, <2>7, <2>9, <3>1
    <3> QED BY <2>3, <2>q, <3>2 DEF row, pos
  <2>11. FindOpen(lots) # {} =>
           /\ SumOn(Remaining, lots') = SumOn(Remaining, lots) - row.qty
           /\ Matched(order, row.qty) # {}
    <3> SUFFICES ASSUME FindOpen(lots) # {}
                 PROVE  /\ SumOn(Remaining, lots') = SumOn(Remaining, lots) - row.qty
                        /\ Matched(order, row.qty) # {}
      OBVIOUS
    <3> DEFINE q == row.qty
    <3>1. q \in Nat \ {0} /\ Available(FindOpen(lots)) >= q BY <2>4, <2>q
    <3> HIDE DEF q
    <3>2. /\ SumOn(Remaining, AfterSale(lots, order, q)) = SumOn(Remaining, lots) - q
          /\ Matched(order, q) # {}
      BY <1>a, <3>1, SaleTakes
    <3> QED BY <2>6, <3>2 DEF q
  <2>12. NothingDeleted' => SumOn(Remaining, lots') = position'.qty
    BY <1>b, <2>7, <2>9, <2>10, <2>11
  <2>13. BooksLinked'
    <3>1. \A t \in txs' : t.type = "BUY" => t.id \in Ids(lots')
      BY <1>b, <2>3, <2>5, <2>8 DEF BooksLinked, row
    <3>2. ASSUME NothingDeleted' PROVE EverySaleMatched'
      <4>1. NothingDeleted /\ EverySaleMatched BY <1>b, <2>9, <3>2 DEF BooksLinked
      <4>2. PICK i \in Matched(order, row.qty) : TRUE BY <2>10, <2>11, <3>2
      <4>3. SoldRow(order, row.qty, row.id, Method, i) \in disps' BY <2>6 DEF Dispositions, SoldRow
      <4>4. SoldRow(order, row.qty, row.id, Method, i).sale = row.id BY DEF SoldRow
      <4>5. \E d \in disps' : d.sale = row.id BY <4>3, <4>4
      <4>6. disps \subseteq disps' BY <2>6
      <4> QED BY <2>5, <4>1, <4>5, <4>6 DEF EverySaleMatched
    <3> QED BY <3>1, <3>2 DEF BooksLinked, Ids
  <2> QED BY <1>1, <2>12, <2>13 DEF BooksInv
<1>5. ASSUME NEW c \in Clients, CommitDelete(c) PROVE BooksInv'
  <2>1. txs' = {t \in txs : t.id # req[c].target} /\ UNCHANGED <<lots, disps>> BY <1>5 DEF CommitDelete
  <2>4. ~NothingDeleted' BY <1>i, <1>b, <1>5, DeletionShows
  <2>5. BooksLinked'
    <3>1. \A u \in txs' : u.type = "BUY" => u.id \in Ids(lots') BY <1>b, <2>1 DEF BooksLinked
    <3> QED BY <2>4, <3>1 DEF BooksLinked, Ids
  <2> QED BY <1>1, <2>4, <2>5 DEF BooksInv
<1>6. \/ UNCHANGED <<position, txs, lots, disps>>
      \/ \E c \in Clients : CommitBuy(c) \/ CommitSell(c) \/ CommitDelete(c)
  BY <1>p, WhoWrites
<1> QED BY <1>2, <1>3, <1>4, <1>5, <1>6

\* It holds at first.
LEMMA BooksInvInit == Init => BooksInv
<1> SUFFICES ASSUME Init PROVE BooksInv OBVIOUS
<1>1. PositionInv BY PositionInvInit
<1>2. txs = {} /\ lots = {} BY DEF Init
<1>3. BooksLinked BY <1>2 DEF BooksLinked, EverySaleMatched
<1>4. SumOn(Remaining, lots) = 0 BY <1>2, SumOnEmpty
<1>5. position.qty = 0 BY DEF Init, NoPosition, EmptyPosition
<1> QED BY <1>1, <1>3, <1>4, <1>5 DEF BooksInv

\* It gives the property.
LEMMA LotsMatch == BooksInv => LotsMatchPosition
<1> SUFFICES ASSUME BooksInv PROVE LotsMatchPosition OBVIOUS
<1>1. RowsOK(txs, lots, disps) BY Whole DEF BooksInv, PositionInv
<1>2. lots \in SUBSET TaxLot BY <1>1 DEF RowsOK, LotsOK, LotOK
<1>3. Available(lots) = SumOn(Remaining, lots) BY <1>2, SumsAre
<1> QED BY <1>3 DEF BooksInv, LotsMatchPosition

\* With one caller and nothing deleted the open lots hold exactly the units
\* of the position.
THEOREM LotsCorrect ==
  ASSUME OneCaller PROVE Spec => []LotsMatchPosition
<1>1. BooksInv /\ [Next]_vars => BooksInv' BY BooksInvStep
<1> QED BY <1>1, BooksInvInit, LotsMatch, PTL DEF Spec

-----------------------------------------------------------------------------
(* One caller: what was paid, what was charged and what is left. *)

\* Factors keep an order, and a positive one reflects it.
LEMMA TimesLe == \A a, b \in Int, k \in Nat : a <= b => k * a <= k * b
OBVIOUS
LEMMA TimesLt == \A a, b \in Int, k \in Nat \ {0} : k * a < k * b <=> a < b
OBVIOUS

\* The cost a partial sale takes off a position is its share of the total,
\* rounded up, or one cent more.
LEMMA ShareTaken ==
  ASSUME NEW p \in Position, NEW qty \in Nat \ {0}, qty < p.qty
  PROVE  /\ p.cost.total * qty <= p.qty * (p.cost.total - RemainingTotal(p, qty))
         /\ p.qty * (p.cost.total - RemainingTotal(p, qty)) <= p.cost.total * qty + p.qty
<1> DEFINE Q == p.qty
           T == p.cost.total
           exact == T * (Q - qty)
           d == exact \div Q
           R == RemainingTotal(p, qty)
           tq == T * qty
           qt == Q * T
<1>1. Q \in Nat \ {0} /\ T \in Nat /\ Q - qty \in Nat BY DEF Position, Cost
<1>2. exact \in Nat /\ tq \in Nat /\ qt \in Nat BY <1>1, TimesNat
<1>3. exact = qt - tq
  <2> HIDE DEF Q, T
  <2> QED BY <1>1
<1>4. R = IF exact > 0 /\ exact % Q = 0 /\ ProportionRoundsUp(qty, Q) THEN d - 1 ELSE d
  BY DEF RemainingTotal
<1> HIDE DEF exact, R, Q, T
<1>5. d \in Nat /\ Q * d <= exact /\ exact < Q * d + Q BY <1>1, <1>2, DivNat, DivBounds
<1>6. exact % Q = 0 => Q * d = exact BY <1>1, <1>2
<1>7. Q * (T - d) = qt - Q * d /\ Q * (T - (d - 1)) = qt - Q * d + Q BY <1>1, <1>5
<1>8. Q * d \in Nat BY <1>1, <1>5, TimesNat
<1> HIDE DEF d, tq, qt
<1>9. CASE R = d
  <2> DEFINE v == Q * (T - R)
             w == Q * d
  <2>1. v = qt - w /\ w <= exact /\ exact < w + Q /\ w \in Nat BY <1>5, <1>7, <1>8, <1>9
  <2> HIDE DEF v, w
  <2>2. tq <= v /\ v <= tq + Q BY <1>1, <1>2, <1>3, <2>1
  <2> QED BY <2>2 DEF v, tq, Q, T, R
<1>10. CASE R = d - 1 /\ exact % Q = 0
  <2> DEFINE v == Q * (T - R)
             w == Q * d
  <2>1. v = qt - w + Q /\ w = exact BY <1>6, <1>7, <1>10
  <2> HIDE DEF v, w
  <2>2. tq <= v /\ v <= tq + Q BY <1>1, <1>2, <1>3, <2>1
  <2> QED BY <2>2 DEF v, tq, Q, T, R
<1> QED BY <1>4, <1>9, <1>10

\* A share rounded up and the cost at the average rounded down are at most
\* two cents apart (M micros to the cent).
LEMMA ShareAgainstAverage ==
  ASSUME NEW M \in Nat \ {0},
         NEW Q \in Nat \ {0}, NEW q \in Nat \ {0}, q < Q, NEW T \in Nat, NEW a \in Nat,
         NEW D \in Int, NEW c \in Nat,
         T * q <= Q * D, Q * D <= T * q + Q,
         M * c <= q * a, q * a < M * c + M,
         a * Q - T * M \in -M .. M
  PROVE  D - c \in 0 .. 2
<1> DEFINE tq == T * q
           qd == Q * D
           qc == Q * c
           x  == Q * (q * a)
           e  == D - c
<1>1. tq \in Int /\ qd \in Int /\ qc \in Int /\ x \in Int /\ e \in Int OBVIOUS
<1>2. tq <= qd /\ qd <= tq + Q /\ Q * e = qd - qc OBVIOUS
<1>3. M * qc <= x /\ x <= M * qc + M * Q
  <2> DEFINE y == q * a
             z == M * c
  <2>1. y \in Int /\ z \in Int /\ z <= y /\ y <= z + M OBVIOUS
  <2>2. Q * z = M * qc OBVIOUS
  <2> HIDE DEF y, z
  <2>3. Q * z <= Q * y /\ Q * y <= Q * (z + M) BY <2>1, TimesLe
  <2>4. Q * (z + M) = Q * z + M * Q BY <2>1
  <2> HIDE DEF qc
  <2> QED BY <2>2, <2>3, <2>4 DEF y
<1>4. M * tq - M * q <= x /\ x <= M * tq + M * q
  <2> DEFINE y == a * Q
             z == T * M
  <2>1. y \in Int /\ z \in Int /\ z - M <= y /\ y <= z + M OBVIOUS
  <2>2. q * z = M * tq /\ q * y = x OBVIOUS
  <2> HIDE DEF y, z
  <2>3. q * (z - M) <= q * y /\ q * y <= q * (z + M) BY <2>1, TimesLe
  <2>4. q * (z - M) = q * z - M * q /\ q * (z + M) = q * z + M * q BY <2>1
  <2> HIDE DEF tq, x
  <2> QED BY <2>2, <2>3, <2>4
<1> HIDE DEF tq, qd, qc, x, e
<1>5. M * tq <= M * qd /\ M * qd <= M * (tq + Q) /\ M * q < M * Q BY <1>1, <1>2, TimesLe, TimesLt
<1>6. M * (-Q) < M * (qd - qc) /\ M * (qd - qc) < M * (3 * Q)
  <2> DEFINE mt == M * tq
             md == M * qd
             mc == M * qc
             mQ == M * Q
             mq == M * q
  <2>1. mt \in Int /\ md \in Int /\ mc \in Int /\ mQ \in Int /\ mq \in Int BY <1>1
  <2>2. M * (tq + Q) = mt + mQ /\ M * (qd - qc) = md - mc /\ M * (-Q) = -mQ /\ M * (3 * Q) = 3 * mQ
    BY <1>1
  <2>3. /\ mt <= md /\ md <= mt + mQ /\ mq < mQ
        /\ mc <= x /\ x <= mc + mQ /\ mt - mq <= x /\ x <= mt + mq
    BY <1>3, <1>4, <1>5, <2>2
  <2> HIDE DEF mt, md, mc, mQ, mq
  <2>4. -mQ < md - mc /\ md - mc < 3 * mQ BY <1>1, <2>1, <2>3
  <2> QED BY <2>2, <2>4
<1>7. -Q < qd - qc /\ qd - qc < 3 * Q
  <2>1. -Q \in Int /\ qd - qc \in Int /\ 3 * Q \in Int BY <1>1
  <2> QED BY <1>6, <2>1, TimesLt
<1>8. Q * (-1) < Q * e /\ Q * e < Q * 3
  <2>1. Q * (-1) = -Q /\ Q * 3 = 3 * Q OBVIOUS
  <2> QED BY <1>2, <1>7, <2>1
<1>9. -1 < e /\ e < 3 BY <1>1, <1>8, TimesLt
<1>10. e \in 0 .. 2 BY <1>1, <1>9
<1> QED BY <1>10 DEF e

\* What a sale takes off the cost of a position and what it charges differ by
\* two cents at most (reduceFromCostBasis against CalculateRealizedGains).
LEMMA SaleGap ==
  ASSUME NEW p \in Position, p.cost.known, Consistent(p), NEW qty \in Nat \ {0}, qty <= p.qty
  PROVE  (p.cost.total - ReduceFromCostBasis(p, qty).cost.total) - ((qty * p.cost.avg) \div Cent)
           \in -1 .. 2
<1> DEFINE Q == p.qty
           T == p.cost.total
           a == p.cost.avg
           c == (qty * a) \div Cent
           R == ReduceFromCostBasis(p, qty).cost.total
           D == T - R
<1>1. Cent \in Nat \ {0} BY CentPositive
<1>2. Q \in Nat \ {0} /\ T \in Nat /\ a \in Nat BY DEF Position, Cost
<1>3. qty * a \in Nat BY <1>2, TimesNat
<1>4. c \in Nat /\ Cent * c <= qty * a /\ qty * a < Cent * c + Cent
  BY <1>1, <1>3, DivNat, DivBounds
<1>5. a * Q - T * Cent \in -Cent .. Cent BY <1>2 DEF Consistent
<1> DEFINE cost == IF qty = p.qty THEN NoCost
                   ELSE IF p.cost.known THEN CostOf(RemainingTotal(p, qty), p.cost.avg) ELSE NoCost
<1>r. ReduceFromCostBasis(p, qty).cost = cost
  <2>1. ReduceFromCostBasis(p, qty) = [p EXCEPT !.qty = p.qty - qty, !.cost = cost]
    BY DEF ReduceFromCostBasis
  <2> HIDE DEF cost
  <2> QED BY <2>1 DEF Position
<1>6. CASE qty < p.qty
  <2>1. R = RemainingTotal(p, qty) BY <1>r, <1>6 DEF CostOf
  <2>2. T * qty <= Q * D /\ Q * D <= T * qty + Q BY <1>6, <2>1, ShareTaken
  <2>3. RemainingTotal(p, qty) \in Nat BY RemainingTotalNat
  <2>4. D \in Int BY <1>2, <2>1, <2>3
  <2>5. qty < Q BY <1>6
  <2> HIDE DEF D, c, Q, T, a
  <2>6. D - c \in 0 .. 2 BY <1>1, <1>2, <1>4, <1>5, <2>2, <2>4, <2>5, ShareAgainstAverage
  <2>7. D - c \in -1 .. 2 BY <2>6
  <2> QED BY <2>7 DEF D, c, T, a
<1>7. CASE qty = p.qty
  <2>1. R = 0 BY <1>r, <1>7 DEF NoCost
  <2> DEFINE v == a * Q
             z == T * Cent
             y == Cent * c
  <2>2. D = T /\ qty * a = v BY <1>2, <1>7, <2>1
  <2>3. v \in Int /\ y <= v /\ v < y + Cent /\ v - z \in -Cent .. Cent
    BY <1>3, <1>4, <1>5, <2>2
  <2>4. y \in Int /\ z \in Int BY <1>1, <1>2, <1>4
  <2> HIDE DEF D, c, T, v, z, y
  <2>5. y - Cent <= z /\ z <= y + 2 * Cent - 1 BY <1>1, <2>3, <2>4
  <2>6. Cent * (c - 1) <= Cent * T /\ Cent * T < Cent * (c + 2)
    <3>1. Cent * (c - 1) = y - Cent /\ Cent * (c + 2) = y + 2 * Cent /\ Cent * T = z
      BY <1>1, <1>2, <1>4 DEF y, z
    <3> QED BY <2>4, <2>5, <3>1, <1>1
  <2>7. c - 1 \in Int /\ c + 2 \in Int /\ T \in Int BY <1>2, <1>4
  <2>8. ~(T < c - 1) /\ T < c + 2
    <3>1. Cent * T < Cent * (c - 1) <=> T < c - 1 BY <1>1, <2>7, TimesLt
    <3>2. Cent * T < Cent * (c + 2) <=> T < c + 2 BY <1>1, <2>7, TimesLt
    <3>3. ~(Cent * T < Cent * (c - 1)) BY <1>1, <2>6, <2>7
    <3> QED BY <2>6, <3>1, <3>2, <3>3
  <2>9. D - c \in -1 .. 2 BY <1>2, <1>4, <2>2, <2>8
  <2> QED BY <2>9 DEF D, c, T
<1>8. qty < p.qty \/ qty = p.qty BY <1>2
<1> QED BY <1>6, <1>7, <1>8

\* The amount of a transaction, and the same with a sign.
TxAmount == [t \in Transaction |-> t.amount]
Paid == [t \in Transaction |-> IF t.type = "SELL" THEN -t.amount ELSE t.amount]

\* What was paid for purchases less what sales brought in.
LEMMA AmountsAre ==
  ASSUME NEW T \in SUBSET Transaction, IsFiniteSet(T)
  PROVE  /\ Amount(T, "BUY") \in Int /\ Amount(T, "SELL") \in Int
         /\ Amount(T, "BUY") - Amount(T, "SELL") = SumOn(Paid, T)
<1>1. ASSUME NEW t \in T
      PROVE  TxAmount[t] \in Nat /\ Paid[t] = IF t.type = "SELL" THEN -TxAmount[t] ELSE TxAmount[t]
  BY DEF TxAmount, Transaction, Paid
<1>2. SumOn(TxAmount, {t \in T : t.type = "BUY"}) - SumOn(TxAmount, {t \in T : t.type = "SELL"})
        = SumOn(Paid, T)
  BY <1>1, BoughtLessSold
<1>3. ASSUME NEW type
      PROVE  /\ Amount(T, type) = SumOn(TxAmount, {t \in T : t.type = type})
             /\ Amount(T, type) \in Int
  <2> DEFINE S == {t \in T : t.type = type}
  <2>1. [x \in S |-> x.amount] = [x \in S |-> TxAmount[x]] BY DEF TxAmount
  <2>2. IsFiniteSet(S) /\ \A t \in S : TxAmount[t] \in Int BY <1>1, FS_Subset
  <2>3. Amount(T, type) = SumOn(TxAmount, S) BY <2>1 DEF Amount, SumOver, SumOn
  <2> HIDE DEF S
  <2>4. SumOn(TxAmount, S) \in Int BY <2>2, SumOnInt
  <2> QED BY <2>3, <2>4 DEF S
<1> QED BY <1>2, <1>3

\* The number of sales.
SalesIn(T) == Cardinality({t \in T : t.type = "SELL"})

\* What a recorded transaction adds to it and to what was paid.
LEMMA RecordedRow ==
  ASSUME NEW T \in SUBSET Transaction, IsFiniteSet(T), NEW t \in Transaction, t \notin T
  PROVE  /\ SumOn(Paid, T) \in Int /\ SumOn(Paid, T \cup {t}) = SumOn(Paid, T) + Paid[t]
         /\ Paid[t] = (IF t.type = "SELL" THEN -t.amount ELSE t.amount) /\ t.amount \in Nat
         /\ SalesIn(T) \in Nat
         /\ SalesIn(T \cup {t}) = SalesIn(T) + (IF t.type = "SELL" THEN 1 ELSE 0)
<1>1. \A x \in Transaction : Paid[x] \in Int /\ x.amount \in Nat
                             /\ Paid[x] = IF x.type = "SELL" THEN -x.amount ELSE x.amount
  BY DEF Paid, Transaction
<1>2. SumOn(Paid, T) \in Int /\ SumOn(Paid, T \cup {t}) = SumOn(Paid, T) + Paid[t]
  <2>1. Paid[t] \in Int /\ \A x \in T : Paid[x] \in Int BY <1>1
  <2> QED BY <2>1, SumAdd
<1> DEFINE S == {x \in T : x.type = "SELL"}
           U == {x \in T \cup {t} : x.type = "SELL"}
<1>3. IsFiniteSet(S) BY FS_Subset
<1>4. Cardinality(S) \in Nat BY <1>3, FS_CardinalityType
<1>5. CASE t.type = "SELL"
  <2>1. U = S \cup {t} /\ t \notin S BY <1>5
  <2>2. Cardinality(U) = Cardinality(S) + 1
    <3> HIDE DEF S, U
    <3> QED BY <1>3, <2>1, FS_AddElement
  <2> QED BY <1>1, <1>2, <1>4, <1>5, <2>2 DEF SalesIn
<1>6. CASE t.type # "SELL"
  <2>1. U = S BY <1>6
  <2>2. SalesIn(T \cup {t}) = Cardinality(S) /\ SalesIn(T) = Cardinality(S) BY <2>1 DEF SalesIn
  <2> HIDE DEF S, U
  <2>3. SalesIn(T \cup {t}) = SalesIn(T) + 0 BY <1>4, <2>2
  <2> QED BY <1>1, <1>2, <1>4, <1>6, <2>2, <2>3
<1> QED BY <1>5, <1>6

\* A sale's amount is its units at its price, as NewRows makes it.
SalePriced ==
  \A c \in Clients : req[c].pc = "sell" => req[c].row.amount = (req[c].row.qty * req[c].row.price) \div Cent

\* What was paid less what was charged and what is left.
Gap == SumOn(Paid, txs) + position.realized - position.cost.total

\* The cost of a position that no deletion has recomputed: known as long as
\* there are units, consistent with them, and off by at most two cents a sale.
CostOK ==
  /\ position.qty > 0 => position.cost.known
  /\ position.qty = 0 => position.cost.total = 0
  /\ Consistent(position)
  /\ Gap \in -SalesIn(txs) .. 2 * SalesIn(txs)

\* The invariant behind EconomicCostConserved.
CostInv == BooksInv /\ SalePriced /\ (NothingDeleted => CostOK)

\* A purchase leaves the gap and the rest of CostOK alone: what it pays is
\* added to the cost.
LEMMA CostOfPurchase ==
  ASSUME NEW p \in Position, NEW qty \in Nat \ {0}, NEW price \in Nat, NEW amount \in Nat,
         p.qty > 0 => p.cost.known, p.qty = 0 => p.cost.total = 0
  PROVE  LET b == AddToCostBasis(p, qty, price, amount)
         IN  /\ b.cost.known /\ b.qty > 0
             /\ b.cost.total = p.cost.total + amount
             /\ b.realized = p.realized
<1> DEFINE newQty == p.qty + qty
           newTotal == p.cost.total + amount
           cost == IF p.qty = 0 THEN CostOf(amount, price)
                                ELSE CostOf(newTotal, RoundDiv(newTotal * Cent, newQty))
           b == [p EXCEPT !.qty = newQty, !.cost = cost]
<1>1. p.qty \in Nat /\ p.cost.total \in Nat BY DEF Position, Cost
<1>2. AddToCostBasis(p, qty, price, amount) = b BY DEF AddToCostBasis
<1>3. cost.known /\ cost.total = newTotal BY <1>1 DEF CostOf
<1>4. newQty > 0 BY <1>1
<1> HIDE DEF cost, newQty, newTotal
<1>5. b.cost = cost /\ b.qty = newQty /\ b.realized = p.realized BY DEF Position
<1> QED BY <1>2, <1>3, <1>4, <1>5 DEF newTotal

\* A sale moves the gap by two cents up or one down at most.
LEMMA CostOfSale ==
  ASSUME NEW r, r.pos \in Position, r.row \in Transaction, r.row.qty <= r.pos.qty,
         r.row.amount = (r.row.qty * r.row.price) \div Cent,
         r.pos.cost.known, Consistent(r.pos)
  PROVE  /\ Sold(r).qty > 0 => Sold(r).cost.known
         /\ Sold(r).qty = 0 => Sold(r).cost.total = 0
         /\ (Sold(r).realized - r.row.amount - Sold(r).cost.total)
              - (r.pos.realized - r.pos.cost.total) \in -1 .. 2
<1> DEFINE p == r.pos
           qty == r.row.qty
           u == r.row.price
           v == r.row.amount
           q == ReduceFromCostBasis(p, qty)
           c == (qty * p.cost.avg) \div Cent
           g == p.realized + RealizedGain(p, qty, u)
           cost == IF qty = p.qty THEN NoCost
                   ELSE IF p.cost.known THEN CostOf(RemainingTotal(p, qty), p.cost.avg) ELSE NoCost
<1>1. /\ p \in Position /\ qty \in Nat \ {0} /\ u \in Nat /\ v \in Nat /\ v = (qty * u) \div Cent
      /\ qty <= p.qty /\ p.cost.known /\ Consistent(p) /\ p.qty \in Nat
      /\ p.cost.total \in Nat /\ p.realized \in Int /\ p.cost.avg \in Nat
  BY DEF Transaction, Position, Cost
<1>2. Sold(r) = [q EXCEPT !.realized = g] BY DEF Sold
<1> HIDE DEF p, qty, u, v
<1>3. c \in Nat
  <2>1. qty * p.cost.avg \in Nat BY <1>1, TimesNat
  <2>2. Cent \in Nat \ {0} BY CentPositive
  <2> QED BY <2>1, <2>2, DivNat
<1>4. RealizedGain(p, qty, u) = v - c BY <1>1 DEF RealizedGain, AverageCharge
<1>5. (p.cost.total - q.cost.total) - c \in -1 .. 2 BY <1>1, SaleGap
<1>6. q \in Position /\ q.qty = p.qty - qty BY <1>1, ReduceTyped
<1>7. q.cost = cost
  <2>1. q = [p EXCEPT !.qty = p.qty - qty, !.cost = cost] BY DEF ReduceFromCostBasis
  <2> HIDE DEF q, cost
  <2> QED BY <1>1, <2>1 DEF Position
<1>8. (q.qty > 0 => q.cost.known) /\ (q.qty = 0 => q.cost.total = 0)
  <2>1. CASE qty = p.qty
    <3>1. cost.total = 0 BY <2>1 DEF NoCost
    <3>2. q.qty = 0 BY <1>1, <1>6, <2>1
    <3> HIDE DEF q, cost
    <3> QED BY <1>7, <3>1, <3>2
  <2>2. CASE qty # p.qty
    <3>1. cost.known BY <1>1, <2>2 DEF CostOf
    <3>2. q.qty # 0 BY <1>1, <1>6, <2>2
    <3> HIDE DEF q, cost
    <3> QED BY <1>7, <3>1, <3>2
  <2> QED BY <2>1, <2>2
<1>9. q.cost.total \in Nat BY <1>6 DEF Position, Cost
<1> HIDE DEF q, cost
<1>10. Sold(r).qty = q.qty /\ Sold(r).cost = q.cost /\ Sold(r).realized = g
  BY <1>2, <1>6 DEF Position
<1> DEFINE t == p.cost.total
           w == q.cost.total
           z == p.realized
<1>11. g = z + (v - c) BY <1>4
<1> HIDE DEF g, c, t, w, z
<1>12. (g - v - w) - (z - t) \in -1 .. 2
  <2>1. t \in Nat /\ w \in Nat /\ z \in Int /\ (t - w) - c \in -1 .. 2
    BY <1>1, <1>5, <1>9 DEF t, w, z
  <2> QED BY <1>1, <1>3, <1>11, <2>1
<1> QED BY <1>8, <1>10, <1>12 DEF p, v, t, w, z

\* A single caller's step prices its sales.
LEMMA SalePricedStep ==
  ASSUME OneCaller, Fresh, req \in [Clients -> Call], SalePriced, [Next]_vars
  PROVE  SalePriced'
<1>1. CASE UNCHANGED vars BY <1>1 DEF vars, SalePriced
<1>2. CASE Next
  <2>1. PICK c \in Clients :
          \/ StartBuy(c)    \/ CommitBuy(c)
          \/ StartSell(c)   \/ CommitSell(c)
          \/ StartDelete(c) \/ ReplayHistory(c) \/ CommitDelete(c)
          \/ StartUpdate(c) \/ CommitUpdate(c)
          \/ StartAdd(c)    \/ CommitCreate(c)  \/ LockHolding(c) \/ CommitAdd(c)
          \/ RollBack(c)
    BY <1>2 DEF Next
  <2>2. \A e \in Clients : e = c BY DEF OneCaller
  <2>3. \A r : Hold(c, r) => req'[c] = r BY DEF Hold
  <2>4. CASE StartSell(c)
    <3>1. PICK row \in NewRows("SELL", Prices \ {0}) :
            /\ row.qty <= position.qty /\ Valid(row)
            /\ Hold(c, [pc |-> "sell", row |-> row, pos |-> position])
      BY <2>4 DEF StartSell
    <3>2. row.amount = (row.qty * row.price) \div Cent BY DEF NewRows
    <3>3. req'[c].row = row BY <2>3, <3>1
    <3> QED BY <2>2, <3>2, <3>3 DEF SalePriced
  <2>5. CASE ~StartSell(c)
    <3>1. req[c].pc \in {"idle", "buy", "sell", "replay", "delete"} BY DEF Fresh
    <3>2. ~(StartAdd(c) \/ StartUpdate(c)) BY DEF OneCaller, StartAdd, StartUpdate, StartRecording
    <3>3. ~(CommitUpdate(c) \/ CommitCreate(c) \/ LockHolding(c) \/ CommitAdd(c))
      BY <3>1 DEF CommitUpdate, CommitCreate, LockHolding, CommitAdd, At
    <3>4. \E r : Hold(c, r) /\ r.pc # "sell"
      <4>1. CASE StartBuy(c)
        <5>1. PICK row : Hold(c, [pc |-> "buy", row |-> row, pos |-> position])
          BY <4>1 DEF StartBuy
        <5> QED BY <5>1
      <4>2. CASE StartDelete(c) BY <4>2 DEF StartDelete
      <4>3. CASE ReplayHistory(c) BY <4>3 DEF ReplayHistory
      <4>4. CASE CommitBuy(c) \/ CommitSell(c) \/ CommitDelete(c) \/ RollBack(c)
        BY <4>4 DEF CommitBuy, CommitSell, CommitDelete, RollBack, Reply, Idle
      <4> QED BY <2>1, <2>5, <3>2, <3>3, <4>1, <4>2, <4>3, <4>4
    <3> QED BY <2>2, <2>3, <3>4 DEF SalePriced
  <2> QED BY <2>4, <2>5
<1> QED BY <1>1, <1>2

\* Every step of a single caller keeps CostInv.
LEMMA CostInvStep ==
  ASSUME OneCaller, CostInv, [Next]_vars PROVE CostInv'
<1>1. BooksInv' BY BooksInvStep DEF CostInv
<1>i. IInv /\ Fresh /\ BooksLinked BY DEF CostInv, BooksInv, PositionInv
<1>a. RowsOK(txs, lots, disps) /\ CallsOK /\ position \in Position /\ req \in [Clients -> Call]
      /\ txs \in SUBSET Transaction /\ IsFiniteSet(txs)
  BY <1>i, Whole DEF Calls, StateTyped, RowsOK
<1>2. SalePriced' BY <1>i, <1>a, SalePricedStep DEF CostInv
<1>3. CASE UNCHANGED <<position, txs, lots, disps>>
  <2>1. NothingDeleted' <=> NothingDeleted BY <1>3 DEF NothingDeleted, Ids
  <2>2. CostOK' <=> CostOK BY <1>3 DEF CostOK, Gap, Consistent, SalesIn
  <2> QED BY <1>1, <1>2, <2>1, <2>2 DEF CostInv
<1>4. ASSUME NEW c \in Clients, CommitBuy(c), NothingDeleted' PROVE CostOK'
  <2>1. NothingDeleted /\ CostOK BY <1>i, <1>4, StillNothingDeleted DEF CostInv
  <2>2. req[c].pc = "buy" /\ Recording(c) /\ CanCommit(req[c]) BY <1>4 DEF CommitBuy, At, Recording
  <2> DEFINE row == req[c].row
             q == row.qty
             u == row.price
             v == row.amount
             n == SalesIn(txs)
             sum == SumOn(Paid, txs)
  <2>3. row \in Transaction /\ row \notin txs /\ row.type = "BUY" /\ req[c].pos = position
    BY <1>i, <1>a, <2>2, AtCommit DEF Ids, CallsOK, Fresh
  <2>4. txs' = txs \cup {row} /\ position' = Bought(req[c]) BY <1>4 DEF CommitBuy
  <2>5. Consistent(position') BY <2>2, <2>4 DEF CanCommit
  <2>6. position' = AddToCostBasis(position, q, u, v) BY <2>3, <2>4 DEF Bought
  <2>7. q \in Nat \ {0} /\ u \in Nat /\ v \in Nat BY <2>3 DEF Transaction
  <2> HIDE DEF row
  <2>8. /\ sum \in Int /\ SumOn(Paid, txs \cup {row}) = sum + v
        /\ n \in Nat /\ SalesIn(txs \cup {row}) = n + 0
    BY <1>a, <2>3, RecordedRow
  <2> HIDE DEF q, u, v, sum, n
  <2>9. /\ position'.cost.known /\ position'.qty > 0
        /\ position'.cost.total = position.cost.total + v /\ position'.realized = position.realized
    BY <1>a, <2>1, <2>6, <2>7, CostOfPurchase DEF CostOK
  <2>10. position.cost.total \in Int /\ position.realized \in Int BY <1>a DEF Position, Cost
  <2> DEFINE t == position.cost.total
             z == position.realized
  <2>11. Gap = sum + z - t /\ Gap' = (sum + v) + z - (t + v)
    BY <2>4, <2>8, <2>9 DEF Gap, sum
  <2>12. t \in Int /\ z \in Int BY <2>10
  <2>13. Gap \in -n .. 2 * n BY <2>1 DEF CostOK, n
  <2> HIDE DEF t, z
  <2>14. Gap' \in -n .. 2 * n BY <2>7, <2>8, <2>11, <2>12, <2>13
  <2>15. SalesIn(txs') = n BY <2>4, <2>8
  <2> QED BY <2>5, <2>9, <2>14, <2>15, <1>1 DEF CostOK
<1>5. ASSUME NEW c \in Clients, CommitSell(c), NothingDeleted' PROVE CostOK'
  <2>1. NothingDeleted /\ CostOK BY <1>i, <1>5, StillNothingDeleted DEF CostInv
  <2>2. req[c].pc = "sell" /\ Recording(c) /\ CanCommit(req[c]) BY <1>5 DEF CommitSell, At, Recording
  <2> DEFINE r == req[c]
             row == r.row
             v == row.amount
             n == SalesIn(txs)
             sum == SumOn(Paid, txs)
             t == position.cost.total
             z == position.realized
             t2 == position'.cost.total
             z2 == position'.realized
  <2>3. row \in Transaction /\ row \notin txs /\ row.type = "SELL" /\ row.qty <= r.pos.qty
        /\ r.pos = position
    BY <1>i, <1>a, <2>2, AtCommit DEF Ids, CallsOK, Fresh
  <2>4. txs' = txs \cup {row} /\ position' = Sold(r) BY <1>5 DEF CommitSell
  <2>5. Consistent(position') BY <2>2, <2>4 DEF CanCommit
  <2>6. v = (row.qty * row.price) \div Cent BY <2>2 DEF CostInv, SalePriced
  <2>7. r.pos.cost.known /\ Consistent(r.pos)
    <3>1. row.qty \in Nat \ {0} /\ position.qty \in Nat BY <1>a, <2>3 DEF Transaction, Position
    <3>2. position.qty > 0 BY <2>3, <3>1
    <3> QED BY <2>1, <2>3, <3>2 DEF CostOK
  <2>8. v \in Nat BY <2>3 DEF Transaction
  <2> HIDE DEF r
  <2>9. /\ Sold(r).qty > 0 => Sold(r).cost.known
        /\ Sold(r).qty = 0 => Sold(r).cost.total = 0
        /\ (Sold(r).realized - r.row.amount - Sold(r).cost.total)
              - (r.pos.realized - r.pos.cost.total) \in -1 .. 2
    BY <1>a, <2>3, <2>6, <2>7, CostOfSale
  <2>10. (z2 - v - t2) - (z - t) \in -1 .. 2 BY <2>3, <2>4, <2>9
  <2> HIDE DEF row
  <2>11. /\ sum \in Int /\ SumOn(Paid, txs \cup {row}) = sum + (-v)
         /\ n \in Nat /\ SalesIn(txs \cup {row}) = n + 1
    BY <1>a, <2>3, RecordedRow
  <2>12. t \in Int /\ z \in Int BY <1>a DEF Position, Cost
  <2>13. t2 \in Int /\ z2 \in Int
    <3>1. position' \in Position BY <1>a, <2>3, <2>4, SoldTyped DEF row
    <3> QED BY <3>1 DEF Position, Cost
  <2> HIDE DEF v, n
  <2>14. Gap = sum + z - t /\ Gap' = (sum + (-v)) + z2 - t2
    BY <2>4, <2>11 DEF Gap
  <2>15. Gap \in -n .. 2 * n BY <2>1 DEF CostOK, n
  <2> HIDE DEF sum, t, z, t2, z2
  <2>16. Gap' \in -(n + 1) .. 2 * (n + 1)
    BY <2>8, <2>10, <2>11, <2>12, <2>13, <2>14, <2>15
  <2>17. SalesIn(txs') = n + 1 BY <2>4, <2>11
  <2>18. Gap' \in -SalesIn(txs') .. 2 * SalesIn(txs') BY <2>16, <2>17
  <2> QED BY <2>4, <2>5, <2>9, <2>18 DEF CostOK
<1>6. ASSUME NEW c \in Clients, CommitDelete(c) PROVE ~NothingDeleted'
  BY <1>i, <1>6, DeletionShows
<1> QED BY <1>1, <1>2, <1>3, <1>4, <1>5, <1>6, <1>i, WhoWrites DEF CostInv

\* It holds at first.
LEMMA CostInvInit == Init => CostInv
<1> SUFFICES ASSUME Init PROVE CostInv OBVIOUS
<1>1. BooksInv BY BooksInvInit
<1>2. SalePriced BY DEF Init, SalePriced, Idle
<1>3. /\ position.qty = 0 /\ position.cost.total = 0 /\ ~position.cost.known /\ position.realized = 0
  BY DEF Init, NoPosition, EmptyPosition, NoCost
<1>4. SumOn(Paid, txs) = 0 BY SumOnEmpty DEF Init
<1>5. SalesIn(txs) = 0
  <2>1. {t \in txs : t.type = "SELL"} = {} BY DEF Init
  <2> QED BY <2>1, FS_EmptySet DEF SalesIn
<1>6. CostOK BY <1>3, <1>4, <1>5 DEF CostOK, Consistent, Gap
<1> QED BY <1>1, <1>2, <1>6 DEF CostInv

\* It gives the property.
LEMMA CostBounded == CostInv => EconomicCostConserved
<1> SUFFICES ASSUME CostInv, NothingDeleted
             PROVE  Amount(txs, "BUY") - (Amount(txs, "SELL") - position.realized) - position.cost.total
                      \in -SalesIn(txs) .. 2 * SalesIn(txs)
  BY DEF EconomicCostConserved, SalesIn
<1>1. IInv BY DEF CostInv, BooksInv, PositionInv
<1>2. txs \in SUBSET Transaction /\ IsFiniteSet(txs) /\ position \in Position
  BY <1>1, Whole DEF RowsOK, Calls, StateTyped
<1> DEFINE bought == Amount(txs, "BUY")
           sold == Amount(txs, "SELL")
           t == position.cost.total
           z == position.realized
<1>3. bought \in Int /\ sold \in Int /\ bought - sold = SumOn(Paid, txs) BY <1>2, AmountsAre
<1>4. t \in Int /\ z \in Int BY <1>2 DEF Position, Cost
<1>5. Gap = (bought - sold) + z - t BY <1>3 DEF Gap
<1> HIDE DEF bought, sold, t, z
<1>6. bought - (sold - z) - t = Gap BY <1>3, <1>4, <1>5
<1>7. CostOK BY DEF CostInv
<1> QED BY <1>6, <1>7 DEF CostOK, bought, sold, t, z

\* With one caller and nothing deleted, what was paid is what is still on the
\* position plus what sales charged, but for two cents a sale at most
\* (CalculateRealizedGains against reduceFromCostBasis).
THEOREM CostCharged ==
  ASSUME OneCaller PROVE Spec => []EconomicCostConserved
<1>1. CostInv /\ [Next]_vars => CostInv' BY CostInvStep
<1> QED BY <1>1, CostInvInit, CostBounded, PTL DEF Spec

-----------------------------------------------------------------------------
(* Any callers: the ledger keeps a LotBook. *)

\* The requests' quantities, and a sale draws on a lot with one row.
QtysOK == \A c \in Clients : Recording(c) => req[c].row.qty \in Qtys
KeyedIn(D) == \A d, e \in D : d.sale = e.sale /\ d.lot = e.lot => d = e

\* The invariant behind ImplementsLotBook.
BookInv == IInv /\ QtysOK /\ KeyedIn(disps)

\* A lot is found by its id.
LEMMA LotFound ==
  ASSUME NEW L, LotsOK(L), NEW l \in L
  PROVE  /\ LotById(L, l.id) = l /\ l.id \in Ids(L)
         /\ Acquired(L)[l.id] = l.initial /\ Left(L)[l.id] = l.remaining
<1>1. LotById(L, l.id) \in L /\ LotById(L, l.id).id = l.id BY DEF LotById
<1>2. LotById(L, l.id) = l BY <1>1 DEF LotsOK
<1>3. l.id \in Ids(L) BY DEF Ids
<1> QED BY <1>2, <1>3 DEF Acquired, Left

\* A new lot is acquired whole.
LEMMA AcquireSeen ==
  ASSUME NEW L, LotsOK(L), NEW row \in Transaction, row.id \notin Ids(L)
  PROVE  /\ row.id \notin DOMAIN Acquired(L)
         /\ Acquired(L \cup {LotOf(row)}) = Book!With(Acquired(L), row.id, row.qty)
         /\ Left(L \cup {LotOf(row)}) = Book!With(Left(L), row.id, row.qty)
<1> DEFINE lot == LotOf(row)
           K == L \cup {lot}
<1>1. LotOK(lot) /\ lot.id = row.id /\ lot.initial = row.qty /\ lot.remaining = row.qty
  BY DEF LotOf, LotOK, TaxLot, TaxLotStatus, Transaction
<1> HIDE DEF lot
<1>2. LotsOK(K)
  <2>1. IsFiniteSet(K) BY FS_AddElement DEF LotsOK
  <2>2. \A l \in L : l.id # lot.id BY <1>1 DEF Ids
  <2> QED BY <1>1, <2>1, <2>2 DEF LotsOK
<1>3. Ids(K) = Ids(L) \cup {row.id} BY <1>1 DEF Ids
<1>4. lot \in K /\ L \subseteq K OBVIOUS
<1> HIDE DEF K
<1>5. Acquired(K)[row.id] = row.qty /\ Left(K)[row.id] = row.qty
  BY <1>1, <1>2, <1>4, LotFound
<1>6. ASSUME NEW id \in Ids(L)
      PROVE  Acquired(K)[id] = Acquired(L)[id] /\ Left(K)[id] = Left(L)[id]
  <2>1. PICK l \in L : l.id = id BY DEF Ids
  <2> QED BY <1>2, <1>4, <2>1, LotFound
<1>7. /\ DOMAIN Acquired(L) = Ids(L) /\ DOMAIN Left(L) = Ids(L)
      /\ Acquired(K) = [id \in Ids(K) |-> Acquired(K)[id]]
      /\ Left(K) = [id \in Ids(K) |-> Left(K)[id]]
  BY DEF Acquired, Left
<1>8. Acquired(K) = Book!With(Acquired(L), row.id, row.qty)
  BY <1>3, <1>5, <1>6, <1>7 DEF Book!With
<1>9. Left(K) = Book!With(Left(L), row.id, row.qty)
  BY <1>3, <1>5, <1>6, <1>7 DEF Book!With
<1> QED BY <1>7, <1>8, <1>9 DEF K, lot

\* The lots a sale draws on, and what it takes from each, by their ids.
DrawnFrom(order, qty) == {order[i].id : i \in Matched(order, qty)}
Taken(order, qty) ==
  [id \in DrawnFrom(order, qty) |->
     Take(order, qty, CHOOSE i \in Matched(order, qty) : order[i].id = id)]

\* What a lot yields, found by the lot's id.
LEMMA TakenIs ==
  ASSUME NEW L, LotsOK(L), NEW method, NEW order, NEW n, Ordering(L, order, n, method),
         NEW qty \in Nat
  PROVE  /\ \A i, j \in Matched(order, qty) : order[i].id = order[j].id => i = j
         /\ \A i \in Matched(order, qty) :
              order[i].id \in DrawnFrom(order, qty) /\ Taken(order, qty)[order[i].id] = Take(order, qty, i)
<1> DEFINE M == Matched(order, qty)
<1>1. M \subseteq 1 .. n /\ \A i \in 1 .. n : order[i] \in L
  <2>1. M = {i \in 1 .. n : Take(order, qty, i) > 0} BY Takes
  <2>2. \A i \in 1 .. n : order[i] \in L BY Takes
  <2> QED BY <2>1, <2>2
<1>2. \A i, j \in M : order[i].id = order[j].id => i = j
  <2> SUFFICES ASSUME NEW i \in M, NEW j \in M, order[i].id = order[j].id PROVE i = j
    OBVIOUS
  <2>1. order[i] = order[j] BY <1>1 DEF LotsOK
  <2> QED BY <1>1, <2>1 DEF Ordering
<1> HIDE DEF M
<1>3. ASSUME NEW i \in M
      PROVE  order[i].id \in DrawnFrom(order, qty) /\ Taken(order, qty)[order[i].id] = Take(order, qty, i)
  <2> DEFINE k == CHOOSE j \in M : order[j].id = order[i].id
  <2>1. k \in M /\ order[k].id = order[i].id OBVIOUS
  <2>2. k = i BY <1>2, <2>1
  <2>3. order[i].id \in DrawnFrom(order, qty) BY DEF DrawnFrom, M
  <2>4. Taken(order, qty)[order[i].id] = Take(order, qty, k) BY <2>3 DEF Taken, M
  <2> QED BY <2>2, <2>3, <2>4
<1> QED BY <1>2, <1>3 DEF M

\* A sale takes its units from lots that have them and leaves the rest alone.
LEMMA SaleSeen ==
  ASSUME NEW L, LotsOK(L), NEW method, NEW order, NEW n, Ordering(L, order, n, method),
         NEW qty \in Nat \ {0}
  PROVE  LET A == AfterSale(L, order, qty)
             from == DrawnFrom(order, qty)
             take == Taken(order, qty)
         IN  /\ from \in SUBSET DOMAIN Left(L)
             /\ take \in [from -> 1 .. qty]
             /\ \A id \in from : take[id] <= Left(L)[id]
             /\ Left(A) = [id \in DOMAIN Left(L) |-> Left(L)[id] - (IF id \in from THEN take[id] ELSE 0)]
             /\ Acquired(A) = Acquired(L)
<1> DEFINE A == AfterSale(L, order, qty)
           from == DrawnFrom(order, qty)
           take == Taken(order, qty)
           M == Matched(order, qty)
<1>q. qty \in Nat OBVIOUS
<1>1. /\ \A i \in 1 .. n : LotOK(order[i]) /\ order[i].remaining \in Nat /\ order[i] \in L
      /\ \A i \in 1 .. n : Take(order, qty, i) \in Nat /\ Take(order, qty, i) <= order[i].remaining
      /\ M = {i \in 1 .. n : Take(order, qty, i) > 0}
  BY <1>q, Takes
<1>2. \A i \in 1 .. n : Take(order, qty, i) <= qty
  <2> TAKE i \in 1 .. n
  <2>1. n \in Nat BY DEF Ordering
  <2>2. \A k \in 1 .. n : order[k].remaining \in Nat BY <1>1
  <2>3. Take(order, qty, i) =
          IF qty <= Before(order, n, i) THEN 0
          ELSE IF qty - Before(order, n, i) <= order[i].remaining
                 THEN qty - Before(order, n, i) ELSE order[i].remaining
    BY <1>q, <2>1, <2>2, TakeIs
  <2>4. \A k \in 1 .. n + 1 : Before(order, n, k) \in Nat BY <2>1, <2>2, BeforeFx
  <2>5. Before(order, n, i) \in Nat /\ order[i].remaining \in Nat BY <2>1, <2>2, <2>4
  <2> QED BY <2>3, <2>5
<1>3. /\ \A i, j \in M : order[i].id = order[j].id => i = j
      /\ \A i \in M : order[i].id \in from /\ take[order[i].id] = Take(order, qty, i)
  BY <1>q, TakenIs
<1>4. \A id \in from : \E i \in M : id = order[i].id BY DEF DrawnFrom
<1>5. DOMAIN Left(L) = Ids(L) /\ DOMAIN Acquired(L) = Ids(L) /\ DOMAIN take = from
  BY DEF Left, Acquired, Taken
<1>6. /\ LotsOK(A)
      /\ \A m \in A :
           \/ m \in L /\ \A i \in 1 .. n : order[i].id = m.id => Take(order, qty, i) = 0
           \/ \E i \in 1 .. n : 0 < Take(order, qty, i) /\ m = SoldLot(order, qty, i)
  BY <1>q, AfterSaleFx
<1>7. Ids(A) = Ids(L) BY <1>q, SaleIds
<1> HIDE DEF A, from, take, M
<1>8. \A i \in M : i \in 1 .. n /\ Left(L)[order[i].id] = order[i].remaining /\ order[i].id \in Ids(L)
  BY <1>1, LotFound
<1>9. from \subseteq Ids(L) /\ \A id \in from : take[id] \in 1 .. qty /\ take[id] <= Left(L)[id]
  <2>1. ASSUME NEW id \in from PROVE id \in Ids(L) /\ take[id] \in 1 .. qty /\ take[id] <= Left(L)[id]
    <3>1. PICK i \in M : id = order[i].id BY <1>4
    <3>2. take[id] = Take(order, qty, i) /\ i \in 1 .. n BY <1>3, <1>8, <3>1
    <3>3. Take(order, qty, i) \in Nat /\ Take(order, qty, i) > 0 /\ Take(order, qty, i) <= qty
          /\ Take(order, qty, i) <= order[i].remaining
      BY <1>1, <1>2, <3>2
    <3> QED BY <1>8, <3>1, <3>2, <3>3
  <2> QED BY <2>1
<1>10. ASSUME NEW id \in Ids(L)
       PROVE  /\ Left(A)[id] = Left(L)[id] - (IF id \in from THEN take[id] ELSE 0)
              /\ Acquired(A)[id] = Acquired(L)[id]
  <2>1. PICK m \in A : m.id = id BY <1>7 DEF Ids
  <2>2. Left(A)[id] = m.remaining /\ Acquired(A)[id] = m.initial BY <1>6, <2>1, LotFound
  <2>3. CASE m \in L /\ \A i \in 1 .. n : order[i].id = m.id => Take(order, qty, i) = 0
    <3>1. Left(L)[id] = m.remaining /\ Acquired(L)[id] = m.initial BY <2>1, <2>3, LotFound
    <3>2. id \notin from
      <4> SUFFICES ASSUME id \in from PROVE FALSE OBVIOUS
      <4>1. PICK i \in M : id = order[i].id BY <1>4
      <4> QED BY <1>1, <2>1, <2>3, <4>1
    <3>3. m.remaining \in Int BY <1>6, <2>1 DEF LotsOK, LotOK, TaxLot
    <3> QED BY <2>2, <3>1, <3>2, <3>3
  <2>4. CASE \E i \in 1 .. n : 0 < Take(order, qty, i) /\ m = SoldLot(order, qty, i)
    <3>1. PICK i \in 1 .. n : 0 < Take(order, qty, i) /\ m = SoldLot(order, qty, i) BY <2>4
    <3>2. /\ m.id = order[i].id /\ m.initial = order[i].initial
          /\ m.remaining = order[i].remaining - Take(order, qty, i)
      BY <1>1, <3>1, SoldLotFx
    <3>3. i \in M BY <1>1, <3>1
    <3>4. id \in from /\ take[id] = Take(order, qty, i) BY <1>3, <2>1, <3>2, <3>3
    <3>5. Left(L)[id] = order[i].remaining /\ Acquired(L)[id] = order[i].initial
      BY <1>1, <2>1, <3>2, LotFound
    <3> QED BY <2>2, <3>2, <3>4, <3>5
  <2> QED BY <1>6, <2>3, <2>4
<1>11. Left(A) = [id \in Ids(A) |-> Left(A)[id]] /\ Acquired(A) = [id \in Ids(A) |-> Acquired(A)[id]]
       /\ Acquired(L) = [id \in Ids(L) |-> Acquired(L)[id]]
  BY DEF Left, Acquired
<1>12. Left(A) = [id \in Ids(L) |-> Left(L)[id] - (IF id \in from THEN take[id] ELSE 0)]
  BY <1>7, <1>10, <1>11
<1>13. Acquired(A) = Acquired(L) BY <1>7, <1>10, <1>11
<1>14. take = [id \in from |-> take[id]] BY <1>5 DEF take, Taken, from
<1>15. take \in [from -> 1 .. qty] BY <1>9, <1>14
<1>16. Left(A) = [id \in DOMAIN Left(L) |-> Left(L)[id] - (IF id \in from THEN take[id] ELSE 0)]
  BY <1>5, <1>12
<1> QED BY <1>5, <1>9, <1>13, <1>15, <1>16 DEF A, from, take

\* What a sale takes adds up to what the lots yield.
LEMMA TakenSum ==
  ASSUME NEW L, LotsOK(L), NEW method, NEW order, NEW n, Ordering(L, order, n, method),
         NEW qty \in Nat
  PROVE  SumFunction(Taken(order, qty)) =
           SumOn([i \in 1 .. n |-> Take(order, qty, i)], Matched(order, qty))
<1> DEFINE t == Taken(order, qty)
           M == Matched(order, qty)
           k == [i \in 1 .. n |-> Take(order, qty, i)]
           b == [i \in M |-> order[i].id]
<1>1. n \in Nat BY DEF Ordering
<1>2. M = {i \in 1 .. n : Take(order, qty, i) > 0} BY Takes
<1>3. \A i \in 1 .. n : Take(order, qty, i) \in Nat BY Takes
<1>4. IsFiniteSet(M)
  <2>1. IsFiniteSet(1 .. n) BY <1>1, FS_Interval
  <2>2. M \subseteq 1 .. n BY <1>2
  <2> QED BY <2>1, <2>2, FS_Subset
<1>5. /\ \A i, j \in M : order[i].id = order[j].id => i = j
      /\ \A i \in M : t[order[i].id] = Take(order, qty, i)
  BY TakenIs
<1>6. DrawnFrom(order, qty) = {b[i] : i \in M} BY DEF DrawnFrom
<1>7. \A i, j \in M : b[i] = b[j] => i = j BY <1>5
<1>8. \A i \in M : k[i] \in Int /\ t[b[i]] = k[i]
  <2> SUFFICES ASSUME NEW i \in M PROVE k[i] \in Int /\ t[b[i]] = k[i] OBVIOUS
  <2>1. i \in 1 .. n /\ b[i] = order[i].id BY <1>2
  <2>2. k[i] = Take(order, qty, i) BY <2>1
  <2>3. t[b[i]] = Take(order, qty, i) BY <1>5, <2>1
  <2>4. Take(order, qty, i) \in Nat BY <1>3, <2>1
  <2> HIDE DEF k, t, b
  <2> QED BY <2>2, <2>3, <2>4
<1>9. t = [id \in DrawnFrom(order, qty) |-> t[id]] BY DEF Taken
<1>10. SumFunction(t) = SumOn(t, DrawnFrom(order, qty)) BY <1>9 DEF SumOn
<1> HIDE DEF t, M, k, b
<1>11. SumOn(t, {b[i] : i \in M}) = SumOn(k, M) BY <1>4, <1>7, <1>8, SumImage
<1> QED BY <1>6, <1>10, <1>11 DEF t, k, M

\* A sale that writes dispositions goes on record with what it took.
LEMMA RecordSeen ==
  ASSUME NEW L, LotsOK(L), NEW method, NEW order, NEW n, Ordering(L, order, n, method),
         NEW qty \in Nat, NEW sale \in TxIds, NEW D, sale \notin Sales(D), KeyedIn(D),
         Matched(order, qty) # {}
  PROVE  LET E == D \cup Dispositions(order, qty, sale, method)
         IN  /\ KeyedIn(E)
             /\ sale \notin DOMAIN Drawn(D) /\ sale \in DOMAIN Drawn(E)
             /\ Drawn(E) = Book!With(Drawn(D), sale, Taken(order, qty))
<1> DEFINE N == Dispositions(order, qty, sale, method)
           E == D \cup N
           M == Matched(order, qty)
           row(i) == SoldRow(order, qty, sale, method, i)
<1>1. N = {row(i) : i \in M} BY DEF Dispositions, SoldRow
<1>2. \A i \in M : row(i).sale = sale /\ row(i).lot = order[i].id /\ row(i).qty = Take(order, qty, i)
  BY DEF SoldRow
<1>3. /\ \A i, j \in M : order[i].id = order[j].id => i = j
      /\ \A i \in M : Taken(order, qty)[order[i].id] = Take(order, qty, i)
  BY TakenIs
<1>4. \A d \in N : d.sale = sale BY <1>1, <1>2
<1>5. \A d \in D : d.sale # sale BY DEF Sales
<1>6. \A d, e \in N : d.lot = e.lot => d = e BY <1>1, <1>2, <1>3
<1>7. KeyedIn(E) BY <1>4, <1>5, <1>6 DEF KeyedIn
<1>8. Sales(E) = Sales(D) \cup {sale}
  <2>1. PICK i \in M : TRUE OBVIOUS
  <2>2. row(i) \in N BY <1>1
  <2> QED BY <1>4, <2>2 DEF Sales
<1>9. DOMAIN Drawn(D) = Sales(D) /\ DOMAIN Drawn(E) = Sales(E) BY DEF Drawn
<1>10. Drawn(E)[sale] = Taken(order, qty)
  <2>1. DrawnOn(E, sale) = DrawnFrom(order, qty)
    <3>1. {e \in E : e.sale = sale} = N BY <1>4, <1>5
    <3>2. {d.lot : d \in N} = {order[i].id : i \in M} BY <1>1, <1>2
    <3> QED BY <3>1, <3>2 DEF DrawnOn, DrawnFrom
  <2>2. ASSUME NEW id \in DrawnFrom(order, qty)
        PROVE  (CHOOSE d \in E : d.sale = sale /\ d.lot = id).qty = Taken(order, qty)[id]
    <3>1. PICK i \in M : id = order[i].id BY DEF DrawnFrom
    <3>2. row(i) \in E /\ row(i).sale = sale /\ row(i).lot = id BY <1>1, <1>2, <3>1
    <3> DEFINE d == CHOOSE x \in E : x.sale = sale /\ x.lot = id
    <3>3. d \in E /\ d.sale = sale /\ d.lot = id BY <3>2
    <3> HIDE DEF d, E, row
    <3>4. d = row(i) BY <1>7, <3>2, <3>3 DEF KeyedIn
    <3> QED BY <1>2, <1>3, <3>1, <3>4 DEF d
  <2>3. Drawn(E)[sale] = [id \in DrawnOn(E, sale) |-> (CHOOSE d \in E : d.sale = sale /\ d.lot = id).qty]
    BY <1>8 DEF Drawn
  <2>4. Taken(order, qty) = [id \in DrawnFrom(order, qty) |-> Taken(order, qty)[id]] BY DEF Taken
  <2> HIDE DEF E
  <2> QED BY <2>1, <2>2, <2>3, <2>4
<1>11. ASSUME NEW s \in Sales(D) PROVE Drawn(E)[s] = Drawn(D)[s]
  <2>1. s # sale OBVIOUS
  <2>2. {e \in E : e.sale = s} = {e \in D : e.sale = s} BY <1>4, <2>1
  <2>3. DrawnOn(E, s) = DrawnOn(D, s) BY <2>2 DEF DrawnOn
  <2>4. ASSUME NEW id \in DrawnOn(D, s)
        PROVE  (CHOOSE d \in E : d.sale = s /\ d.lot = id) = (CHOOSE d \in D : d.sale = s /\ d.lot = id)
    <3> DEFINE d1 == CHOOSE d \in D : d.sale = s /\ d.lot = id
               d2 == CHOOSE d \in E : d.sale = s /\ d.lot = id
    <3>1. \E d \in D : d.sale = s /\ d.lot = id BY DEF DrawnOn
    <3>2. d1 \in D /\ d1.sale = s /\ d1.lot = id BY <3>1
    <3>3. d2 \in E /\ d2.sale = s /\ d2.lot = id BY <3>1
    <3> HIDE DEF d1, d2
    <3>4. d1 \in E BY <3>2
    <3> HIDE DEF E
    <3> QED BY <1>7, <3>2, <3>3, <3>4 DEF KeyedIn, d1, d2
  <2> HIDE DEF E
  <2>5. Drawn(E)[s] = [id \in DrawnOn(E, s) |-> (CHOOSE d \in E : d.sale = s /\ d.lot = id).qty]
    BY <1>8 DEF Drawn
  <2>6. Drawn(D)[s] = [id \in DrawnOn(D, s) |-> (CHOOSE d \in D : d.sale = s /\ d.lot = id).qty]
    BY DEF Drawn
  <2> QED BY <2>3, <2>4, <2>5, <2>6
<1>12. Drawn(E) = [s \in Sales(E) |-> Drawn(E)[s]] BY DEF Drawn
<1> HIDE DEF E
<1>13. Drawn(E) = Book!With(Drawn(D), sale, Taken(order, qty))
  BY <1>8, <1>9, <1>10, <1>11, <1>12 DEF Book!With
<1> QED BY <1>7, <1>8, <1>9, <1>13 DEF E

\* A request's quantity is one of those asked for.
LEMMA QtysStep == ASSUME IInv, QtysOK, [Next]_vars PROVE QtysOK'
<1>0. req \in [Clients -> Call] BY DEF IInv, TypeOK
<1>1. ASSUME NEW c \in Clients, NEW r, Hold(c, r),
             r.pc \in {"buy", "sell", "create", "lock", "add"} => r.row.qty \in Qtys
      PROVE  QtysOK'
  <2>1. req'[c] = r /\ \A e \in Clients : e # c => req'[e] = req[e] BY <1>0, <1>1 DEF Hold
  <2> QED BY <1>1, <2>1 DEF QtysOK, Recording
<1>2. ASSUME NEW c \in Clients, Reply(c) PROVE QtysOK'
  <2>1. Hold(c, Idle) /\ Idle.pc = "idle" BY <1>2 DEF Reply, Idle
  <2> HIDE DEF Idle
  <2> QED BY <1>1, <2>1
<1>3. ASSUME NEW type, NEW prices, NEW row \in NewRows(type, prices) PROVE row.qty \in Qtys
  BY DEF NewRows
<1>4. ASSUME NEW c \in Clients, StartBuy(c) PROVE QtysOK'
  <2>1. PICK row \in NewRows("BUY", Prices \ {0}) :
        /\ Valid(row)
        /\ Hold(c, [pc |-> "buy", row |-> row, pos |-> position])
    BY <1>4 DEF StartBuy
  <2> DEFINE r == [pc |-> "buy", row |-> row, pos |-> position]
  <2>2. Hold(c, r) /\ r.row.qty \in Qtys BY <1>3, <2>1
  <2> HIDE DEF r
  <2> QED BY <1>1, <2>2
<1>5. ASSUME NEW c \in Clients, StartSell(c) PROVE QtysOK'
  <2>1. PICK row \in NewRows("SELL", Prices \ {0}) :
          /\ row.qty <= position.qty /\ Valid(row)
          /\ Hold(c, [pc |-> "sell", row |-> row, pos |-> position])
    BY <1>5 DEF StartSell
  <2> DEFINE r == [pc |-> "sell", row |-> row, pos |-> position]
  <2>2. Hold(c, r) /\ r.row.qty \in Qtys BY <1>3, <2>1
  <2> HIDE DEF r
  <2> QED BY <1>1, <2>2
<1>6. ASSUME NEW c \in Clients, StartAdd(c) PROVE QtysOK'
  <2>0. nextId \in 1 .. MaxTx BY <1>6, MaxTxAssumption DEF StartAdd, StartRecording, IInv, TypeOK
  <2>1. PICK row \in Transaction :
          /\ row.qty \in Qtys
          /\ Hold(c, [pc |-> IF holding.exists THEN "lock" ELSE "create",
                      row |-> row, holding |-> holding, pos |-> NoPosition])
    BY <1>6, <2>0, StartAddRow
  <2> DEFINE r == [pc |-> IF holding.exists THEN "lock" ELSE "create",
                   row |-> row, holding |-> holding, pos |-> NoPosition]
  <2>2. Hold(c, r) /\ r.row.qty \in Qtys BY <2>1
  <2> HIDE DEF r
  <2> QED BY <1>1, <2>2
<1>7. ASSUME NEW c \in Clients, LockHolding(c) PROVE QtysOK'
  <2> DEFINE r == [req[c] EXCEPT !.pc = "add", !.pos = position]
  <2>1. Hold(c, r) /\ req[c].pc = "lock" /\ req[c] \in Call BY <1>0, <1>7 DEF LockHolding, At
  <2>2. r.row = req[c].row BY <2>1 DEF Call
  <2>3. r.row.qty \in Qtys BY <2>1, <2>2 DEF QtysOK, Recording
  <2> HIDE DEF r
  <2> QED BY <1>1, <2>1, <2>3
<1>8. ASSUME NEW c \in Clients, StartDelete(c) \/ ReplayHistory(c) \/ StartUpdate(c) PROVE QtysOK'
  <2>1. \E r : Hold(c, r) /\ r.pc \in {"replay", "delete", "update"}
    <3>1. CASE StartDelete(c)
      <4>1. PICK t \in txs : Hold(c, [pc |-> "replay", target |-> t.id, pos |-> position])
        BY <3>1 DEF StartDelete
      <4> QED BY <4>1
    <3>2. CASE ReplayHistory(c)
      <4>1. PICK h : Hold(c, [pc |-> "delete", target |-> req[c].target, replay |-> Replay(req[c].pos, h)])
        BY <3>2 DEF ReplayHistory
      <4> QED BY <4>1
    <3>3. CASE StartUpdate(c)
      <4>1. PICK row \in Transaction : Hold(c, [pc |-> "update", row |-> row])
        BY <3>3, EditedRow DEF IInv, TypeOK
      <4> QED BY <4>1
    <3> QED BY <1>8, <3>1, <3>2, <3>3
  <2> QED BY <1>1, <2>1
<1>9. CASE UNCHANGED vars BY <1>9 DEF vars, QtysOK, Recording
<1> QED
  BY <1>2, <1>4, <1>5, <1>6, <1>7, <1>8, <1>9
  DEF Next, CommitBuy, CommitSell, CommitDelete, CommitUpdate, CommitCreate, CommitAdd, RollBack

\* Every row a call adds to the lots is a purchase of its own.
LEMMA PurchaseSeen ==
  ASSUME IInv, QtysOK, NEW c \in Clients, Recording(c),
         lots' = lots \cup {LotOf(req[c].row)}, disps' = disps
  PROVE  Book!Next
<1> DEFINE row == req[c].row
<1>1. row \in Transaction /\ row.id \notin Ids(lots) /\ LotsOK(lots)
  BY AtCommit DEF RowsOK
<1>2. row.id \in TxIds /\ row.qty \in Qtys BY <1>1 DEF Transaction, QtysOK
<1> HIDE DEF row
<1>3. /\ row.id \notin DOMAIN Acquired(lots)
      /\ Acquired(lots \cup {LotOf(row)}) = Book!With(Acquired(lots), row.id, row.qty)
      /\ Left(lots \cup {LotOf(row)}) = Book!With(Left(lots), row.id, row.qty)
  BY <1>1, AcquireSeen
<1>4. lots' = lots \cup {LotOf(row)} BY DEF row
<1>5. Acquired(lots)' = Acquired(lots') /\ Left(lots)' = Left(lots') /\ Drawn(disps)' = Drawn(disps)
  BY DEF Acquired, Left, Drawn, Ids, LotById, Sales, DrawnOn
<1>6. Book!Acquire(row.id, row.qty) BY <1>3, <1>4, <1>5 DEF Book!Acquire
<1> QED BY <1>2, <1>6 DEF Book!Next

\* The book sums as the ledger does.
LEMMA TotalIs == ASSUME NEW f PROVE Book!SumFunction(f) = SumFunction(f)
BY DEF Book!SumFunction, Book!SumFunctionOnSet, Book!FoldFunctionOnSet, Book!MapThenFoldSet,
       SumFunction, SumFunctionOnSet, FoldFunctionOnSet, MapThenFoldSet

\* What a committed sale writes.
LEMMA SaleStep ==
  ASSUME BookInv, NEW c \in Clients, CommitSell(c)
  PROVE  KeyedIn(disps') /\ (Book!Next \/ UNCHANGED <<lots, disps>>)
<1> DEFINE row == req[c].row
           qty == row.qty
           open == FindOpen(lots)
           n == Cardinality(open)
<1>1. /\ Recording(c) /\ req[c].pc = "sell" /\ CanCommit(req[c])
      /\ IInv /\ QtysOK /\ KeyedIn(disps)
  BY DEF CommitSell, At, Recording, BookInv
<1>2. LotsOK(lots) /\ row \in Transaction /\ row.id \notin Sales(disps)
  BY <1>1, AtCommit DEF RowsOK
<1>3. open # {} => Available(open) >= qty BY <1>1 DEF CanCommit
<1>4. PICK order \in SaleOrders(open, Method) :
        /\ lots' = AfterSale(lots, order, qty)
        /\ disps' = disps \cup Dispositions(order, qty, row.id, Method)
  BY DEF CommitSell
<1>5. row.id \in TxIds /\ qty \in Nat \ {0} /\ qty \in Qtys BY <1>1, <1>2 DEF Transaction, QtysOK
<1>6. Ordering(lots, order, n, Method) /\ Lists(order, open, n, Method)
  BY <1>2, <1>4, OrderingOfSale, OrderListsOpen
<1> HIDE DEF row, qty, n
<1>7. CASE open = {}
  <2>1. Matched(order, qty) = {}
    <3>1. n = 0 BY <1>7, FS_EmptySet DEF n
    <3>2. Matched(order, qty) = {i \in 1 .. n : Take(order, qty, i) > 0}
      <4>1. qty \in Nat BY <1>5
      <4> QED BY <1>2, <1>6, <4>1, Takes
    <3> QED BY <3>1, <3>2
  <2>2. AfterSale(lots, order, qty) = lots /\ Dispositions(order, qty, row.id, Method) = {}
    BY <2>1 DEF AfterSale, Dispositions
  <2> QED BY <1>1, <1>4, <2>2
<1>8. CASE open # {}
  <2> DEFINE from == DrawnFrom(order, qty)
             take == Taken(order, qty)
             A == AfterSale(lots, order, qty)
             E == disps \cup Dispositions(order, qty, row.id, Method)
  <2>q. qty \in Nat BY <1>5
  <2>1. Matched(order, qty) # {} BY <1>2, <1>3, <1>4, <1>5, <1>8, SaleTakes
  <2>2. /\ KeyedIn(E)
        /\ row.id \notin DOMAIN Drawn(disps) /\ row.id \in DOMAIN Drawn(E)
        /\ Drawn(E) = Book!With(Drawn(disps), row.id, take)
    BY <1>1, <1>2, <1>5, <1>6, <2>q, <2>1, RecordSeen
  <2>3. /\ from \in SUBSET DOMAIN Left(lots)
        /\ take \in [from -> 1 .. qty]
        /\ \A id \in from : take[id] <= Left(lots)[id]
        /\ Left(A) = [id \in DOMAIN Left(lots) |->
                        Left(lots)[id] - (IF id \in from THEN take[id] ELSE 0)]
        /\ Acquired(A) = Acquired(lots)
    BY <1>2, <1>5, <1>6, SaleSeen
  <2>4. SumFunction(take) = qty
    <3>1. SumFunction(take) = SumOn([i \in 1 .. n |-> Take(order, qty, i)], Matched(order, qty))
      BY <1>2, <1>6, <2>q, TakenSum
    <3>2. SumOn([i \in 1 .. n |-> Take(order, qty, i)], Matched(order, qty)) =
            IF qty <= Before(order, n, n + 1) THEN qty ELSE Before(order, n, n + 1)
      BY <1>2, <1>6, <2>q, PrefixTaken
    <3>3. Before(order, n, n + 1) = Available(open) BY <1>2, <1>6, OpenSum
    <3>4. Before(order, n, n + 1) \in Nat
      <4>1. \A i \in 1 .. n : order[i].remaining \in Nat BY <1>2, <1>6, <2>q, Takes
      <4>2. n \in Nat BY <1>6 DEF Ordering
      <4>3. \A k \in 1 .. n + 1 : Before(order, n, k) \in Nat BY <4>1, <4>2, BeforeFx
      <4> QED BY <4>2, <4>3
    <3> DEFINE all == Before(order, n, n + 1)
    <3>5. all >= qty BY <1>3, <1>8, <3>3
    <3> HIDE DEF all, take
    <3>6. all \in Nat BY <3>4 DEF all
    <3>7. SumFunction(take) = IF qty <= all THEN qty ELSE all BY <3>1, <3>2 DEF all
    <3> QED BY <2>q, <3>5, <3>6, <3>7
  <2>5. Acquired(lots)' = Acquired(lots') /\ Left(lots)' = Left(lots') /\ Drawn(disps)' = Drawn(disps')
    BY DEF Acquired, Left, Drawn, Ids, LotById, Sales, DrawnOn
  <2>6. lots' = A /\ disps' = E BY <1>4
  <2> HIDE DEF from, take, A, E
  <2>7. Book!SumFunction(take) = qty BY <2>4, TotalIs
  <2>8. Book!Sell(row.id, qty) BY <2>2, <2>3, <2>5, <2>6, <2>7 DEF Book!Sell
  <2> QED BY <1>5, <2>2, <2>6, <2>8 DEF Book!Next
<1> QED BY <1>7, <1>8

\* The invariant holds at first and every step keeps it.
LEMMA BookInvInit == Init => BookInv
<1> SUFFICES ASSUME Init PROVE BookInv OBVIOUS
<1>1. req = [c \in Clients |-> Idle] /\ Idle.pc = "idle" /\ disps = {} BY DEF Init, Idle
<1>2. \A c \in Clients : req[c].pc = "idle" BY <1>1
<1>3. QtysOK BY <1>2 DEF QtysOK, Recording
<1>4. KeyedIn(disps) BY <1>1 DEF KeyedIn
<1> QED BY <1>3, <1>4, InitInv DEF BookInv

LEMMA BookInvStep == BookInv /\ [Next]_vars => BookInv'
<1> SUFFICES ASSUME BookInv, [Next]_vars PROVE BookInv' OBVIOUS
<1>1. IInv' BY NextInv DEF BookInv
<1>2. QtysOK' BY QtysStep DEF BookInv
<1>3. KeyedIn(disps')
  <2>1. CASE disps' = disps BY <2>1 DEF BookInv
  <2>2. CASE disps' # disps
    <3>1. PICK c \in Clients : CommitSell(c) BY <2>2, NewDisps
    <3> QED BY <3>1, SaleStep
  <2> QED BY <2>1, <2>2
<1>4. KeyedIn(disps)' BY <1>3 DEF KeyedIn
<1> QED BY <1>1, <1>2, <1>4 DEF BookInv

\* Every step writes the book forward or leaves it alone.
LEMMA BookStep == BookInv /\ [Next]_vars => [Book!Next]_(Book!vars)
<1> SUFFICES ASSUME BookInv, [Next]_vars PROVE Book!Next \/ UNCHANGED Book!vars OBVIOUS
<1>1. ASSUME UNCHANGED <<lots, disps>> PROVE UNCHANGED Book!vars
  BY <1>1 DEF Book!vars, Acquired, Left, Drawn, Ids, LotById, Sales, DrawnOn
<1>2. ASSUME NEW c \in Clients, Recording(c), lots' = lots \cup {LotOf(req[c].row)}, disps' = disps
      PROVE  Book!Next
  BY <1>2, PurchaseSeen DEF BookInv
<1>3. ASSUME NEW c \in Clients, CommitBuy(c) PROVE Book!Next
  BY <1>2, <1>3 DEF CommitBuy, At, Recording
<1>4. ASSUME NEW c \in Clients, CommitCreate(c) \/ CommitAdd(c) PROVE Book!Next \/ UNCHANGED <<lots, disps>>
  BY <1>2, <1>4 DEF CommitCreate, CommitAdd, At, Recording
<1>5. ASSUME NEW c \in Clients, CommitSell(c) PROVE Book!Next \/ UNCHANGED <<lots, disps>>
  BY <1>5, SaleStep
<1>6. ASSUME NEW c \in Clients,
             \/ StartBuy(c) \/ StartSell(c) \/ StartAdd(c)
             \/ StartDelete(c) \/ ReplayHistory(c) \/ CommitDelete(c)
             \/ StartUpdate(c) \/ CommitUpdate(c) \/ LockHolding(c) \/ RollBack(c)
      PROVE  UNCHANGED <<lots, disps>>
  BY <1>6 DEF StartRecording, StartBuy, StartSell, StartAdd, StartDelete, ReplayHistory, CommitDelete,
              StartUpdate, CommitUpdate, LockHolding, RollBack
<1>7. CASE UNCHANGED vars BY <1>1, <1>7 DEF vars
<1>8. CASE Next
  <2>1. Book!Next \/ UNCHANGED <<lots, disps>> BY <1>3, <1>4, <1>5, <1>6, <1>8 DEF Next
  <2> QED BY <1>1, <2>1
<1> QED BY <1>7, <1>8

\* Whatever calls overlap, the tax lots and their dispositions are a book that
\* is only written forward: each lot acquired once and whole, each sale
\* matched once and whole, nothing rewritten by a deletion or an edit
\* (transaction_service.go, portfolio.go).
THEOREM KeepsLotBook == Spec => ImplementsLotBook
<1>1. Init => Book!Init
  <2> SUFFICES ASSUME Init PROVE Book!Init OBVIOUS
  <2>1. lots = {} /\ disps = {} BY DEF Init
  <2>2. Ids({}) = {} /\ Sales({}) = {} BY DEF Ids, Sales
  <2>3. Acquired(lots) = [x \in {} |-> 0] /\ Left(lots) = [x \in {} |-> 0] /\ Drawn(disps) = [x \in {} |-> 0]
    BY <2>1, <2>2 DEF Acquired, Left, Drawn
  <2> QED BY <2>3 DEF Book!Init, Book!Nothing
<1> QED BY <1>1, BookInvInit, BookInvStep, BookStep, PTL DEF Spec, ImplementsLotBook, Book!Spec

-----------------------------------------------------------------------------
(* What the methods promise about cost. *)

\* Under FIFO whoever has sold everything has been charged what he paid, to
\* within half a cent for each disposition.
LEMMA AllSoldAllCharged ==
  ASSUME RowsOK(txs, lots, disps), Priced(lots, disps)
  PROVE  FullSaleRecoversCost
<1> DEFINE paid == [l \in lots |-> l.initial * l.unit]
           class == [l \in lots |-> SoldFrom(l, disps)]
           unit == [d \in disps |-> (CHOOSE l \in lots : l.id = d.lot).unit]
           g == [d \in disps |-> d.qty * unit[d]]
           bought == SumOver(lots, LAMBDA l : l.initial * l.unit)
           charged == SumOver(disps, LAMBDA d : d.cost)
<1>1. SUFFICES ASSUME \A l \in lots : l.remaining = 0
               PROVE  charged * Cent - bought \in -(Cardinality(disps) * Cent) .. Cardinality(disps) * Cent
  BY DEF FullSaleRecoversCost
<1>2. /\ IsFiniteSet(lots) /\ IsFiniteSet(disps) /\ disps \subseteq Disposition
      /\ {d.lot : d \in disps} \subseteq Ids(lots) /\ lots \subseteq TaxLot
      /\ \A l, m \in lots : l.id = m.id => l = m
  BY DEF RowsOK, LotsOK, LotOK
<1>3. \A l \in lots : l.unit \in Nat /\ l.initial \in Nat /\ l.remaining = 0 BY <1>1, <1>2 DEF TaxLot
<1>4. \A d \in disps, l \in lots : d.lot = l.id => unit[d] = l.unit BY <1>2
<1>5. \A d \in disps : \E l \in lots : l.id = d.lot BY <1>2 DEF Ids
<1>6. \A d \in disps : DispCost[d] = d.cost /\ d.qty \in Nat BY <1>2 DEF DispCost, Disposition
<1>7. charged = SumOn(DispCost, disps) BY <1>2, ChargedIs
<1>8. bought = SumOn(paid, lots)
  <2>1. [l \in lots |-> l.initial * l.unit] = [l \in lots |-> paid[l]] OBVIOUS
  <2> QED BY <2>1 DEF SumOver, SumOn
<1>9. \A d \in disps : g[d] = d.qty * unit[d] OBVIOUS
<1>10. \A l \in lots : paid[l] = l.initial * l.unit /\ class[l] = SoldFrom(l, disps) OBVIOUS
<1> HIDE DEF paid, class, unit, g, bought, charged
<1>11. \A d \in disps : g[d] \in Nat /\ DispCost[d] = RoundDiv(g[d], Cent)
  <2> SUFFICES ASSUME NEW d \in disps PROVE g[d] \in Nat /\ DispCost[d] = RoundDiv(g[d], Cent) OBVIOUS
  <2>1. PICK l \in lots : l.id = d.lot BY <1>5
  <2>2. g[d] = d.qty * l.unit BY <1>4, <1>9, <2>1
  <2>3. g[d] \in Nat BY <1>3, <1>6, <2>2, TimesNat
  <2> QED BY <1>6, <2>1, <2>2, <2>3 DEF Priced
<1>12. \A l \in lots : class[l] \subseteq disps BY <1>10 DEF SoldFrom
<1>13. \A l, m \in lots : l # m => class[l] \cap class[m] = {} BY <1>2, <1>10 DEF SoldFrom
<1>14. UNION {class[l] : l \in lots} = disps
  <2>1. ASSUME NEW d \in disps PROVE d \in UNION {class[l] : l \in lots}
    <3>1. PICK l \in lots : l.id = d.lot BY <1>5
    <3> QED BY <1>10, <3>1 DEF SoldFrom
  <2> QED BY <1>12, <2>1
<1>15. \A l \in lots : paid[l] = SumOn(g, class[l])
  <2> SUFFICES ASSUME NEW l \in lots PROVE paid[l] = SumOn(g, class[l]) OBVIOUS
  <2> DEFINE S == class[l]
             u == l.unit
             q == SumOn(DispQty, S)
  <2>1. S \subseteq disps /\ IsFiniteSet(S) BY <1>2, <1>12, FS_Subset
  <2>2. \A d \in S : DispQty[d] \in Int /\ g[d] = u * DispQty[d]
    <3> SUFFICES ASSUME NEW d \in S PROVE DispQty[d] \in Int /\ g[d] = u * DispQty[d] OBVIOUS
    <3>1. d \in disps /\ d.lot = l.id BY <1>10, <2>1 DEF SoldFrom
    <3>2. DispQty[d] = d.qty BY <1>2, <3>1 DEF DispQty
    <3>3. g[d] = d.qty * u BY <1>4, <1>9, <3>1
    <3> QED BY <1>3, <1>6, <3>1, <3>2, <3>3
  <2>3. l.initial = q
    <3>1. l.initial = l.remaining + SumOn(DispQty, SoldFrom(l, disps)) BY DEF RowsOK, Conserved
    <3>2. q \in Int BY <2>1, <2>2, SumOnInt
    <3>3. l.initial = l.remaining + q BY <1>10, <3>1
    <3> HIDE DEF q
    <3> QED BY <1>3, <3>2, <3>3
  <2>4. u \in Int BY <1>3
  <2> HIDE DEF S, u
  <2>5. SumOn(g, S) = u * q BY <2>1, <2>2, <2>4, SumScale
  <2>6. paid[l] = q * u BY <1>10, <2>3 DEF u
  <2>7. q \in Int BY <2>1, <2>2, SumOnInt
  <2> HIDE DEF q
  <2>8. paid[l] = SumOn(g, S) BY <2>4, <2>5, <2>6, <2>7
  <2> QED BY <2>8 DEF S
<1>16. SumOn(paid, lots) = SumOn(g, disps)
  <2>1. \A d \in disps : g[d] \in Int BY <1>11
  <2>2. SumOn(paid, lots) = SumOn(g, UNION {class[l] : l \in lots})
    BY <1>2, <1>12, <1>13, <1>15, <2>1, SumClasses
  <2> QED BY <1>14, <2>2
<1> DEFINE m == Cardinality(disps) * Cent
           a == SumOn(DispCost, disps) * Cent
           b == SumOn(g, disps)
<1>17. m \in Nat /\ a \in Int /\ b \in Int /\ 2 * (a - b) \in -m .. m
  <2>1. /\ SumOn(DispCost, disps) \in Nat /\ SumOn(g, disps) \in Nat /\ m \in Nat
        /\ 2 * (a - b) \in -m .. m
    BY <1>2, <1>11, RoundedSum
  <2>2. a \in Nat BY <2>1, CentPositive, TimesNat
  <2> QED BY <2>1, <2>2
<1>18. charged * Cent - bought = a - b BY <1>7, <1>8, <1>16
<1> HIDE DEF m, a, b
<1>19. a - b \in -m .. m BY <1>17
<1> QED BY <1>18, <1>19 DEF m

\* FIFO keeps the promise that PMP breaks: with every lot sold, the
\* dispositions report what the lots cost, to within a rounding of each
\* (tax_lot.go, AllocateTaxLots).
THEOREM FifoRecoversCost ==
  ASSUME Method = "FIFO" PROVE Spec => []FullSaleRecoversCost
<1>1. IInv /\ Priced(lots, disps) => FullSaleRecoversCost
  <2>1. IInv => RowsOK(txs, lots, disps) BY Whole
  <2> QED BY <2>1, AllSoldAllCharged
<1> QED BY <1>1, AlwaysPriced, PTL

\* Of two ways to take the same number of units, the one that takes more of
\* whatever weighs more than u, and less of what weighs less, weighs more.
LEMMA Exchange ==
  ASSUME NEW S, IsFiniteSet(S), NEW w, NEW a, NEW b, NEW u \in Nat,
         \A x \in S : w[x] \in Nat /\ a[x] \in Nat /\ b[x] \in Nat,
         \A x \in S : w[x] > u => a[x] <= b[x],
         \A x \in S : w[x] < u => b[x] <= a[x],
         SumOn(a, S) = SumOn(b, S)
  PROVE  SumOn([x \in S |-> a[x] * w[x]], S) <= SumOn([x \in S |-> b[x] * w[x]], S)
<1> DEFINE aw == [x \in S |-> a[x] * w[x]]
           bw == [x \in S |-> b[x] * w[x]]
           au == [x \in S |-> u * a[x]]
           bu == [x \in S |-> u * b[x]]
           low == [x \in S |-> aw[x] + bu[x]]
           high == [x \in S |-> bw[x] + au[x]]
<1>1. \A x \in S : aw[x] \in Nat /\ bw[x] \in Nat /\ au[x] \in Nat /\ bu[x] \in Nat BY TimesNat
<1>2. \A x \in S : low[x] <= high[x]
  <2> SUFFICES ASSUME NEW x \in S PROVE a[x] * w[x] + u * b[x] <= b[x] * w[x] + u * a[x] OBVIOUS
  <2>1. /\ w[x] \in Nat /\ a[x] \in Nat /\ b[x] \in Nat
        /\ w[x] > u => a[x] <= b[x]
        /\ w[x] < u => b[x] <= a[x]
    OBVIOUS
  <2>2. ASSUME NEW v \in Nat, NEW p \in Nat, NEW q \in Nat,
               v > u => p <= q, v < u => q <= p
        PROVE  p * v + u * q <= q * v + u * p
    <3>1. \A d, y, z \in Int : d * y - d * z = d * (y - z) OBVIOUS
    <3>2. CASE p <= q /\ u <= v
      <4>1. (v - u) \in Nat BY <3>2
      <4>2. (v - u) * p <= (v - u) * q BY <3>2, <4>1, TimesLe
      <4>3. (v - u) * p = p * v - u * p /\ (v - u) * q = q * v - u * q OBVIOUS
      <4>4. p * v \in Int /\ u * p \in Int /\ q * v \in Int /\ u * q \in Int OBVIOUS
      <4>5. \A i, j, k, m \in Int : i - j <= k - m => i + m <= k + j OBVIOUS
      <4> QED BY <4>2, <4>3, <4>4, <4>5
    <3>3. CASE q <= p /\ v <= u
      <4>1. (u - v) \in Nat BY <3>3
      <4>2. (u - v) * q <= (u - v) * p BY <3>3, <4>1, TimesLe
      <4>3. (u - v) * p = u * p - p * v /\ (u - v) * q = u * q - q * v OBVIOUS
      <4>4. p * v \in Int /\ u * p \in Int /\ q * v \in Int /\ u * q \in Int OBVIOUS
      <4>5. \A i, j, k, m \in Int : i - j <= k - m => m + i <= j + k OBVIOUS
      <4> QED BY <4>2, <4>3, <4>4, <4>5
    <3> QED BY <2>2, <3>2, <3>3
  <2> QED BY <2>1, <2>2
<1>3. \A x \in S : low[x] \in Int /\ high[x] \in Int /\ low[x] = aw[x] + bu[x] /\ high[x] = bw[x] + au[x]
  BY <1>1
<1>4. \A x \in S : au[x] = u * a[x] /\ bu[x] = u * b[x] /\ a[x] \in Int /\ b[x] \in Int OBVIOUS
<1> HIDE DEF aw, bw, au, bu, low, high
<1>5. SumOn(low, S) <= SumOn(high, S) BY <1>2, <1>3, SumLe
<1>6. SumOn(low, S) = SumOn(aw, S) + SumOn(bu, S) BY <1>1, <1>3, SumPlus
<1>7. SumOn(high, S) = SumOn(bw, S) + SumOn(au, S) BY <1>1, <1>3, SumPlus
<1>8. SumOn(au, S) = u * SumOn(a, S) /\ SumOn(bu, S) = u * SumOn(b, S) BY <1>4, SumScale
<1>9. SumOn(aw, S) \in Int /\ SumOn(bw, S) \in Int /\ SumOn(au, S) \in Int BY <1>1, SumOnInt
<1>10. SumOn(au, S) = SumOn(bu, S) BY <1>8
<1>11. SumOn(aw, S) <= SumOn(bw, S) BY <1>5, <1>6, <1>7, <1>9, <1>10
<1> QED BY <1>11 DEF aw, bw

\* The cost of a sale that charges each lot's own cost, rounded lot by lot.
LEMMA DispositionCost ==
  ASSUME NEW L, LotsOK(L), NEW method, method # "PMP", NEW order, NEW n, Ordering(L, order, n, method),
         NEW qty \in Nat, NEW sale \in TxIds
  PROVE  LET N == Dispositions(order, qty, sale, method)
             exact == SumOn([i \in 1 .. n |-> Take(order, qty, i) * order[i].unit], 1 .. n)
         IN  /\ SumOn(DispCost, N) \in Nat /\ exact \in Nat /\ Cardinality(N) * Cent \in Nat
             /\ 2 * (SumOn(DispCost, N) * Cent - exact) \in -(Cardinality(N) * Cent) .. Cardinality(N) * Cent
<1> DEFINE cost == [i \in 1 .. n |-> Take(order, qty, i) * order[i].unit]
           M == Matched(order, qty)
           row == [i \in M |-> SoldRow(order, qty, sale, method, i)]
           charge == [i \in M |-> RoundDiv(cost[i], Cent)]
<1>1. Dispositions(order, qty, sale, method) = {row[i] : i \in M} BY DEF Dispositions, SoldRow
<1>2. \A i \in 1 .. n : Take(order, qty, i) \in Nat /\ order[i] \in L /\ LotOK(order[i]) BY Takes
<1>3. M = {i \in 1 .. n : Take(order, qty, i) > 0} BY Takes
<1>4. \A i \in 1 .. n : cost[i] \in Nat /\ (i \notin M => cost[i] = 0)
  <2> SUFFICES ASSUME NEW i \in 1 .. n PROVE cost[i] \in Nat /\ (i \notin M => cost[i] = 0)
    OBVIOUS
  <2>1. Take(order, qty, i) \in Nat /\ order[i].unit \in Nat BY <1>2 DEF LotOK, TaxLot
  <2>2. \A k \in Nat : 0 * k = 0 OBVIOUS
  <2>3. i \notin M => Take(order, qty, i) = 0 BY <1>3, <2>1
  <2>4. Take(order, qty, i) * order[i].unit \in Nat BY <2>1, TimesNat
  <2> QED BY <2>1, <2>2, <2>3, <2>4
<1>5. IsFiniteSet(1 .. n) /\ M \subseteq 1 .. n /\ IsFiniteSet(M)
  <2>1. IsFiniteSet(1 .. n) BY FS_Interval DEF Ordering
  <2> QED BY <1>3, <2>1, FS_Subset
<1>6. \A i, j \in M : row[i] = row[j] => i = j
  <2> SUFFICES ASSUME NEW i \in M, NEW j \in M, row[i] = row[j] PROVE i = j OBVIOUS
  <2>1. row[i].lot = order[i].id /\ row[j].lot = order[j].id BY DEF SoldRow
  <2>2. order[i] \in L /\ order[j] \in L /\ order[i].id = order[j].id BY <1>2, <1>5, <2>1
  <2>3. order[i] = order[j] BY <2>2 DEF LotsOK
  <2> QED BY <1>5, <2>3 DEF Ordering
<1>7. \A i \in M : DispCost[row[i]] = charge[i]
  <2> SUFFICES ASSUME NEW i \in M PROVE DispCost[row[i]] = charge[i] OBVIOUS
  <2>1. row[i] = SoldRow(order, qty, sale, method, i) OBVIOUS
  <2>2. SoldRow(order, qty, sale, method, i) \in Disposition BY DispositionsFx
  <2>3. SoldRow(order, qty, sale, method, i).cost = RoundDiv(Take(order, qty, i) * order[i].unit, Cent)
    BY DEF SoldRow, MatchCost
  <2>4. i \in 1 .. n BY <1>5
  <2> QED BY <2>1, <2>2, <2>3, <2>4 DEF DispCost
<1>8. \A i \in M : charge[i] = RoundDiv(cost[i], Cent) OBVIOUS
<1> HIDE DEF cost, row, M, charge
<1> DEFINE N == {row[i] : i \in M}
<1>9. \A i \in M : cost[i] \in Nat /\ charge[i] \in Int
  <2>1. \A i \in M : cost[i] \in Nat BY <1>4, <1>5
  <2>2. \A i \in M : charge[i] \in Nat BY <1>8, <2>1, CentPositive, RoundDivNat
  <2> QED BY <2>1, <2>2
<1>10. SumOn(DispCost, N) = SumOn(charge, M) /\ Cardinality(N) = Cardinality(M)
  <2>1. row \in Bijection(M, N)
    <3>1. row \in [M -> N] /\ \A d \in N : \E i \in M : row[i] = d BY DEF row
    <3> HIDE DEF N
    <3> QED BY <1>6, <3>1 DEF Bijection, Injection, IsInjective, Surjection
  <2>2. IsFiniteSet(M) BY <1>5
  <2> HIDE DEF N
  <2>3. Cardinality(N) = Cardinality(M) BY <2>1, <2>2, FS_Bijection DEF ExistsBijection
  <2> QED BY <1>7, <1>9, <2>1, <2>2, <2>3, SumBijection
<1>11. SumOn(cost, 1 .. n) = SumOn(cost, M)
  <2>1. \A i \in 1 .. n : cost[i] \in Int BY <1>4
  <2>2. \A i \in (1 .. n) \ M : cost[i] = 0 BY <1>4
  <2>3. SumOn(cost, 1 .. n) = SumOn(cost, (1 .. n) \cap M) BY <1>5, <2>1, <2>2, SumSupport
  <2>4. (1 .. n) \cap M = M BY <1>5
  <2> QED BY <2>3, <2>4
<1>12. /\ SumOn(charge, M) \in Nat /\ SumOn(cost, M) \in Nat /\ Cardinality(M) * Cent \in Nat
       /\ 2 * (SumOn(charge, M) * Cent - SumOn(cost, M)) \in -(Cardinality(M) * Cent) .. Cardinality(M) * Cent
  BY <1>5, <1>8, <1>9, RoundedSum
<1> HIDE DEF N
<1>13. Dispositions(order, qty, sale, method) = N BY <1>1 DEF N
<1>14. SumOn([i \in 1 .. n |-> Take(order, qty, i) * order[i].unit], 1 .. n) = SumOn(cost, M)
  BY <1>11 DEF cost
<1> QED BY <1>10, <1>12, <1>13, <1>14

\* The ways to take qty units from the open lots, and what they cost.
Allocations(open, qty) ==
  {a \in [open -> Nat] : (\A l \in open : a[l] <= l.remaining) /\ SumFunction(a) = qty}

CostOfTaking(a, open) == SumOver(open, LAMBDA l : a[l] * l.unit)
CostOfDisposing(D) == SumOver(D, LAMBDA d : d.cost)

\* Dispositions cost in cents what they should to within half a cent for each.
NearExact(D, exact) ==
  /\ CostOfDisposing(D) \in Nat /\ exact \in Nat /\ Cent * Cardinality(D) \in Nat
  /\ 2 * Cent * CostOfDisposing(D) <= 2 * exact + Cent * Cardinality(D)
  /\ 2 * exact <= 2 * Cent * CostOfDisposing(D) + Cent * Cardinality(D)

\* The lots in an order, with what a sale and another way take from each.
LEMMA TwoWays ==
  ASSUME NEW L, LotsOK(L), NEW method, method # "PMP", NEW order \in SaleOrders(FindOpen(L), method),
         NEW qty \in Nat \ {0}, Available(FindOpen(L)) >= qty, NEW sale \in TxIds,
         NEW other \in Allocations(FindOpen(L), qty), NEW n, n = Cardinality(FindOpen(L))
  PROVE  LET w == [i \in 1 .. n |-> order[i].unit]
             a == [i \in 1 .. n |-> other[order[i]]]
             b == [i \in 1 .. n |-> Take(order, qty, i)]
         IN  /\ IsFiniteSet(1 .. n)
             /\ \A i \in 1 .. n : w[i] \in Nat /\ a[i] \in Nat /\ b[i] \in Nat
             /\ SumOn(a, 1 .. n) = SumOn(b, 1 .. n)
             /\ CostOfTaking(other, FindOpen(L)) = SumOn([i \in 1 .. n |-> a[i] * w[i]], 1 .. n)
             /\ CostOfTaking(other, FindOpen(L)) \in Nat
             /\ NearExact(Dispositions(order, qty, sale, method), SumOn([i \in 1 .. n |-> b[i] * w[i]], 1 .. n))
             /\ \E m \in 1 .. n :
                  /\ \A i \in 1 .. n : i < m => a[i] <= b[i]
                  /\ \A i \in 1 .. n : m < i => b[i] <= a[i]
<1> DEFINE open == FindOpen(L)
           w == [i \in 1 .. n |-> order[i].unit]
           a == [i \in 1 .. n |-> other[order[i]]]
           b == [i \in 1 .. n |-> Take(order, qty, i)]
           M == Matched(order, qty)
<1>q. qty \in Nat OBVIOUS
<1>1. Ordering(L, order, n, method) /\ Lists(order, open, n, method)
  BY OrderingOfSale, OrderListsOpen
<1>2. /\ n \in Nat /\ order \in [1 .. n -> open]
      /\ \A i, j \in 1 .. n : order[i] = order[j] => i = j
      /\ \A l \in open : \E i \in 1 .. n : l = order[i]
  BY <1>1 DEF Lists
<1>3. /\ other \in [open -> Nat] /\ \A l \in open : other[l] <= l.remaining
      /\ SumFunction(other) = qty
  BY DEF Allocations
<1>4. /\ \A i \in 1 .. n : LotOK(order[i]) /\ Take(order, qty, i) \in Nat
      /\ M = {i \in 1 .. n : Take(order, qty, i) > 0}
  BY <1>q, <1>1, Takes
<1>5. \A i \in 1 .. n : w[i] \in Nat /\ a[i] \in Nat /\ b[i] \in Nat
  BY <1>2, <1>3, <1>4 DEF LotOK, TaxLot
<1>6. IsFiniteSet(1 .. n) BY <1>2, FS_Interval
<1>7. SumOn(b, 1 .. n) = qty
  <2>1. SumOn(b, M) = IF qty <= Before(order, n, n + 1) THEN qty ELSE Before(order, n, n + 1)
    BY <1>q, <1>1, PrefixTaken
  <2>2. Before(order, n, n + 1) = Available(open) BY <1>1, OpenSum
  <2>3. \A i \in 1 .. n : order[i].remaining \in Nat BY <1>4 DEF LotOK, TaxLot
  <2>4. Before(order, n, n + 1) \in Nat
    <3>1. \A k \in 1 .. n + 1 : Before(order, n, k) \in Nat BY <1>2, <2>3, BeforeFx
    <3> QED BY <1>2, <3>1
  <2>5. \A i \in (1 .. n) \ M : b[i] = 0 BY <1>4
  <2>6. \A i \in 1 .. n : b[i] \in Int BY <1>5
  <2>7. (1 .. n) \cap M = M BY <1>4
  <2> DEFINE all == Before(order, n, n + 1)
  <2>8. all >= qty BY <2>2
  <2> HIDE DEF b, M, all
  <2>9. SumOn(b, 1 .. n) = SumOn(b, (1 .. n) \cap M) BY <1>6, <2>5, <2>6, SumSupport
  <2>10. SumOn(b, M) = IF qty <= all THEN qty ELSE all BY <2>1 DEF all
  <2>11. all \in Nat BY <2>4 DEF all
  <2>12. SumOn(b, M) = qty BY <1>q, <2>8, <2>10, <2>11
  <2> QED BY <2>7, <2>9, <2>12
<1>8. order \in Bijection(1 .. n, open)
  <2> HIDE DEF open
  <2> QED BY <1>2 DEF Bijection, Injection, IsInjective, Surjection
<1>9. SumOn(a, 1 .. n) = qty
  <2>1. \A i \in 1 .. n : a[i] \in Int BY <1>5
  <2>2. \A i \in 1 .. n : other[order[i]] = a[i] OBVIOUS
  <2>3. other = [l \in open |-> other[l]] BY <1>3
  <2>4. SumOn(other, open) = qty BY <1>3, <2>3 DEF SumOn
  <2> DEFINE P == 1 .. n
  <2> HIDE DEF a, b, w, M, open
  <2>5. /\ IsFiniteSet(P) /\ order \in Bijection(P, open)
        /\ \A i \in P : a[i] \in Int
        /\ \A i \in P : other[order[i]] = a[i]
    BY <1>6, <1>8, <2>1, <2>2
  <2> HIDE DEF P
  <2>6. SumOn(other, open) = SumOn(a, P) BY <2>5, SumBijection
  <2> QED BY <2>4, <2>6 DEF P
<1>10. CostOfTaking(other, open) = SumOn([i \in 1 .. n |-> a[i] * w[i]], 1 .. n)
  <2> DEFINE worth == [l \in open |-> other[l] * l.unit]
             aw == [i \in 1 .. n |-> a[i] * w[i]]
  <2>1. \A i \in 1 .. n : aw[i] \in Int BY <1>5, TimesNat
  <2>2. \A i \in 1 .. n : worth[order[i]] = aw[i] BY <1>2
  <2>3. [l \in open |-> other[l] * l.unit] = [l \in open |-> worth[l]] OBVIOUS
  <2>4. CostOfTaking(other, open) = SumOn(worth, open) BY <2>3 DEF CostOfTaking, SumOver, SumOn
  <2> DEFINE P == 1 .. n
  <2> HIDE DEF worth, aw, a, b, w, M, open
  <2>5. /\ IsFiniteSet(P) /\ order \in Bijection(P, open)
        /\ \A i \in P : aw[i] \in Int
        /\ \A i \in P : worth[order[i]] = aw[i]
    BY <1>6, <1>8, <2>1, <2>2
  <2> HIDE DEF P
  <2>6. SumOn(worth, open) = SumOn(aw, P) BY <2>5, SumBijection
  <2>7. CostOfTaking(other, open) = SumOn(aw, 1 .. n) BY <2>4, <2>6 DEF P
  <2> QED BY <2>7 DEF aw, a, w
<1>11. NearExact(Dispositions(order, qty, sale, method), SumOn([i \in 1 .. n |-> b[i] * w[i]], 1 .. n))
  <2> DEFINE N == Dispositions(order, qty, sale, method)
             exact == SumOn([i \in 1 .. n |-> Take(order, qty, i) * order[i].unit], 1 .. n)
             charged == SumOn(DispCost, N)
             k == Cardinality(N)
  <2>1. N \in SUBSET Disposition /\ IsFiniteSet(N)
    <3>1. N = {SoldRow(order, qty, sale, method, i) : i \in M} BY DEF Dispositions, SoldRow
    <3>2. \A i \in M : SoldRow(order, qty, sale, method, i) \in Disposition BY <1>q, <1>1, DispositionsFx
    <3>3. IsFiniteSet(N) BY <1>q, <1>1, DispositionsFx
    <3> QED BY <3>1, <3>2, <3>3
  <2>2. CostOfDisposing(N) = charged BY <2>1, ChargedIs DEF CostOfDisposing
  <2>3. charged \in Nat /\ exact \in Nat /\ k * Cent \in Nat
        /\ 2 * (charged * Cent - exact) \in -(k * Cent) .. k * Cent
    BY <1>q, <1>1, DispositionCost
  <2>4. [i \in 1 .. n |-> b[i] * w[i]] = [i \in 1 .. n |-> Take(order, qty, i) * order[i].unit] OBVIOUS
  <2>5. k \in Nat /\ Cent \in Nat BY <2>1, FS_CardinalityType, CentPositive
  <2> HIDE DEF charged, exact, k, N
  <2> DEFINE c == charged * Cent
             m == k * Cent
  <2>6. 2 * Cent * charged = 2 * c /\ Cent * k = m /\ c \in Int /\ m \in Nat
        /\ 2 * (c - exact) \in -m .. m
    BY <2>3, <2>5
  <2> HIDE DEF c, m
  <2>7. 2 * c <= 2 * exact + m /\ 2 * exact <= 2 * c + m BY <2>3, <2>6
  <2>8. NearExact(N, exact) BY <2>2, <2>3, <2>6, <2>7 DEF NearExact, k
  <2>9. exact = SumOn([i \in 1 .. n |-> b[i] * w[i]], 1 .. n) BY <2>4 DEF exact
  <2> QED BY <2>8, <2>9 DEF N
<1>t. CostOfTaking(other, open) \in Nat
  <2> DEFINE P == 1 .. n
             aw == [i \in 1 .. n |-> a[i] * w[i]]
  <2>1. \A i \in P : aw[i] \in Nat BY <1>5, TimesNat
  <2> HIDE DEF aw, a, w
  <2>2. SumOn(aw, P) \in Nat BY <1>6, <2>1, SumOnNat
  <2>3. CostOfTaking(other, open) = SumOn(aw, P) BY <1>10 DEF aw
  <2> QED BY <2>2, <2>3
<1>12. \E m \in 1 .. n : /\ \A i \in 1 .. n : i < m => a[i] <= b[i]
                         /\ \A i \in 1 .. n : m < i => b[i] <= a[i]
  <2>1. M # {}
    <3>1. open # {}
      <4> SUFFICES ASSUME open = {} PROVE FALSE OBVIOUS
      <4>1. 1 .. n = {} BY <1>2
      <4>2. SumOn(b, 1 .. n) = 0 BY <4>1, SumOnEmpty
      <4> QED BY <1>7, <4>2
    <3> QED BY <3>1, SaleTakes
  <2>2. PICK m \in M : \A i \in M : i <= m
    <3>1. M \in SUBSET (1 .. n) BY <1>4
    <3> HIDE DEF M
    <3> QED BY <1>2, <2>1, <3>1, MaxIn
  <2>3. m \in 1 .. n BY <1>4
  <2>4. ASSUME NEW i \in 1 .. n, i < m PROVE a[i] <= b[i]
    <3>1. Take(order, qty, i) = order[i].remaining BY <1>q, <1>1, <1>4, <2>3, <2>4, EarlierEmptied
    <3>2. other[order[i]] <= order[i].remaining BY <1>2, <1>3
    <3> QED BY <3>1, <3>2
  <2>5. ASSUME NEW i \in 1 .. n, m < i PROVE b[i] <= a[i]
    <3>1. i \notin M BY <2>2, <2>3, <2>5
    <3>2. b[i] = 0 BY <1>4, <3>1
    <3> QED BY <1>5, <3>2
  <2> QED BY <2>3, <2>4, <2>5
<1> QED BY <1>5, <1>6, <1>7, <1>9, <1>10, <1>t, <1>11, <1>12

\* HIFO minimises tax (tax_lot.go:28): no other way to take the same units
\* from the open lots costs more, so none shows a smaller gain, but for the
\* half cent that rounding may take from each match.
THEOREM HighestCostFirst ==
  ASSUME NEW L, LotsOK(L), NEW order \in SaleOrders(FindOpen(L), "HIFO"),
         NEW qty \in Nat \ {0}, Available(FindOpen(L)) >= qty, NEW sale \in TxIds,
         NEW other \in Allocations(FindOpen(L), qty)
  PROVE  LET D == Dispositions(order, qty, sale, "HIFO")
         IN  2 * CostOfTaking(other, FindOpen(L)) <= 2 * Cent * CostOfDisposing(D) + Cent * Cardinality(D)
<1> DEFINE n == Cardinality(FindOpen(L))
           w == [i \in 1 .. n |-> order[i].unit]
           a == [i \in 1 .. n |-> other[order[i]]]
           b == [i \in 1 .. n |-> Take(order, qty, i)]
<1>1. /\ IsFiniteSet(1 .. n)
      /\ \A i \in 1 .. n : w[i] \in Nat /\ a[i] \in Nat /\ b[i] \in Nat
      /\ SumOn(a, 1 .. n) = SumOn(b, 1 .. n)
      /\ CostOfTaking(other, FindOpen(L)) = SumOn([i \in 1 .. n |-> a[i] * w[i]], 1 .. n)
      /\ CostOfTaking(other, FindOpen(L)) \in Nat
      /\ NearExact(Dispositions(order, qty, sale, "HIFO"), SumOn([i \in 1 .. n |-> b[i] * w[i]], 1 .. n))
      /\ \E m \in 1 .. n : /\ \A i \in 1 .. n : i < m => a[i] <= b[i]
                           /\ \A i \in 1 .. n : m < i => b[i] <= a[i]
  BY TwoWays
<1>2. \A i, j \in 1 .. n : i < j => w[i] >= w[j]
  <2>1. \A i, j \in 1 .. n : i < j => MayPrecede(order[i], order[j], "HIFO")
    BY OrderingOfSale DEF Ordering
  <2>2. \A i, j \in 1 .. n : i < j => order[i].unit > order[j].unit \/ order[i].unit = order[j].unit
    BY <2>1 DEF MayPrecede
  <2>3. \A i \in 1 .. n : w[i] = order[i].unit OBVIOUS
  <2> HIDE DEF n, w, a, b
  <2> QED BY <1>1, <2>2, <2>3
<1> HIDE DEF n, w, a, b
<1>3. PICK m \in 1 .. n : /\ \A i \in 1 .. n : i < m => a[i] <= b[i]
                          /\ \A i \in 1 .. n : m < i => b[i] <= a[i]
  BY <1>1
<1>4. \A i \in 1 .. n : (w[i] > w[m] => i < m) /\ (w[i] < w[m] => m < i) BY <1>1, <1>2
<1>5. \A i \in 1 .. n : (w[i] > w[m] => a[i] <= b[i]) /\ (w[i] < w[m] => b[i] <= a[i])
  BY <1>3, <1>4
<1>6. w[m] \in Nat BY <1>1
<1>7. SumOn([i \in 1 .. n |-> a[i] * w[i]], 1 .. n) <= SumOn([i \in 1 .. n |-> b[i] * w[i]], 1 .. n)
  BY <1>1, <1>5, <1>6, Exchange
<1> DEFINE D == Dispositions(order, qty, sale, "HIFO")
           taken == CostOfTaking(other, FindOpen(L))
           exact == SumOn([i \in 1 .. n |-> b[i] * w[i]], 1 .. n)
           disposed == 2 * Cent * CostOfDisposing(D)
           slack == Cent * Cardinality(D)
<1>8. taken \in Nat /\ taken <= exact BY <1>1, <1>7
<1>9. exact \in Nat /\ disposed \in Nat /\ slack \in Nat
      /\ disposed <= 2 * exact + slack /\ 2 * exact <= disposed + slack
  <2>1. CostOfDisposing(D) \in Nat /\ Cent \in Nat BY <1>1, CentPositive DEF NearExact
  <2>2. disposed \in Nat
    <3> DEFINE v == CostOfDisposing(D)
    <3>1. v \in Nat /\ Cent \in Nat BY <2>1
    <3> HIDE DEF v
    <3>2. 2 * Cent * v \in Nat BY <3>1
    <3> QED BY <3>2 DEF v
  <2> QED BY <1>1, <2>2 DEF NearExact
<1> HIDE DEF D, taken, exact, disposed, slack
<1>10. 2 * taken <= disposed + slack BY <1>8, <1>9
<1> QED BY <1>10 DEF D, taken, disposed, slack

\* LOWEST_COST maximises the gain (tax_lot.go:29): no other way to take the
\* same units from the open lots costs less, but for half a cent of rounding
\* for each match.
THEOREM LowestCostFirst ==
  ASSUME NEW L, LotsOK(L), NEW order \in SaleOrders(FindOpen(L), "LOWEST_COST"),
         NEW qty \in Nat \ {0}, Available(FindOpen(L)) >= qty, NEW sale \in TxIds,
         NEW other \in Allocations(FindOpen(L), qty)
  PROVE  LET D == Dispositions(order, qty, sale, "LOWEST_COST")
         IN  2 * Cent * CostOfDisposing(D) <= 2 * CostOfTaking(other, FindOpen(L)) + Cent * Cardinality(D)
<1> DEFINE n == Cardinality(FindOpen(L))
           w == [i \in 1 .. n |-> order[i].unit]
           a == [i \in 1 .. n |-> other[order[i]]]
           b == [i \in 1 .. n |-> Take(order, qty, i)]
<1>1. /\ IsFiniteSet(1 .. n)
      /\ \A i \in 1 .. n : w[i] \in Nat /\ a[i] \in Nat /\ b[i] \in Nat
      /\ SumOn(a, 1 .. n) = SumOn(b, 1 .. n)
      /\ CostOfTaking(other, FindOpen(L)) = SumOn([i \in 1 .. n |-> a[i] * w[i]], 1 .. n)
      /\ CostOfTaking(other, FindOpen(L)) \in Nat
      /\ NearExact(Dispositions(order, qty, sale, "LOWEST_COST"), SumOn([i \in 1 .. n |-> b[i] * w[i]], 1 .. n))
      /\ \E m \in 1 .. n : /\ \A i \in 1 .. n : i < m => a[i] <= b[i]
                           /\ \A i \in 1 .. n : m < i => b[i] <= a[i]
  BY TwoWays
<1>2. \A i, j \in 1 .. n : i < j => w[i] <= w[j]
  <2>1. \A i, j \in 1 .. n : i < j => MayPrecede(order[i], order[j], "LOWEST_COST")
    BY OrderingOfSale DEF Ordering
  <2>2. \A i, j \in 1 .. n : i < j => order[i].unit < order[j].unit \/ order[i].unit = order[j].unit
    BY <2>1 DEF MayPrecede
  <2>3. \A i \in 1 .. n : w[i] = order[i].unit OBVIOUS
  <2> HIDE DEF n, w, a, b
  <2> QED BY <1>1, <2>2, <2>3
<1> HIDE DEF n, w, a, b
<1>3. PICK m \in 1 .. n : /\ \A i \in 1 .. n : i < m => a[i] <= b[i]
                          /\ \A i \in 1 .. n : m < i => b[i] <= a[i]
  BY <1>1
<1>4. \A i \in 1 .. n : (w[i] > w[m] => m < i) /\ (w[i] < w[m] => i < m) BY <1>1, <1>2
<1>5. \A i \in 1 .. n : (w[i] > w[m] => b[i] <= a[i]) /\ (w[i] < w[m] => a[i] <= b[i])
  BY <1>3, <1>4
<1>6. w[m] \in Nat BY <1>1
<1>7. SumOn([i \in 1 .. n |-> b[i] * w[i]], 1 .. n) <= SumOn([i \in 1 .. n |-> a[i] * w[i]], 1 .. n)
  BY <1>1, <1>5, <1>6, Exchange
<1> DEFINE D == Dispositions(order, qty, sale, "LOWEST_COST")
           taken == CostOfTaking(other, FindOpen(L))
           exact == SumOn([i \in 1 .. n |-> b[i] * w[i]], 1 .. n)
           disposed == 2 * Cent * CostOfDisposing(D)
           slack == Cent * Cardinality(D)
<1>8. taken \in Nat /\ exact <= taken BY <1>1, <1>7
<1>9. exact \in Nat /\ disposed \in Nat /\ slack \in Nat
      /\ disposed <= 2 * exact + slack /\ 2 * exact <= disposed + slack
  <2>1. CostOfDisposing(D) \in Nat /\ Cent \in Nat BY <1>1, CentPositive DEF NearExact
  <2>2. disposed \in Nat
    <3> DEFINE v == CostOfDisposing(D)
    <3>1. v \in Nat /\ Cent \in Nat BY <2>1
    <3> HIDE DEF v
    <3>2. 2 * Cent * v \in Nat BY <3>1
    <3> QED BY <3>2 DEF v
  <2> QED BY <1>1, <2>2 DEF NearExact
<1> HIDE DEF D, taken, exact, disposed, slack
<1>10. disposed <= 2 * taken + slack BY <1>8, <1>9
<1> QED BY <1>10 DEF D, taken, disposed, slack
=============================================================================
