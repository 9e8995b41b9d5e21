------------------------------- MODULE LotBook -------------------------------
(***************************************************************************)
(* What the tax lots and their dispositions promise, whatever calls        *)
(* overlap: a book that is only written forward.  A lot is acquired once   *)
(* and whole.  A sale is matched once and whole: in one step its units     *)
(* leave lots that have them, and what it drew is on record.  Nothing is   *)
(* acquired, returned or redrawn in any other way.                         *)
(***************************************************************************)
EXTENDS Integers, Functions

CONSTANTS
  Lots,       \* the lots there may be
  Trades,     \* the sales there may be
  Quantities  \* units acquired or sold at once

VARIABLES
  acquired,  \* acquired[l], the units of lot l when it was opened
  left,      \* left[l], those not sold yet
  drawn      \* drawn[s][l], the units that sale s took from lot l

vars == <<acquired, left, drawn>>

\* f, extended to x or changed there.
With(f, x, v) == [y \in DOMAIN f \cup {x} |-> IF y = x THEN v ELSE f[y]]

Nothing == [x \in {} |-> 0]

Init == acquired = Nothing /\ left = Nothing /\ drawn = Nothing

Acquire(l, qty) ==
  /\ l \notin DOMAIN acquired
  /\ acquired' = With(acquired, l, qty)
  /\ left' = With(left, l, qty)
  /\ UNCHANGED drawn

\* Sale s goes on record with what it takes from each lot it draws on.
Sell(s, qty) ==
  /\ s \notin DOMAIN drawn /\ s \in DOMAIN drawn'
  /\ \E from \in SUBSET DOMAIN left : \E take \in [from -> 1 .. qty] :
       /\ drawn' = With(drawn, s, take)
       /\ SumFunction(take) = qty
       /\ \A l \in from : take[l] <= left[l]
       /\ left' = [l \in DOMAIN left |-> left[l] - (IF l \in from THEN take[l] ELSE 0)]
  /\ UNCHANGED acquired

Next ==
  \/ \E l \in Lots, qty \in Quantities : Acquire(l, qty)
  \/ \E s \in Trades, qty \in Quantities : Sell(s, qty)

Spec == Init /\ [][Next]_vars
=============================================================================
