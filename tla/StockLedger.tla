---------------------------- MODULE StockLedger ----------------------------
(***************************************************************************)
(* What the inventory promises, with everything else left out.  Each       *)
(* variant has free copies on the shelf and copies held for orders that    *)
(* are not paid yet; an order names a quantity of each variant.  Copies    *)
(* never appear: they are held only from what is free, and a release       *)
(* returns to the shelf exactly what it no longer holds.                   *)
(***************************************************************************)
EXTENDS Integers

CONSTANTS Variants, Quantities, InitialStock

VARIABLES free, held

Quantity == [Variants -> Quantities \union {0}]

Plus(copies, q) == [v \in Variants |-> copies[v] + q[v]]

Minus(copies, q) == [v \in Variants |-> copies[v] - q[v]]

\* An order is placed: each variant is granted in full, and only from what is
\* free, or not at all.
Hold ==
    \E q \in Quantity, granted \in SUBSET Variants :
        LET taken == [v \in Variants |-> IF v \in granted THEN q[v] ELSE 0]
        IN  /\ \A v \in granted : q[v] <= free[v]
            /\ free' = Minus(free, taken)
            /\ held' = Plus(held, taken)

\* A paid order leaves the house: what is free stays free.
Ship == \E q \in Quantity : held' = Minus(held, q) /\ UNCHANGED free

\* An order that is not paid gives back what it held, no more.
Release == \E q \in Quantity : held' = Minus(held, q) /\ free' = Plus(free, q)

\* A delivery from a supplier brings copies of one variant.
Import ==
    \E v \in Variants, n \in Quantities :
        free' = [free EXCEPT ![v] = @ + n] /\ UNCHANGED held

Init == free = InitialStock /\ held = [v \in Variants |-> 0]

Next == Hold \/ Ship \/ Release \/ Import

Spec == Init /\ [][Next]_<<free, held>>
=============================================================================
