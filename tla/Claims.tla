------------------------------- MODULE Claims -------------------------------
(***************************************************************************)
(* What comments, messages and documents of the repository say of the      *)
(* program and the code does not do.  Each is checked by a run that must   *)
(* find a behaviour of BookStore that contradicts it.                      *)
(***************************************************************************)
EXTENDS BookStore

\* TEST.MD: a request that takes a counter below zero puts the copies back and
\* is refused with 'out of stock'.  In createCheckout the error is thrown inside
\* the try block whose catch goes on to create the order.
OutOfStockIsRejected ==
    \A o \in Orders, v \in Variants :
        req[o].pc = "order" => req[o].remaining[v] >= 0

\* issue-inventory-integrity.html: expiry must return the hold and leave stock
\* alone.  clearOrder adds the quantities to stock as well, so that without any
\* import, and with every checkout at its end, there are more copies than at first.
ExpiryLeavesStock ==
    imports = 0 /\ (\A o \in Orders : req[o].pc \in {"idle"} \union FinalSteps)
        => \A v \in Variants : stock[v] <= InitialStock[v]
=============================================================================
