---------------------------- MODULE MCBackOffice ----------------------------
(* A small instance of BackOffice for TLC. *)
EXTENDS BackOffice, TLC

CONSTANTS v1, v2

Line(v, quantity, unitPrice, discount) ==
    [variant |-> v, quantity |-> quantity, unitPrice |-> unitPrice, discount |-> discount]

\* Three copies of one variant at 99.5 cents less 12, which the column keeps as 88,
\* and one of another.
MCOldOrders == {<<Line(v1, 3, 199, 24), Line(v2, 1, 10, 0)>>}

\* An order without items passes the check of the request body.
MCOrderBodies == {<< >>, <<Line(v1, 1, 9, 4)>>}

Of(order, n, real) == [item |-> [order |-> order, n |-> n], real |-> real]

\* All of the first order, too little, one item twice, one of the other order and
\* one that is not there, or nothing.
MCDeliveries ==
    {<<Of(1, 1, 3), Of(1, 2, 1)>>, <<Of(1, 1, 0)>>, <<Of(1, 1, 3), Of(1, 1, 3)>>,
     <<Of(2, 1, 1)>>, << >>}
Symmetry == Permutations(Requests)
=============================================================================
