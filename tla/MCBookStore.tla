---------------------------- MODULE MCBookStore ----------------------------
(* Small instances of BookStore for TLC. *)
EXTENDS Claims, TLC

OneEach == [v \in Variants |-> 1]

TwoEach == [v \in Variants |-> 2]

AllKinds == [guest: BOOLEAN, cod: BOOLEAN]

Transfers == [guest: BOOLEAN, cod: {FALSE}]

Users == [guest: {FALSE}, cod: {FALSE}]

OrderSymmetry == Permutations(Orders)

DeliverySymmetry == Permutations(Deliveries)
=============================================================================
