----------------------------- MODULE MCShopping -----------------------------
(* Small instances of Shopping for TLC. *)
EXTENDS Shopping, TLC

OneMoreOrLess == {-1, 1}

CallSymmetry == Permutations(Calls)
=============================================================================
