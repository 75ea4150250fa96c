------------------------------- MODULE MCSeed -------------------------------
(* A small instance of Seed for TLC. *)
EXTENDS Seed, TLC

\* Book 0 is not for sale; the others have seven of the plans between them.
MCShelf == <<0, 7>>
=============================================================================
