----------------------------- MODULE MCDelivery -----------------------------
(***************************************************************************)
(* An instance of Delivery for TLC: two jobs of the order, one of them to  *)
(* come after the other, and two couriers.                                 *)
(***************************************************************************)
EXTENDS Delivery, TLC

CONSTANTS j1, j2, c1, c2

Interchangeable == Permutations(Job) \cup Permutations(Courier)
=============================================================================
