-------------------------- MODULE MCFulfilmentRace --------------------------
(***************************************************************************)
(* Instances of FulfilmentRace for TLC: one order of one or two units of   *)
(* an item, two sales for it, two requests in flight.                      *)
(***************************************************************************)
EXTENDS FulfilmentRace, TLC

CONSTANTS o1, a, l1, l2, s1, s2, r1, r2

MCLineOrder == [l \in Line |-> o1]
MCLineItem == [l \in Line |-> a]
MCLineQty == [l \in Line |-> 1]
MCSaleOrder == [s \in Sale |-> o1]
MCContent == {[i \in Item |-> n] : n \in 0 .. 1}

Interchangeable == Permutations(Request) \cup Permutations(Sale) \cup Permutations(Line)
=============================================================================
