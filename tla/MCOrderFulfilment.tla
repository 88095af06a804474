-------------------------- MODULE MCOrderFulfilment --------------------------
(***************************************************************************)
(* Instances of OrderFulfilment for TLC: l1 to l3 are ids for the lines of *)
(* order o1, two of them of the same item in different quantities; l4 is   *)
(* for a line of o2, which competes for item a.                            *)
(***************************************************************************)
EXTENDS OrderFulfilment, TLC

CONSTANTS o1, o2, a, b, l1, l2, l3, l4, s1, s2, s3, d1

MCLineOrder == [l \in Line |-> IF l = l4 THEN o2 ELSE o1]
MCLineItem == [l \in Line |-> IF l = l2 THEN b ELSE a]
MCLineQty == [l \in Line |-> IF l = l3 THEN 2 ELSE 1]
MCSaleOrder == [s \in Sale |-> IF s = d1 THEN Counter ELSE IF s = s3 THEN o2 ELSE o1]

Only(i, n) == [j \in Item |-> IF j = i THEN n ELSE 0]
MCContent == {NoUnits} \cup {Only(i, 1) : i \in Item}
=============================================================================
