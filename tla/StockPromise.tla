---------------------------- MODULE StockPromise ----------------------------
(***************************************************************************)
(* What the inventory module promises its callers, without batches,        *)
(* documents or movements: an item has some stock on hand, every line of   *)
(* an order holds some of it, and                                          *)
(*   - all the holds together never exceed the stock;                      *)
(*   - what a line holds changes only when that line's own composition is  *)
(*     reserved, released or issued: no receipt, correction, write-off or  *)
(*     sale of somebody else's takes it away;                              *)
(*   - an issue takes exactly what was asked for and leaves the lines it   *)
(*     served holding nothing of the items it issued.                      *)
(***************************************************************************)
EXTENDS Quantities

CONSTANTS Item, Line, LineItem, Composition, Sold

VARIABLES
    stock,  \* stock[i]: units of item i on hand
    hold    \* hold[l]: units of its item that line l holds

LinesFor(i) == {l \in Line : LineItem[l] = i}
Covered == \A i \in Item : TotalOn(hold, LinesFor(i)) <= stock[i]

Init ==
    /\ stock = [i \in Item |-> 0]
    /\ hold = [l \in Line |-> 0]

\* Goods arrive, are counted again, go to waste or come back.
Restock ==
    /\ stock' \in [Item -> Nat]
    /\ UNCHANGED hold
    /\ Covered'

\* The lines of one composition hold what they are given, nobody else's change.
Hold(L) ==
    /\ hold' \in [Line -> Nat]
    /\ \A l \in Line \ L : hold'[l] = hold[l]
    /\ UNCHANGED stock
    /\ Covered'

\* want[i] units of each item leave, those the lines of L hold among them.
Issue(L, want) ==
    /\ \A i \in Item : want[i] <= stock[i]
    /\ stock' = [i \in Item |-> stock[i] - want[i]]
    /\ hold' = [l \in Line |-> IF l \in L /\ want[LineItem[l]] > 0 THEN 0 ELSE hold[l]]
    /\ Covered'

Next ==
    \/ Restock
    \/ \E L \in Composition : Hold(L)
    \/ \E L \in Composition \cup {{}}, want \in Sold : Issue(L, want)

Spec == Init /\ [][Next]_<<stock, hold>>
=============================================================================
