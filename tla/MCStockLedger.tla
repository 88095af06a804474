--------------------------- MODULE MCStockLedger ---------------------------
(***************************************************************************)
(* The instance of StockLedger for TLC: two items (roses, in two batches   *)
(* of two receipts, and ribbon, in a batch of the first receipt), the      *)
(* lines of two orders that compete for the roses, one sale and one        *)
(* write-off.  The second receipt, one batch of roses, may be corrected    *)
(* and reversed after posting.                                             *)
(***************************************************************************)
EXTENDS StockLedger, TLC

CONSTANTS l1, l2

MCBatch == 1 .. 3
MCItemOf == [b \in MCBatch |-> IF b = 3 THEN "ribbon" ELSE "rose"]
MCReceiptOf == [b \in MCBatch |-> IF b = 2 THEN "g2" ELSE "g1"]
MCLine == {l1, l2}
MCLineItem == [l \in MCLine |-> "rose"]
MCComposition == {{l} : l \in MCLine}

\* Nothing tells the two lines apart.
Interchangeable == Permutations(MCLine)
=============================================================================
