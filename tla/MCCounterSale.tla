--------------------------- MODULE MCCounterSale ---------------------------
(***************************************************************************)
(* An instance of CounterSale for TLC: a flower whose retail price is set  *)
(* or missing, a material, one ready bouquet; a rise, and both kinds of    *)
(* discount, one with a cut; no payment, two, and one of nothing.          *)
(***************************************************************************)
EXTENDS CounterSale, TLC

CONSTANTS f, m, b

MCMost == f :> 2 @@ m :> 1 @@ b :> 1
MCRetail == f :> {None, 3} @@ m :> {2}

MCTerms == {
    [kind |-> "NONE", value |-> 0, adj |-> 1],
    [kind |-> "FIXED", value |-> 1, adj |-> 0],
    [kind |-> "PERCENT", value |-> 15, adj |-> -5] }

MCSplits == {<<>>, <<1, 2>>, <<1, 0>>}

MCRights == {
    {"discount", "override", "complete", "pay"},
    {"complete", "pay"},
    {"discount"} }
=============================================================================
