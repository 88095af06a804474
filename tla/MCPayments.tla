----------------------------- MODULE MCPayments -----------------------------
(***************************************************************************)
(* An instance of Payments for TLC: three payments of the full price of an *)
(* order, one of which also pays half of another order; three refunds of   *)
(* that one, and one that is too small to be stored.  To a payment a sale  *)
(* is an order whose price never changes.                                  *)
(*                                                                         *)
(* The first payment is pressed for under two keys, the other documents    *)
(* under one, which their requests repeat.                                 *)
(*                                                                         *)
(* A behaviour here has all three payments and one refund, or the first    *)
(* payment and three refunds: the states add up and do not multiply.       *)
(***************************************************************************)
EXTENDS MoneyPages, TLC

CONSTANTS k1, k2, k3, p1, p2, p3, w1, w2, w3, w4, f1, f2, f3, f4, o, o2, q1, q2

MCRowPayment == w1 :> p1 @@ w2 :> p2 @@ w3 :> p3 @@ w4 :> p1
MCRowTarget == [w \in Row |-> IF w = w4 THEN o2 ELSE o]
MCRowAmount == [w \in Row |-> IF w = w4 THEN 14 ELSE 24]
MCRefundPayment == [r \in Refund |-> p1]
MCRefundAmount == [r \in Refund |-> IF r = f4 THEN 4 ELSE 25]

MCPresses == [d \in Document |-> IF d = p1 THEN {k1, k2} ELSE {k3}]

\* The two payments of one allocation each change places with them.
Swap == p2 :> p3 @@ p3 :> p2 @@ w2 :> w3 @@ w3 :> w2

Interchangeable ==
    Permutations(Request) \cup Permutations({k1, k2}) \cup Permutations({f1, f2, f3}) \cup {Swap}

VARIABLE part

MCInit == part \in {"payments", "refunds"} /\ Init

\* Bounds of the two parts.
InPart ==
    /\ part = "payments" => Cardinality({r \in Refund : refund'[r] # "NONE"}) <= 1
    /\ part = "refunds" => payment'[p2] = "NONE" /\ payment'[p3] = "NONE"

MCNext == UNCHANGED part /\ Next /\ InPart

MCSpec == MCInit /\ [][MCNext]_<<vars, part>>
=============================================================================
