----------------------------- MODULE MCOrderDesk ----------------------------
(***************************************************************************)
(* An instance of OrderDesk for TLC: two users at the calendar, the second *)
(* also at the page of the delivery; and one of OrderForm: an order to be  *)
(* taken, a bouquet, two sorts of stems.                                   *)
(*                                                                         *)
(* A behaviour here is about one of three parts, and the states of the     *)
(* parts add up and do not multiply: the way of an order to READY and its  *)
(* sale, while its delivery is not written; the way of its delivery, while *)
(* the order is assembled by others; or the forms, which share no row with *)
(* the rest.                                                               *)
(***************************************************************************)
EXTENDS OrderScreens, TLC

CONSTANTS u1, u2, rose, fern

MCMoves == u1 :> BoardMove @@ u2 :> PageMove \cup {"toNew", "toWork"}
MCContent == {Nothing, rose :> 1 @@ fern :> 1, rose :> 1 @@ fern :> 0}

VARIABLE part

MCInit ==
    /\ part \in {"order", "delivery", "forms"}
    /\ Init
    /\ part = "forms" => type = "PICKUP"
    /\ part = "order" => job # "DRAFT"
    /\ part = "delivery" => type = "DELIVERY"
    /\ FormInit
    /\ part # "forms" => \A b \in Bouquet : recipe[b] = Nothing

TabsIn(moves) == \A u \in User : tab'[u].move \in moves \cup {"none"}

\* Bounds of the part about the order ...
OrderPart ==
    /\ TabsIn({"toNew", "toWork", "toReady", "toDone"})
    /\ job' = job /\ adrift'.call # "write"

\* ... and of the part about the delivery.
DeliveryPart ==
    /\ TabsIn({"toCourier", "toDone", "handOver", "finish"})
    /\ florist' = Nobody /\ sale' = "NONE"
    /\ status' \in {"CONFIRMED", "READY", "COMPLETED", "CANCELLED"}

MCNext ==
    /\ UNCHANGED part
    /\ \/ part = "order" /\ Next /\ OrderPart /\ UNCHANGED formVars
       \/ part = "delivery" /\ Next /\ DeliveryPart /\ UNCHANGED formVars
       \/ part = "forms" /\ FormNext /\ UNCHANGED vars

MCSpec == MCInit /\ [][MCNext]_<<vars, formVars, part>> /\ Answers
=============================================================================
