------------------------- MODULE MCReservationRace -------------------------
(***************************************************************************)
(* The instance of ReservationRace for TLC: two requests, for one or for   *)
(* two orders, which list the same two items in opposite order.            *)
(***************************************************************************)
EXTENDS ReservationRace

MCLines == [o \in {"o1", "o2"} |-> IF o = "o1" THEN <<"rose", "fern">> ELSE <<"fern", "rose">>]
=============================================================================
