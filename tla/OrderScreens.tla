---------------------------- MODULE OrderScreens ----------------------------
(***************************************************************************)
(* The screens of an order together: calendar, delivery page, lists and    *)
(* queues, which show what OrderDesk has, and the forms of OrderForm.      *)
(*                                                                         *)
(* The two share no row: the forms change what an order is of, the desk    *)
(* how far it has come.                                                    *)
(***************************************************************************)
EXTENDS OrderViews, OrderForm

ScreensSpec == Spec /\ FormSpec

\* Type correctness of both.
BothTypeOK == TypeOK /\ FormTypeOK

(***************************************************************************)
(* What the screens tell is so: the journey leads on, lists, queues and    *)
(* board agree on the order, what a card suggests is done, and a form that *)
(* says it saved has saved.                                                *)
(***************************************************************************)
ScreensAreTrue == JourneyLeadsOn /\ ViewsAgree /\ FormsAreTrue
=============================================================================
