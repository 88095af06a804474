--------------------------- MODULE MCAdministration ---------------------------
(***************************************************************************)
(* A director and a user; two categories, units and policies, one of each  *)
(* stored, with a flower and a bouquet still to be created; a supplier, a  *)
(* payment method and two customers; two stores; two goods with prices.    *)
(*                                                                         *)
(* The parts of Administration share no row but the deletion requests, so  *)
(* a behaviour here is about one of them: the states add up and do not     *)
(* multiply.  The calls a part does not get have been answered before.     *)
(*                                                                         *)
(* The staff hold one role each here, as the page gives them.              *)
(*                                                                         *)
(* One person's sessions are looked at in four parts: while the password   *)
(* changes, while the days pass, while the account is suspended, and while *)
(* an authenticator is set up; in the first the tabs are in two browsers,  *)
(* in the others in one.                                                   *)
(***************************************************************************)
EXTENDS BackOffice, TLC

CONSTANT CallsOf   \* bound: the requests of each part

MCCalls == 5
MCCallsOf == [staff |-> 3, catalog |-> 4, contacts |-> 5, premises |-> 4]
MCEntity == {"director", "user", "cut", "potted", "piece", "bunch", "fresh", "durable",
             "bouquet", "flower", "grower", "card", "ann", "bea"}
MCUser == {"director", "user"}
MCRoleSets == {{"DIRECTOR"}, {"FLORIST"}, {"COURIER"}}
MCCategory == {"cut", "potted"}
MCUnit == {"piece", "bunch"}
MCPolicy == {"fresh", "durable"}
MCItem == {"bouquet", "flower"}
MCBouquet == {"bouquet"}
MCSeeded == {"cut", "piece", "fresh", "flower"}
MCCustomer == {"ann", "bea"}

MCMoves == [writer |-> 4, other |-> 2]
MovesTogether == 5    \* bound: what the users of the two pages do altogether
TurnsMeanwhile == 1   \* bound: refreshes of one session while the password changes

SessionParts == {"passwords", "days", "accounts", "keys"}
Alike == Permutations(Session) \cup Permutations(Amount)

VARIABLE part

MCInit ==
    /\ part \in DOMAIN CallsOf \cup SessionParts \cup {"prices"}
    /\ \E created \in IF part = "staff" THEN SUBSET User ELSE {{}} :
          record = [e \in Entity |-> IF e \in {Owner} \cup Seeded \cup created
                                     THEN "STORED" ELSE "UNBORN"]
    /\ job = [p \in Request |-> IF part \in DOMAIN CallsOf /\ p <= CallsOf[part] THEN Idle ELSE Over]
    /\ ticket = [k \in Ticket |-> Blank]
    /\ removedBy = [e \in Entity |-> None]
    /\ muddled = {}
    /\ StaffInit /\ CatalogInit /\ ContactsInit /\ PremisesInit /\ PricesInit
    /\ SessionsInit /\ tab["left"].browser = "desk"
    /\ person.mustChange <=> part = "passwords"
    /\ tab["right"].browser = IF part = "passwords" THEN "tablet" ELSE "desk"

SessionsMove ==
    \/ part \in SessionParts /\ Entrances
    \/ part \in {"passwords", "days"} /\ Visits
    \/ part = "days" /\ Exits
    \/ part = "passwords" /\ Changes
    \/ part = "days" /\ Days
    \/ part = "accounts" /\ (Visits \/ Suspensions)
    \/ part = "keys" /\ Keys

MCNext ==
    /\ UNCHANGED part
    /\ \/ /\ SessionsMove
          /\ part = "passwords" => \A s \in Session : stored'[s].turn <= TurnsMeanwhile
          /\ UNCHANGED <<adminVars, priceVars>>
       \/ /\ part = "prices" /\ PricesNext
          /\ page'["writer"].moves + page'["other"].moves <= MovesTogether
          /\ UNCHANGED <<adminVars, sessionVars>>
       \/ /\ UNCHANGED <<sessionVars, priceVars>>
          /\ \/ /\ part = "staff" /\ StaffNext
                /\ UNCHANGED <<catalogVars, contactVars, premisesVars>>
             \/ /\ part = "catalog" /\ CatalogNext
                /\ UNCHANGED <<staffVars, contactVars, premisesVars>>
             \/ /\ part = "contacts" /\ ContactsNext
                /\ UNCHANGED <<staffVars, catalogVars, premisesVars>>
             \/ /\ part = "premises" /\ PremisesNext
                /\ UNCHANGED <<staffVars, catalogVars, contactVars>>

MCSpec == MCInit /\ [][MCNext]_<<adminVars, sessionVars, priceVars, part>>
=============================================================================
