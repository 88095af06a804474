------------------------------ MODULE OrderDesk -----------------------------
(***************************************************************************)
(* One order on the screens of the back office: its card on the calendar,  *)
(* which is dragged from column to column, the page of its delivery, and   *)
(* the next step the journey of the order names.                           *)
(*                                                                         *)
(* A drag or a button is a chain of server calls.  The page decides which  *)
(* calls from the card or the job it loaded, which may have grown old, and *)
(* from the answers.  Each call is a transaction of its own.  It may be    *)
(* answered, be refused, never arrive, or be done, at once or later,       *)
(* without its answer coming back: to the page the last three are one, an  *)
(* error, with which the chain ends, except where the page takes back its  *)
(* claim.  A page may also be left in the middle of a chain.               *)
(*                                                                         *)
(* The server's side are the use cases of OrderFulfilment and Delivery, as *)
(* far as they concern what the screens look at.  A call about the job     *)
(* reads it, with the version the caller expects, and then writes its      *)
(* columns by the job's id alone: others may write in between.             *)
(* Left out: the lines of the order (a reservation may come out any way),  *)
(* its type (which cannot change once a delivery is planned, see           *)
(* Delivery), external couriers, a second delivery after a cancelled one,  *)
(* and calls about the order that overlap (see FulfilmentRace).            *)
(***************************************************************************)
EXTENDS Naturals

CONSTANTS
    User,    \* those at the screens
    Nobody,
    Moves,   \* bound: Moves[u], what user u does at the screens
    LastVersion  \* bound: the version at which the job is no longer written

ASSUME UserAssumption == Nobody \notin User
ASSUME VersionAssumption == LastVersion \in Nat

VARIABLES
    type,       \* of the order: PICKUP or DELIVERY
    status,     \* its status
    florist,    \* who holds its active assignment
    frozen,     \* frozenAt of its actual composition is set
    job,        \* the status of its delivery job, or NONE
    handedOver, \* handedOverAt is set
    problem,    \* a problem of the job was reported
    version,    \* of its row
    sale,       \* its sale that is not annulled: NONE, DRAFT or COMPLETED
    adrift,     \* a call whose sender the screens do not follow, or no longer do
    tab,        \* tab[u]: the chain of calls under way at u's screen
    newest,     \* history: the highest version the job ever had
    torn,       \* history: the versions overlapping calls gave the job again
    origin      \* history: how the active assignment came about

orderVars == <<type, status, florist, frozen>>
jobVars == <<job, handedOver, problem>>
versionVars == <<version, newest, torn>>
serverVars == <<orderVars, jobVars, versionVars, sale>>
vars == <<serverVars, adrift, tab, origin>>

Reservable == {"CONFIRMED", "PARTIALLY_RESERVED", "RESERVED"}
OrderStatus == Reservable \cup {"IN_PREPARATION", "READY", "COMPLETED", "CANCELLED"}
JobStatus == {"NONE", "DRAFT", "PLANNED", "READY_FOR_DISPATCH", "ASSIGNED",
              "IN_TRANSIT", "DELIVERED", "PROBLEM", "CANCELLED"}
BoardMove == {"toNew", "toWork", "toReady", "toCourier", "toDone"}
PageMove == {"handOver", "finish"}

JobCall == {"dispatch", "handover", "transit", "deliver"}

\* A tab: what it does, the call it waits for, the status, handedOverAt and
\* version it believes in; read: the version the server, which has read the job
\* for that call, found there.
Idle == [move |-> "none", next |-> "none", cur |-> "none", handed |-> FALSE,
         version |-> 0, read |-> 0]

\* The columns of the job a call writes: its status, or not, whether it sets
\* handedOverAt, and whether it comes with a problem reported.
Columns(s, h, p) == [status |-> s, handed |-> h, problem |-> p]

\* A call adrift: one the server does not know yet, on whose behalf and with
\* which version; or "write", for which it has read the job.
NoCall == [call |-> "none", by |-> Nobody, version |-> 0, read |-> 0,
           columns |-> Columns("kept", FALSE, FALSE)]

Init ==
    /\ type \in {"PICKUP", "DELIVERY"}
    /\ status = "CONFIRMED"
    /\ florist = Nobody
    /\ frozen = FALSE
    /\ job \in IF type = "DELIVERY" THEN {"NONE", "DRAFT", "PLANNED"} ELSE {"NONE"}
    /\ handedOver = FALSE
    /\ problem = FALSE
    /\ version = 1
    /\ sale = "NONE"
    /\ adrift = NoCall
    /\ tab = [u \in User |-> Idle]
    /\ newest = 1
    /\ torn = {}
    /\ origin = "none"

-----------------------------------------------------------------------------
(***************************************************************************)
(* The server: the order and its sale.                                     *)
(***************************************************************************)
SetOrder(s) == status' = s /\ UNCHANGED <<type, jobVars, versionVars, sale>>

CanReserve == status \in Reservable

\* reserveOrder: how much there is to reserve is for the stock to say.
Reserve(r) ==
    /\ CanReserve
    /\ SetOrder(r)
    /\ UNCHANGED <<florist, frozen>>

\* Also one who holds the assignment already.
CanClaim(u) == status \in Reservable \cup {"IN_PREPARATION"} /\ florist \in {Nobody, u}

\* claimOrder
Claim(u) ==
    /\ CanClaim(u)
    /\ florist' = u
    /\ UNCHANGED <<type, status, frozen, jobVars, versionVars, sale>>

\* releaseAssignment asks neither whose it is nor for the status.
Release ==
    /\ florist # Nobody
    /\ florist' = Nobody
    /\ UNCHANGED <<type, status, frozen, jobVars, versionVars, sale>>

CanStart == status \in {"RESERVED", "PARTIALLY_RESERVED"} /\ florist # Nobody

StartPreparation ==
    /\ CanStart
    /\ SetOrder("IN_PREPARATION")
    /\ UNCHANGED <<florist, frozen>>

\* onOrderMarkedReady begins a transaction within one, and fails.
DeliveryObjects == job \in {"PLANNED", "ASSIGNED"}

\* Mutant of Freeze: the composition is left open.
LeaveOpen == UNCHANGED frozen

Freeze == frozen' = TRUE

CanMarkReady == status = "IN_PREPARATION" /\ ~DeliveryObjects

MarkReady ==
    /\ CanMarkReady
    /\ SetOrder("READY")
    /\ Freeze
    /\ UNCHANGED florist

\* assembleOrder, of an order for which something could be reserved.
AssembleOrder ==
    /\ status \in Reservable \cup {"IN_PREPARATION"}
    /\ ~DeliveryObjects
    /\ SetOrder("READY")
    /\ Freeze
    /\ UNCHANGED florist

CompleteOrder ==
    /\ status = "READY"
    /\ frozen
    /\ SetOrder("COMPLETED")
    /\ UNCHANGED <<florist, frozen>>

CancelOrder ==
    /\ status \notin {"COMPLETED", "CANCELLED"}
    /\ SetOrder("CANCELLED")
    /\ florist' = Nobody
    /\ UNCHANGED frozen

SetSale(s, o) ==
    sale' = s /\ status' = o /\ UNCHANGED <<type, florist, frozen, jobVars, versionVars>>

CanSell == sale = "NONE" /\ status = "READY"

CreateSale == CanSell /\ SetSale("DRAFT", "READY")
CompleteSale == sale = "DRAFT" /\ status = "READY" /\ SetSale("COMPLETED", "COMPLETED")
AnnulSale == sale = "COMPLETED" /\ status = "COMPLETED" /\ SetSale("NONE", "READY")

-----------------------------------------------------------------------------
(***************************************************************************)
(* The server: the delivery job.                                           *)
(***************************************************************************)
IsOrderReady == status \in {"READY", "COMPLETED"}
Dispatchable == {"READY_FOR_DISPATCH", "ASSIGNED"}

CanDispatch == job \in {"PLANNED", "ASSIGNED", "READY_FOR_DISPATCH"} /\ IsOrderReady
CanHandOver == job \in Dispatchable /\ IsOrderReady
CanDepart == job \in Dispatchable \cup {"IN_TRANSIT"}  \* whether the order is ready or not
CanDeliver == job \in {"IN_TRANSIT", "PROBLEM"}

\* markReadyForDispatch, handover, startTransit, markDelivered
MarkReadyForDispatch == Columns("READY_FOR_DISPATCH", FALSE, FALSE)
Handover == Columns("kept", TRUE, FALSE)
StartTransit == Columns("IN_TRANSIT", TRUE, FALSE)
MarkDelivered == Columns("DELIVERED", FALSE, FALSE)

ColumnsOf(call) ==
    CASE call = "dispatch" -> MarkReadyForDispatch
      [] call = "handover" -> Handover
      [] call = "transit" -> StartTransit
      [] call = "deliver" -> MarkDelivered

CanDo(call) ==
    CASE call = "dispatch" -> CanDispatch
      [] call = "handover" -> CanHandOver
      [] call = "transit" -> CanDepart
      [] call = "deliver" -> CanDeliver

\* Mutant of Fits: the version is not asked for.
AnyVersion(n) == version < LastVersion

\* What the server reads before it writes: the job must have the version the
\* caller expects.
Fits(n) == n = version /\ version < LastVersion

\* updateJob: the columns are written by the job's id, with the version after
\* the one expected, whatever the job has become since it was read.  The version
\* may be there already: the call read what it expected while another wrote.
WriteJob(w, n, read) ==
    /\ job' = IF w.status = "kept" THEN job ELSE w.status
    /\ handedOver' = (handedOver \/ w.handed)
    /\ problem' = (problem \/ w.problem)
    /\ version' = n + 1
    /\ IF n + 1 > newest THEN newest' = n + 1 /\ UNCHANGED torn
       ELSE torn' = (IF read = n THEN torn \cup {n + 1} ELSE torn) /\ UNCHANGED newest
    /\ UNCHANGED <<orderVars, sale>>

CreateDelivery ==
    /\ type = "DELIVERY" /\ job = "NONE"
    /\ job' = "DRAFT"
    /\ UNCHANGED <<orderVars, handedOver, problem, versionVars, sale>>

\* Another's call about the job, which the server has read for it.
ReadFor(s, p) ==
    /\ adrift = NoCall
    /\ Fits(version)
    /\ adrift' = [NoCall EXCEPT !.call = "write", !.version = version, !.read = version,
                                !.columns = Columns(s, FALSE, p)]

PlanDelivery == job \in {"DRAFT", "PLANNED"} /\ ReadFor("PLANNED", FALSE)

AssignCourier ==
    /\ job \in {"DRAFT", "PLANNED", "READY_FOR_DISPATCH", "ASSIGNED"}
    /\ ReadFor(IF job = "READY_FOR_DISPATCH" THEN job ELSE "ASSIGNED", FALSE)

\* Whatever the status, which is written as it was read.
ReleaseCourier ==
    /\ job # "NONE"
    /\ ReadFor(IF job = "ASSIGNED" THEN "PLANNED" ELSE job, FALSE)

\* updateAddress, geocodeDelivery, setCoordinatesManual: a new version.
UpdateAddress == job \notin {"NONE", "DELIVERED", "CANCELLED"} /\ ReadFor("kept", FALSE)

CancelDelivery == job \notin {"NONE", "DELIVERED", "CANCELLED"} /\ ReadFor("CANCELLED", FALSE)

ReportProblem ==
    /\ job \in {"PLANNED", "READY_FOR_DISPATCH", "ASSIGNED", "IN_TRANSIT"}
    /\ ReadFor("PROBLEM", TRUE)

\* The statuses the form offers.
ResolveProblem(s) ==
    /\ problem
    /\ s \in {"PLANNED", "IN_TRANSIT", "DELIVERED", "CANCELLED"}
    /\ ReadFor(s, FALSE)

-----------------------------------------------------------------------------
(***************************************************************************)
(* What the screens make of an order.                                      *)
(***************************************************************************)
\* resolveOrderDisplayPhase
Phase ==
    IF status = "CANCELLED" THEN "NEW"
    ELSE IF status = "COMPLETED" \/ job = "DELIVERED" THEN "HANDED_OFF"
    ELSE IF status = "READY" THEN "READY"
    ELSE IF status = "IN_PREPARATION" \/ florist # Nobody THEN "IN_WORK" ELSE "NEW"

\* Mutant of Column: what waits for its courier is shown with what is assembled.
ColumnByJob ==
    IF status = "CANCELLED" THEN "CANCELLED"
    ELSE IF Phase # "HANDED_OFF" /\ job \in Dispatchable THEN "READY"
    ELSE IF Phase # "HANDED_OFF" /\ job = "IN_TRANSIT" THEN "WITH_COURIER"
    ELSE Phase

\* resolveOrderBoardColumn
Column ==
    IF status = "CANCELLED" THEN "CANCELLED"
    ELSE IF Phase # "HANDED_OFF" /\ job \in {"ASSIGNED", "IN_TRANSIT"} THEN "WITH_COURIER"
    ELSE Phase

\* canDropCardOnColumn: a card moves one column on, one that is picked up
\* skips the courier, and one may go back before the preparation starts.
CanDrop(from, m) ==
    CASE m = "toWork" -> from = "NEW"
      [] m = "toNew" -> from = "IN_WORK" /\ status # "IN_PREPARATION"
      [] m = "toReady" -> from = "IN_WORK"
      [] m = "toCourier" -> from = "READY" /\ type = "DELIVERY"
      [] m = "toDone" -> from = "WITH_COURIER" \/ (from = "READY" /\ type = "PICKUP")

\* The buttons of the delivery page.
Offers(m) ==
    /\ Phase = "READY" /\ job # "NONE"
    /\ IF m = "handOver" THEN job # "IN_TRANSIT" ELSE job = "IN_TRANSIT" \/ handedOver

\* Mutant of DeliveryIsDone: a cancelled delivery is still to be seen to.
OnlyDelivered == job = "DELIVERED"

\* deliveryBranchDone
DeliveryIsDone == job \in {"DELIVERED", "CANCELLED"}

\* assignCurrentBranch: the document the next step of the order is about.
CurrentBranch ==
    CASE status = "CANCELLED" -> "none"
      [] Phase \in {"NEW", "IN_WORK"} /\ status # "CANCELLED" -> "order"
      [] Phase \in {"READY", "HANDED_OFF"} ->
            IF type = "DELIVERY" /\ job # "NONE" /\ ~DeliveryIsDone THEN "delivery"
            ELSE IF sale = "DRAFT" \/ (Phase = "READY" /\ sale = "NONE") THEN "sale"
            ELSE IF Phase = "READY" THEN "order" ELSE "none"

-----------------------------------------------------------------------------
(***************************************************************************)
(* The chains.  After(t) is the call that follows in tab t, or "done".     *)
(***************************************************************************)
PreparationStart == {"RESERVED", "PARTIALLY_RESERVED"}

\* Mutant of AfterToWork: the order is claimed before it is reserved.
ClaimFirst(t, call) ==
    CASE call = "none" -> "claim"
      [] call = "claim" -> IF t.cur = "RESERVED" THEN "start" ELSE "reserve"
      [] call = "reserve" -> IF t.cur \in PreparationStart THEN "start" ELSE "rollback"
      [] call \in {"start", "rollback"} -> "done"

\* moveOrderToInWork: "Reserve before claim".
AfterToWork(t, call) ==
    CASE call = "none" -> IF t.cur = "RESERVED" THEN "claim" ELSE "reserve"
      [] call = "reserve" -> "claim"
      [] call = "claim" -> IF t.cur \in PreparationStart THEN "start" ELSE "rollback"
      [] call \in {"start", "rollback"} -> "done"

\* ensureOrderInPreparation, then markOrderReady
AfterToReady(t, call) ==
    CASE call = "none" -> IF t.cur = "IN_PREPARATION" THEN "markReady"
                          ELSE IF t.cur = "RESERVED" THEN "start" ELSE "reserve"
      [] call = "reserve" -> IF t.cur \in PreparationStart THEN "start" ELSE "done"
      [] call = "start" -> "markReady"
      [] call = "markReady" -> "done"

\* To the courier: by the status on the card, with the version of now.
AfterToCourier(t, call) ==
    CASE call = "none" -> "version"
      [] call = "version" -> IF t.cur \in {"PLANNED", "DRAFT"} THEN "dispatch"
                             ELSE IF t.cur \in Dispatchable THEN "transit" ELSE "done"
      [] call = "dispatch" -> "transit"
      [] call = "transit" -> "done"

\* To what is handed off; the call that delivers lacks its Idempotency-Key.
AfterToDone(t, call) ==
    CASE call = "none" -> IF type = "DELIVERY" THEN "version" ELSE "complete"
      [] call = "version" -> "deliverUnkeyed"
      [] call = "complete" -> "done"

\* handOverToDelivery and the first calls of finishDelivery
AfterHandOver(t, call) ==
    IF call = "transit" THEN "done"
    ELSE IF call = "none" /\ t.cur \in {"PLANNED", "ASSIGNED"} THEN "dispatch"
    ELSE IF ~t.handed THEN "handover"
    ELSE IF t.cur # "IN_TRANSIT" THEN "transit" ELSE "done"

\* finishDelivery
AfterFinish(t, call) ==
    IF call \in {"none", "dispatch", "handover", "transit"}
    THEN LET next == AfterHandOver(t, call)
         IN  IF next = "done" \/ (call = "none" /\ t.cur = "IN_TRANSIT") THEN "deliver" ELSE next
    ELSE CASE call = "deliver" -> "readOrder"
           [] call = "readOrder" -> IF t.cur = "READY" THEN "complete" ELSE "done"
           [] call = "complete" -> "done"

After(t, call) ==
    CASE t.move = "toWork" -> AfterToWork(t, call)
      [] t.move = "toNew" -> IF call = "none" THEN "release" ELSE "done"
      [] t.move = "toReady" -> AfterToReady(t, call)
      [] t.move = "toCourier" -> AfterToCourier(t, call)
      [] t.move = "toDone" -> AfterToDone(t, call)
      [] t.move = "handOver" -> AfterHandOver(t, call)
      [] t.move = "finish" -> AfterFinish(t, call)

\* Tab t once the call is answered; "none" is how it begins.
GoOn(t, call) ==
    LET next == After(t, call)
    IN  IF next = "done" THEN Idle ELSE [t EXCEPT !.next = next]

\* A tab that has just loaded the card, or the page of the delivery.
Loaded(m) ==
    [Idle EXCEPT !.move = m,
        !.cur = IF m \in {"toWork", "toNew", "toReady"} THEN status ELSE job,
        !.handed = m \in PageMove /\ handedOver,
        !.version = IF m \in PageMove THEN version ELSE 0]

Begin(u, m) ==
    /\ tab[u] = Idle
    /\ m \in Moves[u]
    /\ IF m \in BoardMove THEN CanDrop(Column, m) ELSE Offers(m)
    /\ m = "toCourier" => job \notin {"NONE", "CANCELLED"}
    /\ tab' = [tab EXCEPT ![u] = GoOn(Loaded(m), "none")]
    /\ UNCHANGED <<serverVars, adrift, origin>>

-----------------------------------------------------------------------------
(***************************************************************************)
(* The calls.                                                              *)
(***************************************************************************)
\* Tab u becomes t.
Proceed(u, t) == tab' = [tab EXCEPT ![u] = t]

\* A call about the order is carried out for user u.
CarryOut(call, u) ==
    \/ call = "reserve" /\ \E r \in Reservable : Reserve(r)
    \/ call = "claim" /\ Claim(u)
    \/ call = "start" /\ StartPreparation
    \/ call \in {"rollback", "release"} /\ Release
    \/ call = "markReady" /\ MarkReady
    \/ call = "complete" /\ CompleteOrder

\* An assignment made now came about in way o.
Assigned(o) ==
    origin' = IF florist' = Nobody THEN "none" ELSE IF florist' # florist THEN o ELSE origin

AnswerOrder(u) ==
    LET t == tab[u]
    IN  /\ CarryOut(t.next, u)
        /\ Assigned("chain")
        /\ Proceed(u, GoOn(IF t.next = "reserve" THEN [t EXCEPT !.cur = status'] ELSE t, t.next))
        /\ UNCHANGED adrift

\* The server reads the job for a call about it ...
BeginJob(u) ==
    LET t == tab[u]
    IN  /\ t.next \in JobCall /\ t.read = 0
        /\ CanDo(t.next) /\ Fits(t.version)
        /\ Proceed(u, [t EXCEPT !.read = version])
        /\ UNCHANGED <<serverVars, adrift, origin>>

\* What a page makes of the row it is answered; the calendar takes the version.
Told(t) ==
    LET q == [t EXCEPT !.version = version', !.read = 0]
    IN  IF t.move \in PageMove THEN [q EXCEPT !.cur = job', !.handed = handedOver'] ELSE q

\* ... and writes it.  The reads about the job and the order are done at once.
AnswerJob(u) ==
    LET t == tab[u]
    IN  \/ /\ t.next = "version"
           /\ Proceed(u, GoOn([t EXCEPT !.version = version], "version"))
           /\ UNCHANGED <<serverVars, adrift, origin>>
        \/ /\ t.next = "readOrder"
           /\ Proceed(u, GoOn([t EXCEPT !.cur = status], "readOrder"))
           /\ UNCHANGED <<serverVars, adrift, origin>>
        \/ /\ t.read # 0
           /\ WriteJob(ColumnsOf(t.next), t.version, t.read)
           /\ Proceed(u, GoOn(Told(t), t.next))
           /\ UNCHANGED <<adrift, origin>>

\* Mutant of AfterFailure: taking back a claim is tried until it succeeds.
TryUntilReleased(t) ==
    IF t.move = "toWork" /\ t.next \in {"start", "rollback"}
    THEN [t EXCEPT !.next = "rollback"] ELSE Idle

\* Only a start of the preparation that fails takes back the claim.
AfterFailure(t) ==
    IF t.move = "toWork" /\ t.next = "start" THEN [t EXCEPT !.next = "rollback"] ELSE Idle

\* The call of tab t, when nobody waits for it any more.
Unanswered(u, t) ==
    IF t.read # 0 THEN [NoCall EXCEPT !.call = "write", !.version = t.version, !.read = t.read,
                                      !.columns = ColumnsOf(t.next)]
    ELSE [NoCall EXCEPT !.call = t.next, !.by = IF t.next = "claim" THEN u ELSE Nobody,
                        !.version = IF t.next \in JobCall THEN t.version ELSE 0]

\* A call is refused or lost; or it stays adrift, for the server to do or not.
LetGo(u) ==
    \/ UNCHANGED adrift
    \/ /\ adrift = NoCall
       /\ tab[u].next \notin {"version", "readOrder", "deliverUnkeyed"}
       /\ adrift' = Unanswered(u, tab[u])

Fails(u) ==
    /\ tab[u] # Idle
    /\ Proceed(u, AfterFailure(tab[u]))
    /\ LetGo(u)
    /\ origin' = IF tab[u].next = "rollback" /\ florist = u THEN "left" ELSE origin
    /\ UNCHANGED serverVars

\* The page is left or reloaded in the middle of a chain.
Leaves(u) ==
    /\ tab[u] # Idle
    /\ Proceed(u, Idle)
    /\ LetGo(u)
    /\ origin' = IF tab[u].next \in {"start", "rollback"} /\ florist = u THEN "left" ELSE origin
    /\ UNCHANGED serverVars

\* The call adrift reaches the server, or comes to nothing.
Arrives ==
    /\ adrift # NoCall
    /\ UNCHANGED tab
    /\ \/ /\ CarryOut(adrift.call, adrift.by)
          /\ Assigned("unanswered")
          /\ adrift' = NoCall
       \/ /\ adrift.call \in JobCall
          /\ CanDo(adrift.call) /\ Fits(adrift.version)
          /\ adrift' = [adrift EXCEPT !.call = "write", !.read = version,
                                     !.columns = ColumnsOf(adrift.call)]
          /\ UNCHANGED <<serverVars, origin>>
       \/ /\ adrift.call = "write"
          /\ WriteJob(adrift.columns, adrift.version, adrift.read)
          /\ adrift' = NoCall
          /\ UNCHANGED origin
       \/ adrift' = NoCall /\ UNCHANGED <<serverVars, origin>>

\* Other screens and other users of the server.
OthersDo ==
    /\ UNCHANGED tab
    /\ \/ /\ \/ \E r \in Reservable : Reserve(r)
             \/ AssembleOrder
             \/ CompleteOrder
             \/ CancelOrder
             \/ CreateSale
             \/ CompleteSale
             \/ AnnulSale
          /\ Assigned("none")
          /\ UNCHANGED adrift
       \/ CreateDelivery /\ UNCHANGED <<adrift, origin>>
       \/ /\ \/ PlanDelivery
             \/ AssignCourier
             \/ ReleaseCourier
             \/ UpdateAddress
             \/ CancelDelivery
             \/ ReportProblem
             \/ \E s \in JobStatus : ResolveProblem(s)
          /\ UNCHANGED <<serverVars, origin>>

Next ==
    \/ \E u \in User :
          \/ \E m \in BoardMove \cup PageMove : Begin(u, m)
          \/ AnswerOrder(u)
          \/ BeginJob(u)
          \/ AnswerJob(u)
          \/ Fails(u)
          \/ Leaves(u)
    \/ Arrives
    \/ OthersDo

\* A call is answered, or fails, at last: the browser gives up on it.
Answers == \A u \in User : WF_vars(Fails(u) \/ AnswerOrder(u) \/ BeginJob(u) \/ AnswerJob(u))

Spec == Init /\ [][Next]_vars /\ Answers

-----------------------------------------------------------------------------
(***************************************************************************)
(* Type correctness.  An order that is READY or handed over has a frozen   *)
(* composition, one not yet in preparation does not.                       *)
(***************************************************************************)
TypeOK ==
    /\ type \in {"PICKUP", "DELIVERY"}
    /\ status \in OrderStatus
    /\ florist \in User \cup {Nobody}
    /\ frozen \in BOOLEAN
    /\ job \in JobStatus
    /\ handedOver \in BOOLEAN
    /\ problem \in BOOLEAN
    /\ newest \in Nat
    /\ version \in 1 .. newest
    /\ torn \subseteq 1 .. newest
    /\ sale \in {"NONE", "DRAFT", "COMPLETED"}
    /\ DOMAIN tab = User
    /\ origin = "none" <=> florist = Nobody
    /\ status \in {"READY", "COMPLETED"} => frozen
    /\ status \in Reservable \cup {"IN_PREPARATION"} => ~frozen

(***************************************************************************)
(* No bouquet leaves with a courier before it is assembled: the server     *)
(* does not ask (startTransit), the screens must not send it, however old  *)
(* the card or the page is.  Only resolving a problem may say otherwise.   *)
(***************************************************************************)
NothingLeavesUnassembled ==
    job \in {"IN_TRANSIT", "DELIVERED"} => frozen \/ problem

(***************************************************************************)
(* The optimistic lock serves a chain of calls: while the delivery page    *)
(* holds the version the job has, the job is as the page believes, so the  *)
(* next call of the chain, if the server reads that version for it, was    *)
(* decided from what is so.  Excepted is a version two calls gave the job, *)
(* as calls do that overlap: both read the version they expect, and the    *)
(* later write counts on from there.                                       *)
(***************************************************************************)
ActsOnWhatItSees ==
    \A u \in User :
        /\ tab[u].move \in PageMove
        /\ tab[u].next \in JobCall
        /\ tab[u].version = version
        /\ version \notin torn
        => tab[u].cur = job /\ tab[u].handed = handedOver

(***************************************************************************)
(* A card dropped on "in work" whose order cannot be prepared does not     *)
(* leave a stray assignment: while an order stands assigned by a claim a   *)
(* page was answered, and is not in preparation, the chain that claimed it *)
(* is still under way, to start the preparation or to take the claim back. *)
(* Excepted are a claim done without its answer coming back, a taking back *)
(* that failed, and a page that was left, all of which do strand one.      *)
(***************************************************************************)
NoStrayAssignment ==
    origin = "chain" /\ status \in Reservable =>
        tab[florist].move = "toWork" /\ tab[florist].next \in {"start", "rollback"}

\* The first call behind button m of the delivery page is one the server takes.
FirstCallIsTaken(m) ==
    CanDo(After(Loaded(m), "none"))

(***************************************************************************)
(* The journey of an order that is READY leads on: when it points to the   *)
(* delivery, its page has a button the server will follow, unless the job  *)
(* is not yet planned or has a problem to be resolved first; and it points *)
(* nowhere only when the bouquet is delivered.                             *)
(***************************************************************************)
JourneyLeadsOn ==
    status = "READY" =>
        /\ CurrentBranch = "delivery" /\ job \notin {"DRAFT", "PROBLEM"} =>
              \E m \in PageMove : Offers(m) /\ FirstCallIsTaken(m)
        /\ CurrentBranch = "none" => job = "DELIVERED"

\* The screen does not stay busy: whatever is begun comes to an end.
MovesEnd == \A u \in User : (tab[u] # Idle) ~> (tab[u] = Idle)
=============================================================================
