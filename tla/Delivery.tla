------------------------------ MODULE Delivery ------------------------------
(***************************************************************************)
(* The delivery module: the delivery jobs of one order, the couriers, and  *)
(* what the orders module tells delivery about the order.                  *)
(*                                                                         *)
(* A delivery job is planned, a courier assigned to it or not, dispatched, *)
(* and delivered or cancelled; a problem may be reported on the way and is *)
(* resolved into a status the dispatcher chooses.  The order goes its own  *)
(* way (OrderFulfilment): delivery only asks whether it is ready.          *)
(*                                                                         *)
(* A use case of the orders module calls delivery within its transaction,  *)
(* and delivery begins a transaction of its own: that is refused, as       *)
(* NestedTransactionError, and the whole use case is rolled back.          *)
(*                                                                         *)
(* Requests do not overlap here, and each expects the version the job has, *)
(* so versions and idempotency keys are left out; so are addresses, times, *)
(* fees and the texts of problems.  A problem may be resolved again.       *)
(***************************************************************************)
EXTENDS Integers

CONSTANTS
    Job,      \* delivery jobs of the order
    Courier,  \* courier profiles
    NoCourier

ASSUME DeliveryAssumption == NoCourier \notin Courier

VARIABLES
    type,       \* of the order: PICKUP or DELIVERY
    order,      \* its status, EDITABLE standing for those before preparation
    status,     \* status[j]: of job j, NONE until it is created
    courier,    \* courier[j]: assignedCourierId
    assignment, \* assignment[j]: the courier of its assignment not yet released
    external,   \* external[j]: taxi or another service, without a reference
    handedOver, \* handedOver[j]: handedOverAt is set
    reported,   \* reported[j]: a problem was reported
    active,     \* couriers who are ACTIVE
    revived,    \* cancelled jobs that came back (history)
    nested      \* use cases that failed with NestedTransactionError (history)

orderVars == <<type, order>>
jobVars == <<status, courier, assignment, external, handedOver, reported, revived>>
vars == <<orderVars, jobVars, active, nested>>

OrderStatus == {"NONE", "EDITABLE", "IN_PREPARATION", "READY", "COMPLETED", "CANCELLED"}
DeliveryStatus == {"NONE", "DRAFT", "PLANNED", "READY_FOR_DISPATCH", "ASSIGNED",
                   "IN_TRANSIT", "DELIVERED", "PROBLEM", "CANCELLED"}

\* From which statuses the use cases may start.
PlanFrom == {"DRAFT", "PLANNED"}
Assignable == {"DRAFT", "PLANNED", "READY_FOR_DISPATCH", "ASSIGNED"}
ReadyDispatchFrom == {"PLANNED", "ASSIGNED", "READY_FOR_DISPATCH"}
Dispatchable == {"READY_FOR_DISPATCH", "ASSIGNED"}
TransitFrom == Dispatchable \cup {"IN_TRANSIT"}
DeliverFrom == {"IN_TRANSIT", "PROBLEM"}
ProblemFrom == {"PLANNED", "READY_FOR_DISPATCH", "ASSIGNED", "IN_TRANSIT"}
ResolveTargets == {"PLANNED", "ASSIGNED", "IN_TRANSIT", "DELIVERED", "CANCELLED"}

CancelFrom == {"DRAFT", "PLANNED", "READY_FOR_DISPATCH", "ASSIGNED", "IN_TRANSIT", "PROBLEM"}

\* Mutant of Active: a delivered job is done with.
ActiveUntilDelivered == {j \in Job : status[j] \notin {"NONE", "CANCELLED", "DELIVERED"}}

\* findActiveByOrderId
Active == {j \in Job : status[j] \notin {"NONE", "CANCELLED"}}

IsOrderReady == order \in {"READY", "COMPLETED"}

Init ==
    /\ type \in {"PICKUP", "DELIVERY"}
    /\ order = "NONE"
    /\ status = [j \in Job |-> "NONE"]
    /\ courier = [j \in Job |-> NoCourier]
    /\ assignment = [j \in Job |-> NoCourier]
    /\ external = [j \in Job |-> FALSE]
    /\ handedOver = [j \in Job |-> FALSE]
    /\ reported = [j \in Job |-> FALSE]
    /\ active = {}
    /\ revived = {}
    /\ nested = {}

-----------------------------------------------------------------------------
(***************************************************************************)
(* The order.  createOrder commits it before delivery hears of it: the job *)
(* of a DELIVERY order is created and planned by transactions of their own.*)
(***************************************************************************)
MoveOrder(from, to) ==
    /\ order \in from
    /\ order' = to
    /\ UNCHANGED <<type, jobVars, active, nested>>

CreateOrder == MoveOrder({"NONE"}, "EDITABLE")
StartPreparation == MoveOrder({"EDITABLE"}, "IN_PREPARATION")
CompleteOrder == MoveOrder({"READY"}, "COMPLETED")
RevertOrderToReady == MoveOrder({"COMPLETED"}, "READY")
CancelOrder == MoveOrder({"EDITABLE", "IN_PREPARATION", "READY"}, "CANCELLED")

NestedTransaction(use) ==
    /\ nested' = nested \cup {use}
    /\ UNCHANGED <<orderVars, jobVars, active>>

\* onOrderMarkedReady wants to move the job of the order, in a transaction.
WantsToSync == \E j \in Active : status[j] \in {"PLANNED", "ASSIGNED"}

\* markReady and assembleOrder
MarkReady ==
    /\ ~WantsToSync
    /\ MoveOrder({"EDITABLE", "IN_PREPARATION"}, "READY")

MarkReadyFails ==
    /\ WantsToSync
    /\ order \in {"EDITABLE", "IN_PREPARATION"}
    /\ NestedTransaction("markReady")

\* updateDraft: onFulfillmentTypeChanged cancels the active job of an order
\* that becomes PICKUP, and creates one for an order that becomes DELIVERY.
UpdateDraftType ==
    /\ order = "EDITABLE"
    /\ IF type = "DELIVERY" THEN Active = {} ELSE Active # {}
    /\ type' = IF type = "DELIVERY" THEN "PICKUP" ELSE "DELIVERY"
    /\ UNCHANGED <<order, jobVars, active, nested>>

SwitchToPickupFails ==
    /\ order = "EDITABLE"
    /\ type = "DELIVERY"
    /\ \E j \in Active : ~handedOver[j] /\ status[j] \notin {"IN_TRANSIT", "DELIVERED"}
    /\ NestedTransaction("switchToPickup")

SwitchToDeliveryFails ==
    /\ order = "EDITABLE"
    /\ type = "PICKUP"
    /\ Active = {}
    /\ NestedTransaction("switchToDelivery")

-----------------------------------------------------------------------------
(***************************************************************************)
(* The jobs.                                                               *)
(***************************************************************************)
SetStatus(j, s) == status' = [status EXCEPT ![j] = s]

\* createDeliveryFromOrder does not ask for the status of the order.
CreateDeliveryFromOrder(j, x) ==
    /\ order # "NONE"
    /\ type = "DELIVERY"
    /\ Active = {}
    /\ status[j] = "NONE"
    /\ SetStatus(j, "DRAFT")
    /\ external' = [external EXCEPT ![j] = x]
    /\ UNCHANGED <<orderVars, courier, assignment, handedOver, reported, active, revived, nested>>

\* The method and the reference may change.
PlanDelivery(j, x) ==
    /\ status[j] \in PlanFrom
    /\ SetStatus(j, "PLANNED")
    /\ external' = [external EXCEPT ![j] = x]
    /\ UNCHANGED <<orderVars, courier, assignment, handedOver, reported, active, revived, nested>>

StatusAfterAssign(s) == IF s = "READY_FOR_DISPATCH" THEN s ELSE "ASSIGNED"

Assign(j, c) ==
    /\ assignment' = [assignment EXCEPT ![j] = c]
    /\ courier' = [courier EXCEPT ![j] = c]

\* assignCourier, reassignCourier
AssignCourier(j, c) ==
    /\ status[j] \in Assignable
    /\ c \in active
    /\ Assign(j, c)
    /\ SetStatus(j, StatusAfterAssign(status[j]))
    /\ UNCHANGED <<orderVars, external, handedOver, reported, active, revived, nested>>

\* Mutant of Unassign: the assignment is not released.
ForgetCourier(j) ==
    /\ courier' = [courier EXCEPT ![j] = NoCourier]
    /\ UNCHANGED assignment

Unassign(j) == Assign(j, NoCourier)

\* In whatever status the job is.
ReleaseCourier(j) ==
    /\ status[j] # "NONE"
    /\ Unassign(j)
    /\ SetStatus(j, IF status[j] = "ASSIGNED" THEN "PLANNED" ELSE status[j])
    /\ UNCHANGED <<orderVars, external, handedOver, reported, active, revived, nested>>

MarkReadyForDispatch(j) ==
    /\ status[j] \in ReadyDispatchFrom
    /\ IsOrderReady
    /\ SetStatus(j, "READY_FOR_DISPATCH")
    /\ UNCHANGED <<orderVars, courier, assignment, external, handedOver, reported, active, revived, nested>>

Handover(j) ==
    /\ status[j] \in Dispatchable
    /\ IsOrderReady
    /\ handedOver' = [handedOver EXCEPT ![j] = TRUE]
    /\ UNCHANGED <<orderVars, status, courier, assignment, external, reported, active, revived, nested>>

\* startTransit does not ask whether the order is ready.
StartTransit(j) ==
    /\ status[j] \in TransitFrom
    /\ external[j] => assignment[j] # NoCourier
    /\ SetStatus(j, "IN_TRANSIT")
    /\ handedOver' = [handedOver EXCEPT ![j] = TRUE]
    /\ UNCHANGED <<orderVars, courier, assignment, external, reported, active, revived, nested>>

MarkDelivered(j) ==
    /\ status[j] \in DeliverFrom
    /\ SetStatus(j, "DELIVERED")
    /\ UNCHANGED <<orderVars, courier, assignment, external, handedOver, reported, active, revived, nested>>

CancelDelivery(j) ==
    /\ status[j] \in CancelFrom
    /\ SetStatus(j, "CANCELLED")
    /\ Unassign(j)
    /\ UNCHANGED <<orderVars, external, handedOver, reported, active, revived, nested>>

ReportProblem(j) ==
    /\ status[j] \in ProblemFrom
    /\ SetStatus(j, "PROBLEM")
    /\ reported' = [reported EXCEPT ![j] = TRUE]
    /\ UNCHANGED <<orderVars, courier, assignment, external, handedOver, active, revived, nested>>

\* Mutant of StaysUnique: the unique index is missing.
StaysUniqueOrNot(j, s) == TRUE

\* delivery_jobs_one_active_per_order
StaysUnique(j, s) == s = "CANCELLED" \/ Active \subseteq {j}

\* resolveProblem asks neither for the job's status nor for the problem's.
ResolveProblem(j, s) ==
    /\ reported[j]
    /\ s \in ResolveTargets
    /\ StaysUnique(j, s)
    /\ SetStatus(j, s)
    /\ revived' = IF status[j] = "CANCELLED" /\ s # "CANCELLED" THEN revived \cup {j} ELSE revived
    /\ UNCHANGED <<orderVars, courier, assignment, external, handedOver, reported, active, nested>>

\* createCourier, archiveCourier: a courier may be archived in mid-delivery.
SyncCourierMembership(c) ==
    /\ active' = IF c \in active THEN active \ {c} ELSE active \cup {c}
    /\ UNCHANGED <<orderVars, jobVars, nested>>

Next ==
    \/ CreateOrder
    \/ StartPreparation
    \/ CompleteOrder
    \/ RevertOrderToReady
    \/ CancelOrder
    \/ MarkReady
    \/ MarkReadyFails
    \/ UpdateDraftType
    \/ SwitchToPickupFails
    \/ SwitchToDeliveryFails
    \/ \E j \in Job :
          \/ \E x \in BOOLEAN : CreateDeliveryFromOrder(j, x) \/ PlanDelivery(j, x)
          \/ \E c \in Courier : AssignCourier(j, c)
          \/ ReleaseCourier(j)
          \/ MarkReadyForDispatch(j)
          \/ Handover(j)
          \/ StartTransit(j)
          \/ MarkDelivered(j)
          \/ CancelDelivery(j)
          \/ ReportProblem(j)
          \/ \E s \in ResolveTargets : ResolveProblem(j, s)
    \/ \E c \in Courier : SyncCourierMembership(c)

Spec == Init /\ [][Next]_vars

-----------------------------------------------------------------------------
\* Job j is neither to be created nor cancelled.
Exists(j) == status[j] \notin {"NONE", "CANCELLED"}

(***************************************************************************)
(* Type correctness.  At most one job of the order is not cancelled        *)
(* (ADR-027), also when a cancelled one is resolved into another status.   *)
(***************************************************************************)
TypeOK ==
    /\ type \in {"PICKUP", "DELIVERY"}
    /\ order \in OrderStatus
    /\ status \in [Job -> DeliveryStatus]
    /\ courier \in [Job -> Courier \cup {NoCourier}]
    /\ assignment \in [Job -> Courier \cup {NoCourier}]
    /\ external \in [Job -> BOOLEAN]
    /\ handedOver \in [Job -> BOOLEAN]
    /\ reported \in [Job -> BOOLEAN]
    /\ active \subseteq Courier
    /\ revived \subseteq Job
    /\ \A i, j \in Job : Exists(i) /\ Exists(j) => i = j

(***************************************************************************)
(* The courier on the job is the one whose assignment is still active: who *)
(* reads the board and who reads the assignments see the same, through     *)
(* reassignment, release, problems and cancellation.                       *)
(***************************************************************************)
CourierAgrees == \A j \in Job : courier[j] = assignment[j]

(***************************************************************************)
(* "PICKUP: no active DeliveryJob" (ADR-028), except a cancelled one that  *)
(* resolving one of its problems brought back.                             *)
(***************************************************************************)
PickupHasNoDelivery == type = "PICKUP" => \A j \in Job : Exists(j) => j \in revived

\* A job agrees with its courier's assignment and with the type of its order.
JobsAgree == CourierAgrees /\ PickupHasNoDelivery

(***************************************************************************)
(* What is delivered or cancelled stays so, unless a problem was reported: *)
(* then resolving it, for the first time or again, can undo both.          *)
(***************************************************************************)
FinalStays ==
    [][\A j \in Job :
          status[j] \in {"DELIVERED", "CANCELLED"} /\ status'[j] # status[j] => reported[j]]_vars

(***************************************************************************)
(* What the documents say of the calls between the modules: marking the    *)
(* order READY moves its job (delivery-flow), and a change of its type     *)
(* cancels or creates one (ADR-028).  None of them then ends in an error.  *)
(***************************************************************************)
OrdersReachDelivery == nested = {}
=============================================================================
