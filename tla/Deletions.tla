------------------------------ MODULE Deletions ------------------------------
(***************************************************************************)
(* Deletion requests: a record of the catalogue or of the staff is         *)
(* deleted for good only after somebody filed a request for it and a       *)
(* director approved the request.                                          *)
(*                                                                         *)
(* The use cases open a transaction, but their statements go through the   *)
(* base Prisma client and not through the transaction's: each of them      *)
(* commits on its own.  So a request has one action per statement that     *)
(* others can fall between, and may be cut off between any two.            *)
(*                                                                         *)
(* What has to hold before a record can be deleted depends on its type:    *)
(* Staff and Catalog extend this module with theirs.                       *)
(***************************************************************************)
EXTENDS Naturals, FiniteSets

CONSTANTS
    Calls,    \* bound: the requests, one HTTP call each
    Busy,     \* bound: those of them that are under way at once
    Ticket,   \* rows of deletion_requests, created one after the other
    Entity,   \* records that can be deleted
    None      \* no entity, no ticket

ASSUME DeletionsAssumption ==
    /\ Calls \in Nat /\ Busy \in Nat
    /\ None \notin Entity /\ None \notin Ticket

\* Requests are numbered as they arrive.
Request == 1..Calls

VARIABLES
    record,    \* record[e]: UNBORN, STORED or DELETED
    ticket,    \* ticket[k]: the entity and the status of a deletion request
    job,       \* job[p]: the statement that request p has to run next
    removedBy, \* history: the ticket whose approval deleted e
    muddled    \* history: tickets whose reviews overlapped or were cut off

rows == <<record, ticket, removedBy, muddled>>   \* all but job
deletionVars == <<rows, job>>

Blank == [entity |-> None, status |-> "NONE"]
Idle == [op |-> "idle", entity |-> None, ticket |-> None, wish |-> None]

Over == [Idle EXCEPT !.op = "over"]

UnderWay == {p \in Request : job[p] \notin {Idle, Over}}

Arrives(p) == job[p] = Idle /\ \A q \in 1..(p - 1) : job[q] # Idle

\* A request of several statements, of one, and what a statement leaves to do.
Starts(p, op, e, k, wish) ==
    /\ Arrives(p) /\ Cardinality(UnderWay) < Busy
    /\ job' = [job EXCEPT ![p] = [op |-> op, entity |-> e, ticket |-> k, wish |-> wish]]
AtOnce(p) == Arrives(p) /\ job' = [job EXCEPT ![p] = Over]
GoesOn(p, op) == job' = [job EXCEPT ![p].op = op]
Ends(p) == job' = [job EXCEPT ![p] = Over]

Stored(e) == record[e] = "STORED"

DeletionsInit ==
    /\ ticket = [k \in Ticket |-> Blank]
    /\ job \in [Request -> {Idle, Over}]   \* some may have been answered before
    /\ removedBy = [e \in Entity |-> None]
    /\ muddled = {}

-----------------------------------------------------------------------------
Pending(k) == ticket[k].status = "PENDING"
PendingFor(e) == \E k \in Ticket : ticket[k].entity = e /\ Pending(k)

\* createRequest: refused while a request for the record is pending ...
AskDeletion(p, e) ==
    /\ record[e] # "UNBORN"
    /\ ~PendingFor(e)
    /\ Starts(p, "file", e, None, None)
    /\ UNCHANGED rows

\* ... and then filed.  Nothing keeps two actors from filing one each.
FileRequest(p, k) ==
    /\ job[p].op = "file"
    /\ ticket[k] = Blank
    /\ ticket' = [ticket EXCEPT ![k] = [entity |-> job[p].entity, status |-> "PENDING"]]
    /\ Ends(p)
    /\ UNCHANGED <<record, removedBy, muddled>>

\* Mutant of Reviewable: a request that was settled can be reviewed again.
Filed(k) == ticket[k] # Blank

Reviewable(k) == Pending(k)

UnderReview(k) == \E p \in Request : job[p].ticket = k

\* approveRequest and rejectRequest both read the request and go on only if
\* it is pending.
Review(p, k, op) ==
    /\ Reviewable(k)
    /\ Starts(p, op, ticket[k].entity, k, None)
    /\ muddled' = IF UnderReview(k) THEN muddled \cup {k} ELSE muddled
    /\ UNCHANGED <<record, ticket, removedBy>>

StartApproval(p, k) == Review(p, k, "check")
StartRejection(p, k) == Review(p, k, "reject")

\* The record is gone, its request still says PENDING.
RecordDeleted(p) ==
    LET e == job[p].entity
    IN  /\ record' = [record EXCEPT ![e] = "DELETED"]
        /\ removedBy' = [removedBy EXCEPT ![e] = job[p].ticket]
        /\ GoesOn(p, "settle")

Settled(p, status) ==
    /\ ticket' = [ticket EXCEPT ![job[p].ticket].status = status]
    /\ Ends(p)
    /\ UNCHANGED <<record, removedBy, muddled>>

Approve(p) == job[p].op = "settle" /\ Settled(p, "APPROVED")
Reject(p) == job[p].op = "reject" /\ Settled(p, "REJECTED")

\* The statements of a request for a deletion, whatever the record.
Reviews == {"file", "check", "reject", "settle"}

\* The process stops, or the connection breaks, before one of the statements
\* given or one of a request for a deletion: what was written stays.
CutOff(p, ops) ==
    /\ job[p].op \in ops \cup Reviews
    /\ Ends(p)
    /\ muddled' = IF job[p].op = "settle" THEN muddled \cup {job[p].ticket} ELSE muddled
    /\ UNCHANGED <<record, ticket, removedBy>>

DeletionStep(p, entities) ==
    \/ /\ Arrives(p)
       /\ \/ \E e \in entities : AskDeletion(p, e)
          \/ \E k \in Ticket : StartApproval(p, k) \/ StartRejection(p, k)
    \/ \E k \in Ticket : FileRequest(p, k)
    \/ Approve(p)
    \/ Reject(p)

-----------------------------------------------------------------------------
(***************************************************************************)
(* The requests tell the truth about the records: an approved request is   *)
(* one whose approval deleted the record, and a pending or rejected one    *)
(* deleted nothing, whatever other requests, also for the same record, did *)
(* meanwhile.  An approval that deletes and then stops, or overlaps with a *)
(* second review of the same request, cannot keep that: those requests are *)
(* the muddled ones.                                                       *)
(***************************************************************************)
Settling(k) == \E p \in Request : job[p].op = "settle" /\ job[p].ticket = k

RequestsTellTheTruth ==
    \A k \in Ticket \ muddled :
        /\ ticket[k].status = "APPROVED" => record[ticket[k].entity] = "DELETED"
        /\ (ticket[k].status = "APPROVED" \/ Settling(k))
              <=> \E e \in Entity : removedBy[e] = k
=============================================================================
