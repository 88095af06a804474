--------------------------- MODULE FulfilmentRace ---------------------------
(***************************************************************************)
(* Requests for the same order that overlap.                               *)
(*                                                                         *)
(* The use cases of orders and sales run in READ COMMITTED transactions    *)
(* and read the order and the sale without locking them; some even read    *)
(* before the transaction begins.  The first lock a request meets is that  *)
(* of a balance row, when it reserves or issues, or of the row it writes.  *)
(* So a request reads in one or two steps, and its locks, writes and       *)
(* commit are one step: nothing it does in that step depends on a row that *)
(* another request can still change.  A request may fail at any time, its  *)
(* transaction is then rolled back.                                        *)
(*                                                                         *)
(* The use cases themselves are those of OrderFulfilment, with the view    *)
(* the request read.                                                       *)
(***************************************************************************)
EXTENDS OrderFulfilment

CONSTANTS
    Request,  \* the requests that can be in flight at once
    Kinds,    \* the use cases that are called
    OneKey    \* every client completes a sale with the same Idempotency-Key

ASSUME RequestAssumption == IsFiniteSet(Request) /\ OneKey \in BOOLEAN

VARIABLES
    flight,    \* flight[r]: the request in flight, or Idle
    keyed,     \* keyed[d]: an issue of d was posted under its idempotency key
    reversed   \* reversed[s]: s has ISSUE_REVERSAL movements

raceVars == <<vars, flight, keyed, reversed>>

OrderKinds == {"reserveOrder", "setPlanned", "startPreparation", "updateActual",
               "markReady", "assembleOrder", "completeOrder", "cancelOrder"}
SaleKinds == {"createSale", "completeSale", "annulSale"}

ASSUME KindAssumption == Kinds \subseteq OrderKinds \cup SaleKinds

Idle == [do |-> "nothing"]

\* What a request remembers: the use case, its document, the view of the order,
\* whether it found its work done already, and the movements to reverse.
Sees(kind, d, o) == [do |-> kind, doc |-> d, order |-> o, view |-> View(o),
                     replay |-> keyed[d], back |-> NoUnits]

\* What completeSale and annulSale read first is the sale alone.
SeesSale(step, s) == [do |-> step, doc |-> s]

RaceInit ==
    /\ Init
    /\ flight = [r \in Request |-> Idle]
    /\ keyed = [d \in Document |-> FALSE]
    /\ reversed = [s \in Sale |-> FALSE]

Reads(r, q) ==
    /\ flight' = [flight EXCEPT ![r] = q]
    /\ UNCHANGED <<vars, keyed, reversed>>

\* The check each use case makes on what it has just read, or else gives up.
Admits(kind, v) ==
    \/ kind = "reserveOrder" /\ CanReserve(v)
    \/ kind = "setPlanned" /\ CanEdit(v)
    \/ kind = "startPreparation" /\ CanStartPreparation(v)
    \/ kind = "updateActual" /\ CanEditActual(v)
    \/ kind = "markReady" /\ CanMarkReady(v)
    \/ kind = "assembleOrder" /\ CanAssemble(v)
    \/ kind = "completeOrder" /\ CanComplete(v)
    \/ kind = "cancelOrder" /\ CanCancel(v)

\* The one read of the use cases of orders, and of createSaleFromOrder.
ReadOrder(r, kind, o) ==
    /\ flight[r] = Idle
    /\ Admits(kind, View(o))
    /\ Reads(r, Sees(kind, o, o))

ReadOrderForSale(r, s) ==
    /\ flight[r] = Idle
    /\ sale[s] = "NONE"
    /\ ForSale(View(SaleOrder[s]))
    /\ ActiveSales(SaleOrder[s]) = {}
    /\ Reads(r, Sees("createSale", s, SaleOrder[s]))

\* completeSale goes on only with a DRAFT sale, annulSale with a COMPLETED one.
ReadSale(r, s) ==
    /\ flight[r] = Idle
    /\ \/ /\ "completeSale" \in Kinds
          /\ sale[s] = "DRAFT"
          /\ Reads(r, SeesSale("sale to complete", s))
       \/ /\ "annulSale" \in Kinds
          /\ sale[s] = "COMPLETED"
          /\ Reads(r, SeesSale("sale to annul", s))

\* Then completeSale reads the order and the idempotency key.
ReadOrderOfSale(r) ==
    LET s == flight[r].doc
        o == SaleOrder[s]
    IN  /\ flight[r].do = "sale to complete"
        /\ ForSale(View(o))
        /\ Reads(r, [Sees("completeSale", s, o) EXCEPT !.replay = OneKey /\ @])

\* And annulSale reads the movements of the sale, the reversals first.
ReadMovements(r) ==
    LET s == flight[r].doc
    IN  /\ flight[r].do = "sale to annul"
        /\ Reads(r, [Sees("annulSale", s, SaleOrder[s]) EXCEPT
                       !.replay = reversed[s],
                       !.back = IF reversed[s] THEN NoUnits ELSE issued[s]])

Fail(r) ==
    /\ flight[r] # Idle
    /\ Reads(r, Idle)

-----------------------------------------------------------------------------
\* Mutant of KeyIsFree: the posted key is not unique.
KeyIsIgnored(d) == TRUE

\* The unique index on the idempotency keys lets one issue of d commit.
KeyIsFree(d) == ~keyed[d]

\* An issue that found its key posted writes no movement (replayIssueResult).
IssueOnce(q, Issuing, Replaying) ==
    IF q.replay THEN Replaying /\ UNCHANGED keyed
    ELSE /\ KeyIsFree(q.doc) \/ (q.doc \in Sale /\ ~OneKey)
         /\ keyed' = [keyed EXCEPT ![q.doc] = TRUE]
         /\ Issuing

WriteCompleteOrder(q) ==
    /\ UNCHANGED reversed
    /\ IssueOnce(q, CompleteOrder(q.order, q.view),
         /\ status' = [status EXCEPT ![q.order] = "COMPLETED"]
         /\ UNCHANGED <<stockVars, line, actual, frozen, version, assigned, saleVars, issued>>)

WriteCompleteSale(q) ==
    /\ UNCHANGED reversed
    /\ IssueOnce(q, CompleteSaleFromOrder(q.doc, q.view),
         /\ Turn(q.doc, "DRAFT", "COMPLETED")
         /\ MoveOrder(q.order, "READY", "COMPLETED")
         /\ UNCHANGED <<stockVars, line, actual, frozen, version, assigned, content, issued>>)

\* Mutant of NotReversedYet: an ISSUE movement can be reversed twice.
ReversedOrNot(s) == TRUE

\* A movement's reversal is unique, so of two reversals one fails.
NotReversedYet(s) == ~reversed[s]

WriteAnnulSale(q) ==
    /\ UNCHANGED keyed
    /\ q.replay \/ NotReversedYet(q.doc)
    /\ reversed' = [reversed EXCEPT ![q.doc] = TRUE]
    /\ AnnulSaleOfOrder(q.doc, q.back)

WriteOrder(q) ==
    LET o == q.order
        v == q.view
    IN  /\ UNCHANGED <<keyed, reversed>>
        /\ \/ q.do = "reserveOrder" /\ ReserveOrder(o, v)
           \/ q.do = "setPlanned" /\ \E L \in SUBSET New(o) : SetPlannedComposition(o, v, L)
           \/ q.do = "startPreparation" /\ StartPreparation(o, v)
           \/ /\ q.do = "updateActual"
              /\ version[o] < MaxEdits
              /\ \E c \in Content : UpdateActualComposition(o, v, c)
           \/ q.do = "markReady" /\ MarkReady(o, v)
           \/ q.do = "assembleOrder" /\ AssembleOrder(o, v)
           \/ q.do = "cancelOrder" /\ CancelOrder(o, v)
           \/ q.do = "createSale" /\ CreateSaleFromOrder(q.doc, v)

\* The writes of a request, and its commit.
Write(r) ==
    LET q == flight[r]
    IN  /\ \/ q.do \in OrderKinds \cup {"createSale"} /\ WriteOrder(q)
           \/ q.do = "completeOrder" /\ WriteCompleteOrder(q)
           \/ q.do = "completeSale" /\ WriteCompleteSale(q)
           \/ q.do = "annulSale" /\ WriteAnnulSale(q)
        /\ flight' = [flight EXCEPT ![r] = Idle]

\* While no request is in flight goods arrive and orders are taken and prepared.
Prepare ==
    /\ \A r \in Request : flight[r] = Idle
    /\ \/ \E i \in Item : Arrive(i)
       \/ \E o \in Order :
             \/ CreateOrder(o)
             \/ \E L \in SUBSET New(o) : SetPlannedComposition(o, View(o), L)
             \/ AssembleOrder(o, View(o))
             \/ Assign(o, View(o))
    /\ UNCHANGED <<flight, keyed, reversed>>

RaceNext ==
    \/ Prepare
    \/ \E r \in Request :
          \/ \E kind \in Kinds \cap OrderKinds, o \in Order : ReadOrder(r, kind, o)
          \/ \E s \in Sale \ SalesOf(Counter) :
                \/ "createSale" \in Kinds /\ ReadOrderForSale(r, s)
                \/ ReadSale(r, s)
          \/ ReadOrderOfSale(r)
          \/ ReadMovements(r)
          \/ Fail(r)
          \/ Write(r)

RaceSpec == RaceInit /\ [][RaceNext]_raceVars

-----------------------------------------------------------------------------
(***************************************************************************)
(* Type correctness.                                                       *)
(***************************************************************************)
Views == [status : OrderStatus, lines : SUBSET Line, actual : [Item -> Nat],
          frozen : BOOLEAN, version : Nat, assigned : BOOLEAN]

InFlight ==
    {Idle}
    \cup [do : {"sale to complete", "sale to annul"}, doc : Sale]
    \cup [do : OrderKinds \cup SaleKinds, doc : Document, order : Order, view : Views,
          replay : BOOLEAN, back : [Item -> Nat]]

RaceTypeOK ==
    /\ TypeOK
    /\ flight \in [Request -> InFlight]
    /\ keyed \in [Document -> BOOLEAN]
    /\ reversed \in [Sale -> BOOLEAN]

\* However requests overlap, every row stays what its columns allow, sales match
\* what left the stock and nothing is promised twice.
OverlapsKeepTheStock == RaceTypeOK /\ SalesMatchIssues /\ PromisesAreCovered

(***************************************************************************)
(* Two completions of a sale do not issue twice: a COMPLETED sale has the  *)
(* actual composition of its order out, once, and any other sale nothing.  *)
(* "Double sale complete does not double-issue" (cleanup-stage-c-report).  *)
(***************************************************************************)
SaleIssuesOnce ==
    \A s \in Sale \ SalesOf(Counter) :
        issued[s] = IF sale[s] = "COMPLETED" THEN actual[SaleOrder[s]] ELSE NoUnits
=============================================================================
