---------------------------- MODULE StockLedger ----------------------------
(***************************************************************************)
(* The inventory module of the flower-erp API: the stock of one warehouse  *)
(* as the four inventory adapters maintain it.                             *)
(*                                                                         *)
(* Goods receipts create batches; reservations hold units of particular    *)
(* batches for the lines of an order's composition; sales, handed over     *)
(* orders and write-offs take units out of batches; sales and write-offs   *)
(* can be reversed.  Every operation also adds movements to a ledger and   *)
(* keeps one balance row per item, onHand and reserved, in step.           *)
(*                                                                         *)
(* An action is one database transaction, from its first read to its       *)
(* commit.  A transaction that throws (a guard below that does not hold)   *)
(* rolls back and changes nothing.  What two transactions do to each other *)
(* while they overlap is the subject of ReservationRace.                   *)
(***************************************************************************)
EXTENDS Quantities, Integers

CONSTANTS
    Item,         \* catalogue items
    Batch,        \* batches, numbered in BATCH_CONSUMPTION_ORDER
    Receipt,      \* goods receipt documents
    Line,         \* order composition items, each ordering one item
    Sale,         \* sales
    Order,        \* orders
    WriteOff,     \* write-off documents
    ItemOf,       \* the item a batch holds
    ReceiptOf,    \* the goods receipt whose line created a batch
    LineItem,     \* the item a composition line orders
    Composition,  \* the sets of lines that make up the composition of an order
    Revisable,    \* receipts that are corrected or reversed after posting
    MaxQty,       \* bound: the largest quantity of a request
    MaxCorrected  \* bound: the largest total of corrections of a batch

Doc == Sale \cup Order \cup WriteOff

ASSUME BatchAssumption ==
    /\ Batch \subseteq Nat
    /\ IsFiniteSet(Batch)
    /\ ItemOf \in [Batch -> Item]
    /\ ReceiptOf \in [Batch -> Receipt]

ASSUME LineAssumption ==
    /\ IsFiniteSet(Line)
    /\ LineItem \in [Line -> Item]
    /\ Composition \subseteq SUBSET Line
    /\ \A C \in Composition : \A l, m \in C : LineItem[l] = LineItem[m] => l = m

ASSUME DocAssumption ==
    /\ IsFiniteSet(Doc)
    /\ Revisable \subseteq Receipt
    /\ Sale \cap Order = {}
    /\ Sale \cap WriteOff = {}
    /\ Order \cap WriteOff = {}

ASSUME BoundAssumption == MaxQty \in Nat /\ MaxCorrected \in Nat

MovementType == {"RECEIPT", "RECEIPT_REVERSAL", "ISSUE", "ISSUE_REVERSAL",
                 "WRITE_OFF", "WRITE_OFF_REVERSAL",
                 "COUNT_ADJUSTMENT_IN", "COUNT_ADJUSTMENT_OUT"}

BatchStatus == {"NONE", "ACTIVE", "DEPLETED", "REVERSED"}

VARIABLES
    receipt,    \* receipt[r]: DRAFT, POSTED or REVERSED
    status,     \* status[b]: NONE until the receipt line is posted
    initial,    \* initial[b]: the initialQuantity of the batch
    remaining,  \* remaining[b]: its remainingQuantity
    active,     \* active[l, b]: units of b in ACTIVE reservations of line l
    onHand,     \* onHand[i], reserved[i]: the balance row of item i
    reserved,
    doc,        \* doc[d]: OPEN, POSTED or REVERSED, as the keys and movements say
    took,       \* took[d][b]: units of b in the ISSUE or WRITE_OFF movements of d
    moved       \* moved[b][t]: sum of the quantities stored in b's movements of type t

batches == <<receipt, status, initial, remaining>>
balances == <<onHand, reserved>>
papers == <<doc, took>>
vars == <<batches, active, balances, papers, moved>>

-----------------------------------------------------------------------------
BatchesOf(i) == {b \in Batch : ItemOf[b] = i}
LinesOf(r) == {b \in Batch : ReceiptOf[b] = r}

\* Units of batch b, and of item i, that the lines of L hold.
HeldOn(L, b) == TotalOn(active, L \X {b})
HeldOf(L, i) == TotalOn(active, L \X BatchesOf(i))

\* Mutant of FreeWithout: the reservations on the batch are not subtracted.
AllRemaining(L, gone) ==
    [b \in Batch |-> IF status[b] = "ACTIVE" THEN remaining[b] - gone[b] ELSE 0]

\* Units of batch b that no ACTIVE reservation holds, when the lines of L hold
\* nothing and gone[b] units have left: the quantity a FIFO walk may take.
FreeWithout(L, gone) ==
    [b \in Batch |->
        IF status[b] = "ACTIVE"
        THEN Monus(remaining[b] - gone[b], HeldOn(Line \ L, b)) ELSE 0]

Nothing == [b \in Batch |-> 0]

\* A movement of quantity qty[b] is written on every batch of the walk.
Moved(type, qty) ==
    [b \in Batch |-> [moved[b] EXCEPT ![type] = @ + qty[b]]]

\* The batch rows after qty[b] units have left them.
TakenOut(qty) ==
    /\ remaining' = [b \in Batch |-> remaining[b] - qty[b]]
    /\ status' = [b \in Batch |->
                    IF qty[b] > 0 /\ qty[b] = remaining[b] THEN "DEPLETED" ELSE status[b]]

\* Mutant of PutBack: an emptied batch is not refilled.
PutBackIfActive(qty) ==
    /\ remaining' = [b \in Batch |->
                       IF status[b] = "ACTIVE" THEN remaining[b] + qty[b] ELSE remaining[b]]
    /\ status' = status

\* The batch rows after qty[b] units have come back to them.
PutBack(qty) ==
    /\ remaining' = [b \in Batch |-> remaining[b] + qty[b]]
    /\ status' = [b \in Batch |->
                    IF qty[b] > 0 /\ status[b] = "DEPLETED" THEN "ACTIVE" ELSE status[b]]

\* Every adapter refuses a balance that would leave these bounds.
BalancesHold ==
    \A i \in Item : onHand[i] >= 0 /\ reserved[i] >= 0 /\ reserved[i] <= onHand[i]

-----------------------------------------------------------------------------
Init ==
    /\ receipt = [r \in Receipt |-> "DRAFT"]
    /\ status = [b \in Batch |-> "NONE"]
    /\ initial = [b \in Batch |-> 0]
    /\ remaining = [b \in Batch |-> 0]
    /\ active = [h \in Line \X Batch |-> 0]
    /\ onHand = [i \in Item |-> 0]
    /\ reserved = [i \in Item |-> 0]
    /\ doc = [d \in Doc |-> "OPEN"]
    /\ took = [d \in Doc |-> Nothing]
    /\ moved = [b \in Batch |-> [t \in MovementType |-> 0]]

(***************************************************************************)
(* postGoodsReceipt: a batch, a RECEIPT movement and a higher balance for  *)
(* every line with an accepted quantity; a line of defective goods only    *)
(* creates nothing.                                                        *)
(***************************************************************************)
PostReceipt(r, accepted) ==
    LET in == [b \in Batch |-> IF b \in LinesOf(r) THEN accepted[b] ELSE 0]
    IN  /\ receipt[r] = "DRAFT"
        /\ receipt' = [receipt EXCEPT ![r] = "POSTED"]
        /\ status' = [b \in Batch |-> IF in[b] > 0 THEN "ACTIVE" ELSE status[b]]
        /\ initial' = [b \in Batch |-> IF in[b] > 0 THEN in[b] ELSE initial[b]]
        /\ remaining' = [b \in Batch |-> IF in[b] > 0 THEN in[b] ELSE remaining[b]]
        /\ onHand' = [i \in Item |-> onHand[i] + TotalOn(in, BatchesOf(i))]
        /\ moved' = Moved("RECEIPT", in)
        /\ UNCHANGED <<active, reserved, papers>>

\* Mutant of Unused: a batch that still has stock may be reversed.
StillInStock(b) == remaining[b] > 0

(***************************************************************************)
(* reverseGoodsReceipt: only while every batch of the receipt still has    *)
(* its initial quantity, and only if the balance can spare it.  The        *)
(* reservations on the batches are not looked at.                          *)
(***************************************************************************)
Unused(b) == remaining[b] = initial[b]

ReverseReceipt(r) ==
    LET made == {b \in LinesOf(r) : status[b] # "NONE"}
        out == [b \in Batch |-> IF b \in made THEN initial[b] ELSE 0]
    IN  /\ receipt[r] = "POSTED"
        /\ \A b \in made : Unused(b)
        /\ receipt' = [receipt EXCEPT ![r] = "REVERSED"]
        /\ status' = [b \in Batch |-> IF b \in made THEN "REVERSED" ELSE status[b]]
        /\ remaining' = [b \in Batch |-> IF b \in made THEN 0 ELSE remaining[b]]
        /\ onHand' = [i \in Item |-> onHand[i] - TotalOn(out, BatchesOf(i))]
        /\ moved' = Moved("RECEIPT_REVERSAL", [b \in Batch |-> - out[b]])
        /\ UNCHANGED <<initial, active, reserved, papers>>
        /\ BalancesHold'

\* Mutants of CoversIssued and SizeOf: a correction below what was taken; a
\* movement that keeps the sign of the correction.
CoversAnything(b, delta) == TRUE
SignedSize(delta) == delta

(***************************************************************************)
(* adjustGoodsReceiptItem: the accepted quantity of a posted line becomes  *)
(* next; what was already taken out of the batch stays taken.              *)
(***************************************************************************)
CoversIssued(b, delta) == remaining[b] + delta >= 0
SizeOf(delta) == IF delta > 0 THEN delta ELSE -delta

CorrectReceiptLine(b, next) ==
    LET delta == next - initial[b]
        type == IF delta > 0 THEN "COUNT_ADJUSTMENT_IN" ELSE "COUNT_ADJUSTMENT_OUT"
    IN  /\ status[b] \in {"ACTIVE", "DEPLETED"}
        /\ next > 0
        /\ CoversIssued(b, delta)
        /\ initial' = [initial EXCEPT ![b] = next]
        /\ remaining' = [remaining EXCEPT ![b] = @ + delta]
        /\ status' = [status EXCEPT ![b] = IF remaining[b] + delta > 0
                                           THEN "ACTIVE" ELSE "DEPLETED"]
        /\ onHand' = [onHand EXCEPT ![ItemOf[b]] = @ + delta]
        /\ moved' = [moved EXCEPT ![b][type] = @ + SizeOf(delta)]
        /\ UNCHANGED <<receipt, active, reserved, papers>>
        /\ BalancesHold'

(***************************************************************************)
(* releaseComposition: every ACTIVE reservation of the lines of L is       *)
(* RELEASED and the balances are relieved of it.                           *)
(***************************************************************************)
Release(L) ==
    /\ active' = [h \in Line \X Batch |-> IF h[1] \in L THEN 0 ELSE active[h]]
    /\ reserved' = [i \in Item |-> reserved[i] - HeldOf(L, i)]
    /\ UNCHANGED <<batches, onHand, papers, moved>>
    /\ BalancesHold'

(***************************************************************************)
(* reserveComposition: the lines of L, each of an item of its own (unique  *)
(* in the table of composition items), first lose what they hold; then     *)
(* each takes the least of what it wants and what is available from the    *)
(* free units of the item's ACTIVE batches, oldest first.                  *)
(***************************************************************************)
Available(L, i) == onHand[i] - (reserved[i] - HeldOf(L, i))

Granted(L, want) ==
    [h \in Line \X Batch |->
        IF h[1] \in L /\ LineItem[h[1]] = ItemOf[h[2]]
        THEN Walk(FreeWithout(L, Nothing),
                  Least(want[h[1]], Available(L, LineItem[h[1]])),
                  BatchesOf(ItemOf[h[2]]))[h[2]]
        ELSE 0]

Reserve(L, want) ==
    LET granted == Granted(L, want)
    IN  /\ \A l \in L : want[l] > 0
        /\ \A i \in Item : HeldOf(L, i) <= reserved[i]
        /\ active' = [h \in Line \X Batch |-> IF h[1] \in L THEN granted[h] ELSE active[h]]
        /\ reserved' = [i \in Item |->
              reserved[i] - HeldOf(L, i) + TotalOn(granted, L \X BatchesOf(i))]
        /\ UNCHANGED <<batches, onHand, papers, moved>>
        /\ BalancesHold'

(***************************************************************************)
(* issueStock, for document d and want[i] units of each item i: the        *)
(* reservations of the lines of L are consumed first, whatever these lines *)
(* hold of an issued item beyond that is released, and the rest comes from *)
(* free stock, oldest first.  Reservations of items that are not issued    *)
(* stay as they are.  A line's reservations are read in createdAt order,   *)
(* which does not separate rows written at the same instant, so any one of *)
(* them may be the one consumed in part.                                   *)
(***************************************************************************)
FromHeld(L, want, i) == Least(want[i], HeldOf(L, i))

Consumptions(L, want) ==
    {t \in [Batch -> 0 .. MaxQty] :
        /\ \A b \in Batch : t[b] <= HeldOn(L, b)
        /\ \A i \in Item : TotalOn(t, BatchesOf(i)) = FromHeld(L, want, i)
        /\ \A b, c \in Batch :
              (/\ ItemOf[b] = ItemOf[c]
               /\ 0 < t[b] /\ t[b] < HeldOn(L, b)
               /\ 0 < t[c] /\ t[c] < HeldOn(L, c)) => b = c}

FromFree(L, want, consumed) ==
    [b \in Batch |->
        Walk(FreeWithout(L, consumed), want[ItemOf[b]] - FromHeld(L, want, ItemOf[b]),
             BatchesOf(ItemOf[b]))[b]]

\* Mutant of Cleared: the issue also ends what other orders hold of the item.
ClearedForAll(L, want, h) == want[ItemOf[h[2]]] > 0

\* What an issue takes off the reserved quantity of i, and the reservations
\* it ends: all that the lines of L hold of the issued items.
Freed(L, want, i) == IF want[i] > 0 THEN HeldOf(L, i) ELSE 0
Cleared(L, want, h) == h[1] \in L /\ want[ItemOf[h[2]]] > 0

Issue(d, L, want) ==
    \E consumed \in Consumptions(L, want) :
        LET walked == FromFree(L, want, consumed)
            given == [b \in Batch |-> consumed[b] + walked[b]]
        IN  /\ doc[d] = "OPEN"
            /\ \A i \in Item : TotalOn(given, BatchesOf(i)) = want[i]
            /\ \A b \in Batch : given[b] <= remaining[b]
            /\ TakenOut(given)
            /\ active' = [h \in Line \X Batch |->
                  IF Cleared(L, want, h) THEN 0 ELSE active[h]]
            /\ onHand' = [i \in Item |-> onHand[i] - want[i]]
            /\ reserved' = [i \in Item |-> reserved[i] - Freed(L, want, i)]
            /\ doc' = [doc EXCEPT ![d] = "POSTED"]
            /\ took' = [took EXCEPT ![d] = given]
            /\ moved' = Moved("ISSUE", given)
            /\ UNCHANGED <<receipt, initial>>
            /\ BalancesHold'

\* reverseIssue: each ISSUE movement of sale s goes back to its batch.
ReverseIssue(s) ==
    /\ doc[s] = "POSTED"
    /\ PutBack(took[s])
    /\ onHand' = [i \in Item |-> onHand[i] + TotalOn(took[s], BatchesOf(i))]
    /\ doc' = [doc EXCEPT ![s] = "REVERSED"]
    /\ moved' = Moved("ISSUE_REVERSAL", [b \in Batch |-> - took[s][b]])
    /\ UNCHANGED <<receipt, initial, active, reserved, took>>

\* postWriteOff: want[i] units of each item leave its free stock, oldest first.
PostWriteOff(w, want) ==
    LET given == FromFree({}, want, Nothing)
    IN  /\ doc[w] = "OPEN"
        /\ \A i \in Item : TotalOn(given, BatchesOf(i)) = want[i]
        /\ TakenOut(given)
        /\ onHand' = [i \in Item |-> onHand[i] - want[i]]
        /\ doc' = [doc EXCEPT ![w] = "POSTED"]
        /\ took' = [took EXCEPT ![w] = given]
        /\ moved' = Moved("WRITE_OFF", given)
        /\ UNCHANGED <<receipt, initial, active, reserved>>
        /\ BalancesHold'

\* reverseWriteOff: each WRITE_OFF movement of w goes back to its batch.
ReverseWriteOff(w) ==
    /\ doc[w] = "POSTED"
    /\ PutBack(took[w])
    /\ onHand' = [i \in Item |-> onHand[i] + TotalOn(took[w], BatchesOf(i))]
    /\ doc' = [doc EXCEPT ![w] = "REVERSED"]
    /\ moved' = Moved("WRITE_OFF_REVERSAL", [b \in Batch |-> - took[w][b]])
    /\ UNCHANGED <<receipt, initial, active, reserved, took>>
    /\ BalancesHold'

-----------------------------------------------------------------------------
\* What a caller may ask for.  Corrections are bounded by MaxCorrected.
Qty == 0 .. MaxQty

Requested == {want \in [Item -> Qty] : \E i \in Item : want[i] > 0}

CorrectionsOf(b) ==
    moved[b]["COUNT_ADJUSTMENT_IN"] + moved[b]["COUNT_ADJUSTMENT_OUT"]

Next ==
    \/ \E r \in Receipt : \E accepted \in [LinesOf(r) -> Qty] : PostReceipt(r, accepted)
    \/ \E r \in Revisable : ReverseReceipt(r)
    \/ \E b \in Batch, next \in Qty :
          /\ ReceiptOf[b] \in Revisable
          /\ CorrectReceiptLine(b, next)
          /\ CorrectionsOf(b)' <= MaxCorrected
    \/ \E L \in Composition : Release(L)
    \/ \E L \in Composition : \E want \in [L -> Qty] : Reserve(L, want)
    \/ \E d \in Sale, want \in Requested : Issue(d, {}, want)
    \/ \E d \in Sale \cup Order, L \in Composition, want \in Requested : Issue(d, L, want)
    \/ \E s \in Sale : ReverseIssue(s)
    \/ \E w \in WriteOff, want \in Requested : PostWriteOff(w, want)
    \/ \E w \in WriteOff : ReverseWriteOff(w)

Spec == Init /\ [][Next]_vars

-----------------------------------------------------------------------------
(***************************************************************************)
(* Type correctness: the rows hold what the schema's columns and CHECK     *)
(* constraints allow.                                                      *)
(***************************************************************************)
TypeOK ==
    /\ receipt \in [Receipt -> {"DRAFT", "POSTED", "REVERSED"}]
    /\ status \in [Batch -> BatchStatus]
    /\ initial \in [Batch -> Nat]
    /\ remaining \in [Batch -> Nat]
    /\ active \in [Line \X Batch -> Nat]
    /\ onHand \in [Item -> Nat]
    /\ reserved \in [Item -> Nat]
    /\ doc \in [Doc -> {"OPEN", "POSTED", "REVERSED"}]
    /\ took \in [Doc -> [Batch -> Nat]]
    /\ moved \in [Batch -> [MovementType -> Int]]

(***************************************************************************)
(* The balance rows are a projection: onHand is what the batches of the    *)
(* item hold together (ADR-012), although no operation ever recomputes it, *)
(* each only adds its own delta.                                           *)
(***************************************************************************)
OnHandIsBatches == \A i \in Item : onHand[i] = TotalOn(remaining, BatchesOf(i))

(***************************************************************************)
(* reserved is what the ACTIVE reservations of the item hold together,     *)
(* through every reserve, release, consumption and release of an excess.   *)
(***************************************************************************)
ReservedIsReservations == \A i \in Item : reserved[i] = HeldOf(Line, i)

\* The balance is a projection of the batches and of the reservations.
BalancesAddUp == OnHandIsBatches /\ ReservedIsReservations

(***************************************************************************)
(* The ledger explains the stock: the movements stored for a batch, the    *)
(* reversals being stored negated, add up to what the batch has left.      *)
(***************************************************************************)
LedgerExplainsRemaining ==
    \A b \in Batch :
        LET m == moved[b]
        IN  remaining[b] =
              m["RECEIPT"] + m["RECEIPT_REVERSAL"]
              + m["COUNT_ADJUSTMENT_IN"] - m["COUNT_ADJUSTMENT_OUT"]
              - (m["ISSUE"] + m["ISSUE_REVERSAL"])
              - (m["WRITE_OFF"] + m["WRITE_OFF_REVERSAL"])

\* The books add up: the balances by the batches, the batches by the ledger.
BooksAddUp == BalancesAddUp /\ LedgerExplainsRemaining

(***************************************************************************)
(* A batch is ACTIVE exactly while it has stock.  Corrections, issues and  *)
(* reversals each set the status on their own, and a receipt is reversed   *)
(* on the sole evidence that remaining = initial: were a batch reversed    *)
(* while a sale holds units of it, annulling the sale would put stock into *)
(* a batch no FIFO walk visits.                                            *)
(***************************************************************************)
ActiveMeansStock == \A b \in Batch : (status[b] = "ACTIVE") <=> (remaining[b] > 0)

(***************************************************************************)
(* What the posted documents took and did not give back is exactly what a  *)
(* live batch misses of its initial quantity, and a reversed batch misses  *)
(* nothing: no document can still return units to it.                      *)
(***************************************************************************)
Outstanding(b) == TotalOn([d \in Doc |-> IF doc[d] = "POSTED" THEN took[d][b] ELSE 0], Doc)

TakenIsAccountedFor ==
    \A b \in Batch :
        IF status[b] = "REVERSED"
        THEN remaining[b] = 0 /\ Outstanding(b) = 0
        ELSE initial[b] - remaining[b] = Outstanding(b)

\* Status, remaining quantity and documents tell the same of every batch.
BatchesAddUp == ActiveMeansStock /\ TakenIsAccountedFor

(***************************************************************************)
(* Every reservation is backed by the batch it names: the units held of a  *)
(* batch are there to be issued.  Only the correction and the reversal of  *)
(* the batch's own receipt, which do not look at reservations, take that   *)
(* away; what is done to other receipts, or to other items, never does.    *)
(***************************************************************************)
ReservationsAreBacked ==
    \A b \in Batch : ReceiptOf[b] \notin Revisable => HeldOn(Line, b) <= remaining[b]

(***************************************************************************)
(* The batches, reservations and documents implement the promise the       *)
(* callers rely on: with a line holding all its ACTIVE reservations, every *)
(* transaction of the adapters is a step of StockPromise.                  *)
(***************************************************************************)
Promise == INSTANCE StockPromise WITH
    stock <- onHand,
    hold <- [l \in Line |-> TotalOn(active, {l} \X Batch)],
    Sold <- Requested

KeepsPromise == Promise!Spec
=============================================================================
