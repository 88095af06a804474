------------------------------- MODULE Supply -------------------------------
(***************************************************************************)
(* The supply module: one supply, its ordered lines and the goods receipts *)
(* posted against it.                                                      *)
(*                                                                         *)
(* A receipt is a DRAFT, with an item per line received, until it is       *)
(* POSTED; each accepted quantity then becomes a batch of the stock, which *)
(* orders and sales use up.  A posted receipt may be reversed while none   *)
(* of it is used, and the quantity of a line corrected after the fact.     *)
(* Every step that changes what was received recalculates the status of    *)
(* the supply.                                                             *)
(*                                                                         *)
(* Use cases do not overlap here.  Any of them may also fail, because a    *)
(* reference is archived, a cost is missing or a balance would become      *)
(* negative; nothing then changes.  Dates, costs and the audit are left    *)
(* out.                                                                    *)
(***************************************************************************)
EXTENDS Quantities, Integers, Sequences

CONSTANTS
    Line,    \* supply items
    Receipt, \* goods receipts
    Qty      \* bound: the quantities users enter

ASSUME SupplyAssumption ==
    /\ IsFiniteSet(Line)
    /\ Qty \subseteq Nat

VARIABLES
    status,    \* of the supply, NONE until it is created
    paid,      \* its paidAt is set
    ordered,   \* ordered[l]: orderedQuantity, 0 if l is not in the supply
    receipt,   \* receipt[g]: status of g, NONE until it is created
    items,     \* items[l]: the receipt items of l, oldest first
    corrected  \* lines corrected while several receipts had posted them (history)

vars == <<status, paid, ordered, receipt, items, corrected>>

SupplyStatus == {"NONE", "DRAFT", "SUBMITTED_TO_SUPPLIER", "PARTIALLY_RECEIVED",
                 "RECEIVED", "ANNULLED"}
ReceiptStatus == {"NONE", "DRAFT", "POSTED", "REVERSED"}

\* A receipt item: its batch has the accepted quantity, of which used is gone.
Item == [receipt : Receipt, accepted : Nat, defective : Nat, used : Nat]
NewItem(g, a, d) == [receipt |-> g, accepted |-> a, defective |-> d, used |-> 0]
Received(x) == x.accepted + x.defective

Lines == {l \in Line : ordered[l] > 0}

IsOpen(s) == s \in {"DRAFT", "SUBMITTED_TO_SUPPLIER"}

CanCreateReceipt(s) == s \in {"SUBMITTED_TO_SUPPLIER", "PARTIALLY_RECEIVED"}

\* The indices of the items of line l that belong to receipts of status s.
Having(s, l, R, I) == {k \in DOMAIN I[l] : R[I[l][k].receipt] = s}

\* sumPostedBySupplyItem adds up what was accepted, not what was received.
SumPosted(l, R, I) ==
    TotalOn([k \in DOMAIN I[l] |-> I[l][k].accepted], Having("POSTED", l, R, I))

SumDraft(l) ==
    TotalOn([k \in DOMAIN items[l] |-> Received(items[l][k])], Having("DRAFT", l, receipt, items))

\* Mutant of Credited: defective goods count as well.
CreditedWithDefects(l, R, I) ==
    TotalOn([k \in DOMAIN I[l] |-> Received(I[l][k])], Having("POSTED", l, R, I))

\* What the status counts as received of line l.
Credited(l, R, I) == SumPosted(l, R, I)

\* recalculate, recalculateSupplyStatus
Recalculated(o, R, I) ==
    LET L == {l \in Line : o[l] > 0}
    IN  IF \A l \in L : Credited(l, R, I) = 0 THEN "SUBMITTED_TO_SUPPLIER"
        ELSE IF \A l \in L : Credited(l, R, I) >= o[l] THEN "RECEIVED"
        ELSE "PARTIALLY_RECEIVED"

Recalculate == status' = Recalculated(ordered', receipt', items')

\* A supply may have been stored before the behaviours start, as the DRAFT that is
\* the column's default.
Init ==
    /\ status \in {"NONE", "DRAFT"}
    /\ paid = FALSE
    /\ ordered = [l \in Line |-> 0]
    /\ receipt = [g \in Receipt |-> "NONE"]
    /\ items = [l \in Line |-> <<>>]
    /\ corrected = {}

-----------------------------------------------------------------------------
(***************************************************************************)
(* The supply.                                                             *)
(***************************************************************************)
CanCreate == status = "NONE"

\* A new supply is with the supplier at once.
CreateSupply ==
    /\ CanCreate
    /\ status' = "SUBMITTED_TO_SUPPLIER"
    /\ UNCHANGED <<paid, ordered, receipt, items, corrected>>

CanAdd(l, n) == IsOpen(status) /\ ordered[l] = 0 /\ n > 0

AddSupplyItem(l, n) ==
    /\ CanAdd(l, n)
    /\ ordered' = [ordered EXCEPT ![l] = n]
    /\ UNCHANGED <<status, paid, receipt, items, corrected>>

\* A foreign key keeps the lines that receipt items refer to.
CanRemove(l) == IsOpen(status) /\ l \in Lines /\ items[l] = <<>>

RemoveSupplyItem(l) ==
    /\ CanRemove(l)
    /\ ordered' = [ordered EXCEPT ![l] = 0]
    /\ UNCHANGED <<status, paid, receipt, items, corrected>>

CanUpdate(l, n) == IsOpen(status) /\ l \in Lines /\ n > 0

UpdateSupplyItem(l, n) ==
    /\ CanUpdate(l, n)
    /\ ordered' = [ordered EXCEPT ![l] = n]
    /\ UNCHANGED <<status, paid, receipt, items, corrected>>

\* Mutant of CanAdjust: goods that were sold are corrected away.
CanAlwaysAdjust(x, n) == x.accepted > 0 /\ x.defective = 0

\* adjustGoodsReceiptItem: there is a batch and it still covers what was used
\* of it.  The table wants received = accepted + defective, so an item with
\* defective goods cannot be corrected.
CanAdjust(x, n) == x.accepted > 0 /\ x.defective = 0 /\ n >= x.used

(***************************************************************************)
(* updateSupplyItem of a supply already received: item k, the newest       *)
(* posted item of the line, gets the whole ordered quantity.  n may be the *)
(* quantity it has, when the cost is corrected.                            *)
(***************************************************************************)
CanCorrect(l, n, k) ==
    /\ status \in {"RECEIVED", "PARTIALLY_RECEIVED"}
    /\ l \in Lines
    /\ n > 0
    /\ k \in Having("POSTED", l, receipt, items)
    /\ \A j \in Having("POSTED", l, receipt, items) : j <= k
    /\ CanAdjust(items[l][k], n)

CorrectPostedItem(l, n) ==
    /\ \E k \in DOMAIN items[l] :
          CanCorrect(l, n, k) /\ items' = [items EXCEPT ![l][k].accepted = n]
    /\ ordered' = [ordered EXCEPT ![l] = n]
    /\ corrected' = IF Cardinality(Having("POSTED", l, receipt, items)) > 1
                    THEN corrected \cup {l} ELSE corrected
    /\ UNCHANGED <<paid, receipt>>
    /\ Recalculate

SubmitSupply ==
    /\ IsOpen(status)
    /\ Lines # {}
    /\ status' = "SUBMITTED_TO_SUPPLIER"
    /\ UNCHANGED <<paid, ordered, receipt, items, corrected>>

\* Mutant of CanAnnul: what is still to come is annulled, what came stays.
CanAnnulUnfinished(s) == s \in {"DRAFT", "SUBMITTED_TO_SUPPLIER", "PARTIALLY_RECEIVED"}

CanAnnul(s) == IsOpen(s)

AnnulDraftSupply ==
    /\ CanAnnul(status)
    /\ status' = "ANNULLED"
    /\ UNCHANGED <<paid, ordered, receipt, items, corrected>>

CanMarkPaid ==
    status \in {"SUBMITTED_TO_SUPPLIER", "PARTIALLY_RECEIVED", "RECEIVED"} /\ ~paid

MarkSupplyPaid ==
    /\ CanMarkPaid
    /\ paid' = TRUE
    /\ UNCHANGED <<status, ordered, receipt, items, corrected>>

-----------------------------------------------------------------------------
(***************************************************************************)
(* Goods receipts.                                                         *)
(***************************************************************************)
CreateGoodsReceipt(g) ==
    /\ CanCreateReceipt(status)
    /\ receipt[g] = "NONE"
    /\ receipt' = [receipt EXCEPT ![g] = "DRAFT"]
    /\ UNCHANGED <<status, paid, ordered, items, corrected>>

\* A receipt has one item per line, and may not exceed what the posted and the
\* other DRAFT receipts leave.
CanAddItem(g, l, a, d) ==
    /\ receipt[g] = "DRAFT"
    /\ l \in Lines
    /\ \A k \in DOMAIN items[l] : items[l][k].receipt # g
    /\ a + d > 0
    /\ SumPosted(l, receipt, items) + SumDraft(l) + a + d <= ordered[l]

AddGoodsReceiptItem(g, l, a, d) ==
    /\ CanAddItem(g, l, a, d)
    /\ items' = [items EXCEPT ![l] = Append(@, NewItem(g, a, d))]
    /\ UNCHANGED <<status, paid, ordered, receipt, corrected>>

ItemsOf(g) == UNION {{<<l, k>> : k \in {k \in DOMAIN items[l] : items[l][k].receipt = g}} : l \in Line}

\* Mutant of FitsOrder: checked when the item was added, not again.
FittedOrder(l, n) == TRUE

FitsOrder(l, n) == SumPosted(l, receipt, items) + n <= ordered[l]

CanPost(g) ==
    /\ receipt[g] = "DRAFT"
    /\ CanCreateReceipt(status)
    /\ ItemsOf(g) # {}
    /\ \A h \in ItemsOf(g) : FitsOrder(h[1], Received(items[h[1]][h[2]]))

PostGoodsReceipt(g) ==
    /\ CanPost(g)
    /\ receipt' = [receipt EXCEPT ![g] = "POSTED"]
    /\ UNCHANGED <<paid, ordered, items, corrected>>
    /\ Recalculate

CanReceive(g) ==
    /\ IsOpen(status)
    /\ Lines # {}
    /\ receipt[g] = "NONE"
    /\ \A l \in Lines : FitsOrder(l, ordered[l])

\* receiveFromSupply: a receipt of everything ordered, created and posted at once.
ReceiveFromSupply(g) ==
    /\ CanReceive(g)
    /\ receipt' = [receipt EXCEPT ![g] = "POSTED"]
    /\ items' = [l \in Line |->
                    IF l \in Lines THEN Append(items[l], NewItem(g, ordered[l], 0)) ELSE items[l]]
    /\ UNCHANGED <<paid, ordered, corrected>>
    /\ Recalculate

ReverseGoodsReceipt(g) ==
    /\ receipt[g] = "POSTED"
    /\ \A h \in ItemsOf(g) : items[h[1]][h[2]].used = 0
    /\ receipt' = [receipt EXCEPT ![g] = "REVERSED"]
    /\ UNCHANGED <<paid, ordered, items, corrected>>
    /\ Recalculate

\* Orders and sales issue a unit of a batch, or give it back.
Issue(l, k) ==
    /\ receipt[items[l][k].receipt] = "POSTED"
    /\ items[l][k].used < items[l][k].accepted
    /\ items' = [items EXCEPT ![l][k].used = @ + 1]
    /\ UNCHANGED <<status, paid, ordered, receipt, corrected>>

GiveBack(l, k) ==
    /\ items[l][k].used > 0
    /\ items' = [items EXCEPT ![l][k].used = @ - 1]
    /\ UNCHANGED <<status, paid, ordered, receipt, corrected>>

Next ==
    \/ CreateSupply
    \/ SubmitSupply
    \/ AnnulDraftSupply
    \/ MarkSupplyPaid
    \/ \E l \in Line :
          \/ RemoveSupplyItem(l)
          \/ \E n \in Qty :
                AddSupplyItem(l, n) \/ UpdateSupplyItem(l, n) \/ CorrectPostedItem(l, n)
          \/ \E k \in DOMAIN items[l] : Issue(l, k) \/ GiveBack(l, k)
    \/ \E g \in Receipt :
          \/ CreateGoodsReceipt(g)
          \/ \E l \in Line, a, d \in Qty : AddGoodsReceiptItem(g, l, a, d)
          \/ PostGoodsReceipt(g)
          \/ ReceiveFromSupply(g)
          \/ ReverseGoodsReceipt(g)

Spec == Init /\ [][Next]_vars

-----------------------------------------------------------------------------
(***************************************************************************)
(* Type correctness.  No more of a batch is used than there is.            *)
(***************************************************************************)
TypeOK ==
    /\ status \in SupplyStatus
    /\ paid \in BOOLEAN
    /\ ordered \in [Line -> Nat]
    /\ receipt \in [Receipt -> ReceiptStatus]
    /\ items \in [Line -> Seq(Item)]
    /\ \A l \in Line : \A k \in DOMAIN items[l] : items[l][k].used <= items[l][k].accepted
    /\ corrected \subseteq Line

\* The usable goods of line l that are in the books.
Usable(l) == SumPosted(l, receipt, items)

(***************************************************************************)
(* The status tells what came in: nothing, part of it, or all of every     *)
(* line, in goods that can be used (ADR-013), however receipts are posted, *)
(* reversed and corrected, and the supply edited again after a reversal.   *)
(***************************************************************************)
StatusTellsTruth ==
    /\ status \in {"NONE", "DRAFT", "SUBMITTED_TO_SUPPLIER"} => \A l \in Line : Usable(l) = 0
    /\ status = "PARTIALLY_RECEIVED" =>
          /\ \E l \in Line : Usable(l) > 0
          /\ \E l \in Lines : Usable(l) < ordered[l]
    /\ status = "RECEIVED" => Lines # {} /\ \A l \in Lines : Usable(l) >= ordered[l]

(***************************************************************************)
(* An annulled supply has put nothing into the stock: "Annul; no stock     *)
(* reverse" is for supplies without posts (supply-flow).                   *)
(***************************************************************************)
AnnulledHasNoStock == status = "ANNULLED" => \A l \in Line : Usable(l) = 0

(***************************************************************************)
(* No more comes in than was ordered (ADR-013), whatever becomes of the    *)
(* order between drafting a receipt and posting it, unless the line was    *)
(* corrected when several receipts had posted it: a correction gives the   *)
(* whole quantity to the newest of them and leaves the others alone.       *)
(***************************************************************************)
WithinOrder == \A l \in Line \ corrected : Usable(l) <= ordered[l]

\* What is in stock was ordered, by a supply that stands.
StockIsOrdered == AnnulledHasNoStock /\ WithinOrder
=============================================================================
