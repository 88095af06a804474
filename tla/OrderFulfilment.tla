--------------------------- MODULE OrderFulfilment ---------------------------
(***************************************************************************)
(* The life of an order of the flower-erp API, from its acceptance to its  *)
(* hand-over, and of the sales made for it: the orders and sales modules   *)
(* over the stock of one warehouse.                                        *)
(*                                                                         *)
(* The stock is the one StockPromise describes (StockLedger shows that the *)
(* inventory module keeps that promise): an item has units on hand and the *)
(* lines of compositions hold some of them.                                *)
(*                                                                         *)
(* Every use case is one action.  It takes the view v of the order that    *)
(* the use case read (requireOrder, getReadyOrderForSale): its checks are  *)
(* about v, its writes fall on the rows as they are.  In this module's     *)
(* Next the view is the present state; FulfilmentRace lets views grow old. *)
(*                                                                         *)
(* Left out: DRAFT orders (createOrder confirms at once, DRAFT rows are    *)
(* from earlier releases), the order header, prices, the delivery job, and *)
(* who the florist is.                                                     *)
(***************************************************************************)
EXTENDS Quantities, Integers

CONSTANTS
    Item,       \* catalogue items
    Order,      \* orders
    Line,       \* composition item ids: an id belongs to one order and is never reused
    LineOrder,  \* the order a line belongs to
    LineItem,   \* the item it orders
    LineQty,    \* its planned quantity, never updated: a new quantity is a new id
    Sale,       \* sales
    SaleOrder,  \* the order a sale is made from, or Counter
    Counter,    \* of a DIRECT sale
    Content,    \* bound: what a florist records or a direct sale sells
    MaxStock,   \* bound: units of an item on hand
    MaxEdits    \* bound: edits of an actual composition

NoUnits == [i \in Item |-> 0]

ASSUME LineAssumption ==
    /\ IsFiniteSet(Line)
    /\ LineOrder \in [Line -> Order]
    /\ LineItem \in [Line -> Item]
    /\ LineQty \in [Line -> Nat \ {0}]

ASSUME SaleAssumption ==
    /\ Counter \notin Order
    /\ SaleOrder \in [Sale -> Order \cup {Counter}]
    /\ Sale \cap Order = {}

ASSUME ContentAssumption ==
    /\ Content \subseteq [Item -> Nat]
    /\ MaxStock \in Nat
    /\ MaxEdits \in Nat

OrderStatus == {"NONE", "CONFIRMED", "PARTIALLY_RESERVED", "RESERVED",
                "IN_PREPARATION", "READY", "COMPLETED", "CANCELLED"}
SaleStatus == {"NONE", "DRAFT", "COMPLETED", "ANNULLED"}
Document == Order \cup Sale

VARIABLES
    stock,     \* stock[i]: units of item i on hand
    hold,      \* hold[l]: units in the ACTIVE reservations of line l
    line,      \* line[l]: NEW, CURRENT in its order's composition, or GONE from it
    status,    \* status[o]: NONE until the order is created
    actual,    \* actual[o][i]: units of i in the actual composition
    frozen,    \* frozen[o]: its frozenAt is set
    version,   \* version[o]: the optimistic lock of the actual composition
    assigned,  \* assigned[o]: a florist's assignment is active
    sale,      \* sale[s]: NONE until the sale is created
    content,   \* content[s]: what the lines of a DIRECT sale sell
    issued     \* issued[d]: units in the ISSUE movements of d, less those reversed

stockVars == <<stock, hold>>
orderVars == <<line, status, actual, frozen, version, assigned>>
saleVars == <<sale, content>>
vars == <<stockVars, orderVars, saleVars, issued>>

Inventory == INSTANCE StockPromise WITH Composition <- SUBSET Line, Sold <- Content

-----------------------------------------------------------------------------
\* The checks of order-rules.ts, and of the use cases themselves, on a view.
CanEdit(v) == v.status \in {"CONFIRMED", "PARTIALLY_RESERVED", "RESERVED"}
CanReserve(v) ==
    v.status \in {"CONFIRMED", "PARTIALLY_RESERVED", "RESERVED"} /\ v.lines # {}
CanAssign(v) == v.status \notin {"NONE", "COMPLETED", "CANCELLED"}
CanStartPreparation(v) ==
    v.status \in {"RESERVED", "PARTIALLY_RESERVED"} /\ v.assigned
CanEditActual(v) == v.status = "IN_PREPARATION" /\ ~v.frozen
CanMarkReady(v) == v.status = "IN_PREPARATION"
CanAssemble(v) ==
    v.status \in {"CONFIRMED", "PARTIALLY_RESERVED", "RESERVED", "IN_PREPARATION"}
CanComplete(v) == v.status = "READY" /\ v.frozen /\ v.actual # NoUnits
CanCancel(v) == v.status \notin {"NONE", "COMPLETED", "CANCELLED"}

Current(o) == {l \in Line : LineOrder[l] = o /\ line[l] = "CURRENT"}
New(o) == {l \in Line : LineOrder[l] = o /\ line[l] = "NEW"}

\* No two rows of a composition are of the same item (a unique index).
OneLinePerItem(L) == \A l, m \in L : LineItem[l] = LineItem[m] => l = m

\* What a use case reads of an order.
View(o) == [status |-> status[o], lines |-> Current(o), actual |-> actual[o],
            frozen |-> frozen[o], version |-> version[o], assigned |-> assigned[o]]

\* The units of item i that lines outside L hold.
HeldByOthers(L, i) == TotalOn(hold, {l \in Line \ L : LineItem[l] = i})

\* Mutant of Granted: what other orders hold is given out again.
GrantedOfAll(units, L) ==
    [l \in Line |-> IF l \in L THEN Least(LineQty[l], units[LineItem[l]]) ELSE hold[l]]

(***************************************************************************)
(* reserveComposition for the lines of L, when units[i] of each item are   *)
(* on hand: what they held is released, then each takes what is free, up   *)
(* to what it orders.  Nobody else's reservations change.                  *)
(***************************************************************************)
Granted(units, L) ==
    [l \in Line |->
        IF l \in L
        THEN Least(LineQty[l], Monus(units[LineItem[l]], HeldByOthers(L, LineItem[l])))
        ELSE hold[l]]

\* FULL, PARTIAL or NONE, as the status it leads to.
Outcome(L, held) ==
    IF \A l \in L : held[l] = LineQty[l] THEN "RESERVED"
    ELSE IF \E l \in L : held[l] > 0 THEN "PARTIALLY_RESERVED" ELSE "CONFIRMED"

\* Mutant of IssueFor: nobody checks that the stock is there.
IssueUnchecked(d, L, want) ==
    /\ stock' = [i \in Item |-> stock[i] - want[i]]
    /\ hold' = [l \in Line |-> IF l \in L /\ want[LineItem[l]] > 0 THEN 0 ELSE hold[l]]
    /\ issued' = [issued EXCEPT ![d] = [i \in Item |-> @[i] + want[i]]]

\* Document d issues want[i] units of each item, from what L holds first.
IssueFor(d, L, want) ==
    /\ Inventory!Issue(L, want)
    /\ issued' = [issued EXCEPT ![d] = [i \in Item |-> @[i] + want[i]]]

Init ==
    /\ stock = NoUnits
    /\ hold = [l \in Line |-> 0]
    /\ line = [l \in Line |-> "NEW"]
    /\ status = [o \in Order |-> "NONE"]
    /\ actual = [o \in Order |-> NoUnits]
    /\ frozen = [o \in Order |-> FALSE]
    /\ version = [o \in Order |-> 0]
    /\ assigned = [o \in Order |-> FALSE]
    /\ sale = [s \in Sale |-> "NONE"]
    /\ content = [s \in Sale |-> NoUnits]
    /\ issued = [d \in Document |-> NoUnits]

\* Goods arrive: the supply module and the other users of the inventory.
Arrive(i) ==
    /\ stock[i] < MaxStock
    /\ stock' = [stock EXCEPT ![i] = @ + 1]
    /\ UNCHANGED <<hold, orderVars, saleVars, issued>>

-----------------------------------------------------------------------------
(***************************************************************************)
(* The composition.                                                        *)
(***************************************************************************)
CreateOrder(o) ==
    /\ status[o] = "NONE"
    /\ status' = [status EXCEPT ![o] = "CONFIRMED"]
    /\ UNCHANGED <<stockVars, line, actual, frozen, version, assigned, saleVars, issued>>

\* replaceCompositionItems: all rows are deleted, those of L are inserted.
ReplaceLines(o, L) ==
    /\ OneLinePerItem(L)
    /\ line' = [l \in Line |->
          IF l \in L THEN "CURRENT"
          ELSE IF LineOrder[l] = o /\ line[l] = "CURRENT" THEN "GONE" ELSE line[l]]
    /\ UNCHANGED <<stockVars, status, actual, frozen, version, assigned, saleVars, issued>>

\* setPlannedComposition, applyCompositionTemplate: every row gets a new id.
SetPlannedComposition(o, v, L) ==
    /\ CanEdit(v)
    /\ L \subseteq New(o)
    /\ ReplaceLines(o, L)

\* addCompositionItem: a row of the same item is replaced.
AddCompositionItem(o, v, l) ==
    /\ CanEdit(v)
    /\ l \in New(o)
    /\ ReplaceLines(o, {m \in v.lines : LineItem[m] # LineItem[l]} \cup {l})

RemoveCompositionItem(o, v, l) ==
    /\ CanEdit(v)
    /\ ReplaceLines(o, v.lines \ {l})

\* reserveOrder, and confirmOrder of an order that is not DRAFT.
ReserveOrder(o, v) ==
    LET held == Granted(stock, v.lines)
    IN  /\ CanReserve(v)
        /\ hold' = held
        /\ status' = [status EXCEPT ![o] = Outcome(v.lines, held)]
        /\ UNCHANGED <<stock, line, actual, frozen, version, assigned, saleVars, issued>>

-----------------------------------------------------------------------------
(***************************************************************************)
(* The florist's work.                                                     *)
(***************************************************************************)
\* assignFlorist, claimOrder and claimNextOrder: at most one active row.
Assign(o, v) ==
    /\ CanAssign(v)
    /\ ~assigned[o]
    /\ assigned' = [assigned EXCEPT ![o] = TRUE]
    /\ UNCHANGED <<stockVars, line, status, actual, frozen, version, saleVars, issued>>

ReleaseAssignment(o) ==
    /\ assigned[o]
    /\ assigned' = [assigned EXCEPT ![o] = FALSE]
    /\ UNCHANGED <<stockVars, line, status, actual, frozen, version, saleVars, issued>>

\* seedActualFromPlanned
Seed(L) == [i \in Item |-> TotalOn(LineQty, {l \in L : LineItem[l] = i})]

StartPreparation(o, v) ==
    /\ CanStartPreparation(v)
    /\ actual' = [actual EXCEPT ![o] = Seed(v.lines)]
    /\ status' = [status EXCEPT ![o] = "IN_PREPARATION"]
    /\ UNCHANGED <<stockVars, line, frozen, version, assigned, saleVars, issued>>

UpdateActualComposition(o, v, c) ==
    /\ CanEditActual(v)
    /\ version[o] = v.version
    /\ version' = [version EXCEPT ![o] = @ + 1]
    /\ actual' = [actual EXCEPT ![o] = c]
    /\ UNCHANGED <<stockVars, line, status, frozen, assigned, saleVars, issued>>

MarkReady(o, v) ==
    /\ CanMarkReady(v)
    /\ frozen' = [frozen EXCEPT ![o] = TRUE]
    /\ status' = [status EXCEPT ![o] = "READY"]
    /\ UNCHANGED <<stockVars, line, actual, version, assigned, saleVars, issued>>

(***************************************************************************)
(* assembleOrder: reserve, seed the actual composition and freeze it in    *)
(* one go, without a florist.  An order that could reserve nothing stays   *)
(* CONFIRMED; an empty one is fully reserved.                              *)
(***************************************************************************)
AssembleOrder(o, v) ==
    LET retry == v.status \in {"CONFIRMED", "PARTIALLY_RESERVED"}
        held == IF retry THEN Granted(stock, v.lines) ELSE hold
        found == IF retry THEN Outcome(v.lines, held) ELSE v.status
    IN  /\ CanAssemble(v)
        /\ hold' = held
        /\ status' = [status EXCEPT ![o] = IF found = "CONFIRMED" THEN found ELSE "READY"]
        /\ frozen' = [frozen EXCEPT ![o] = found # "CONFIRMED"]
        /\ actual' = IF found \in {"RESERVED", "PARTIALLY_RESERVED"}
                     THEN [actual EXCEPT ![o] = Seed(v.lines)] ELSE actual
        /\ UNCHANGED <<stock, line, version, assigned, saleVars, issued>>

-----------------------------------------------------------------------------
(***************************************************************************)
(* The end of an order.                                                    *)
(***************************************************************************)
\* completeOrder: handed over without a sale.
CompleteOrder(o, v) ==
    /\ CanComplete(v)
    /\ IssueFor(o, v.lines, v.actual)
    /\ status' = [status EXCEPT ![o] = "COMPLETED"]
    /\ UNCHANGED <<line, actual, frozen, version, assigned, saleVars>>

\* Mutant of CancelOrder: the reservations are forgotten.
CancelOnly(o, v) ==
    /\ CanCancel(v)
    /\ assigned' = [assigned EXCEPT ![o] = @ /\ ~v.assigned]
    /\ status' = [status EXCEPT ![o] = "CANCELLED"]
    /\ UNCHANGED <<stock, hold, line, actual, frozen, version, saleVars, issued>>

CancelOrder(o, v) ==
    /\ CanCancel(v)
    /\ hold' = [l \in Line |-> IF l \in v.lines THEN 0 ELSE hold[l]]
    /\ assigned' = [assigned EXCEPT ![o] = @ /\ ~v.assigned]
    /\ status' = [status EXCEPT ![o] = "CANCELLED"]
    /\ UNCHANGED <<stock, line, actual, frozen, version, saleVars, issued>>

-----------------------------------------------------------------------------
(***************************************************************************)
(* Sales.                                                                  *)
(***************************************************************************)
\* Mutant of ActiveSales: a sale in preparation does not count.
CompletedSales(o) == {s \in Sale : SaleOrder[s] = o /\ sale[s] = "COMPLETED"}

ActiveSales(o) == {s \in Sale : SaleOrder[s] = o /\ sale[s] \in {"DRAFT", "COMPLETED"}}

\* getReadyOrderForSale
ForSale(v) == v.status = "READY" /\ v.actual # NoUnits

\* A partial unique index admits one sale of an order that is not ANNULLED.
CreateSaleFromOrder(s, v) ==
    /\ sale[s] = "NONE"
    /\ ForSale(v)
    /\ ActiveSales(SaleOrder[s]) = {}
    /\ sale' = [sale EXCEPT ![s] = "DRAFT"]
    /\ UNCHANGED <<stockVars, orderVars, content, issued>>

CreateDirectSale(s, c) ==
    /\ sale[s] = "NONE"
    /\ SaleOrder[s] = Counter
    /\ c # NoUnits
    /\ sale' = [sale EXCEPT ![s] = "DRAFT"]
    /\ content' = [content EXCEPT ![s] = c]
    /\ UNCHANGED <<stockVars, orderVars, issued>>

\* The sale's own row changes only if it still has the status it had (updateMany).
Turn(s, from, to) == sale' = [sale EXCEPT ![s] = IF @ = from THEN to ELSE @]

\* Mutant of MoveOrder: the order's status is left alone.
LeaveOrder(o, from, to) == status' = status

\* markOrderCompletedFromSale, revertOrderToReadyFromSaleAnnul: only from one
\* status to the other, unless it is there already.
MoveOrder(o, from, to) ==
    /\ status[o] \in {from, to}
    /\ status' = [status EXCEPT ![o] = to]

\* completeSale, when the sale was read as DRAFT.
CompleteSaleFromOrder(s, v) ==
    /\ ForSale(v)
    /\ IssueFor(s, v.lines, v.actual)
    /\ Turn(s, "DRAFT", "COMPLETED")
    /\ MoveOrder(SaleOrder[s], "READY", "COMPLETED")
    /\ UNCHANGED <<line, actual, frozen, version, assigned, content>>

CompleteDirectSale(s) ==
    /\ SaleOrder[s] = Counter
    /\ IssueFor(s, {}, content[s])
    /\ Turn(s, "DRAFT", "COMPLETED")
    /\ UNCHANGED <<orderVars, content>>

(***************************************************************************)
(* annulSale, when the sale was read as COMPLETED and back[i] units in the *)
(* ISSUE movements found: they come back, the order is READY again and its *)
(* planned lines are reserved anew.                                        *)
(***************************************************************************)
GiveBack(s, back) ==
    /\ stock' = [i \in Item |-> stock[i] + back[i]]
    /\ issued' = [issued EXCEPT ![s] = [i \in Item |-> @[i] - back[i]]]
    /\ Turn(s, "COMPLETED", "ANNULLED")

AnnulSaleOfOrder(s, back) ==
    /\ GiveBack(s, back)
    /\ MoveOrder(SaleOrder[s], "COMPLETED", "READY")
    /\ hold' = Granted(stock', Current(SaleOrder[s]))
    /\ UNCHANGED <<line, actual, frozen, version, assigned, content>>

AnnulDirectSale(s, back) ==
    /\ SaleOrder[s] = Counter
    /\ GiveBack(s, back)
    /\ UNCHANGED <<hold, orderVars, content>>

-----------------------------------------------------------------------------
SalesOf(o) == {s \in Sale : SaleOrder[s] = o}

Next ==
    \/ \E i \in Item : Arrive(i)
    \/ \E o \in Order :
          \/ CreateOrder(o)
          \/ \E L \in SUBSET New(o) : SetPlannedComposition(o, View(o), L)
          \/ \E l \in New(o) : AddCompositionItem(o, View(o), l)
          \/ \E l \in Current(o) : RemoveCompositionItem(o, View(o), l)
          \/ ReserveOrder(o, View(o))
          \/ Assign(o, View(o))
          \/ ReleaseAssignment(o)
          \/ StartPreparation(o, View(o))
          \/ \E c \in Content :
                version[o] < MaxEdits /\ UpdateActualComposition(o, View(o), c)
          \/ MarkReady(o, View(o))
          \/ AssembleOrder(o, View(o))
          \/ CompleteOrder(o, View(o))
          \/ CancelOrder(o, View(o))
          \/ \E s \in SalesOf(o) :
                \/ CreateSaleFromOrder(s, View(o))
                \/ sale[s] = "DRAFT" /\ CompleteSaleFromOrder(s, View(o))
                \/ sale[s] = "COMPLETED" /\ AnnulSaleOfOrder(s, issued[s])
    \/ \E s \in SalesOf(Counter) :
          \/ \E c \in Content : CreateDirectSale(s, c)
          \/ sale[s] = "DRAFT" /\ CompleteDirectSale(s)
          \/ sale[s] = "COMPLETED" /\ AnnulDirectSale(s, issued[s])

Spec == Init /\ [][Next]_vars

-----------------------------------------------------------------------------
(***************************************************************************)
(* Type correctness.                                                       *)
(***************************************************************************)
TypeOK ==
    /\ stock \in [Item -> Nat]
    /\ hold \in [Line -> Nat]
    /\ line \in [Line -> {"NEW", "CURRENT", "GONE"}]
    /\ status \in [Order -> OrderStatus]
    /\ actual \in [Order -> [Item -> Nat]]
    /\ frozen \in [Order -> BOOLEAN]
    /\ version \in [Order -> Nat]
    /\ assigned \in [Order -> BOOLEAN]
    /\ sale \in [Sale -> SaleStatus]
    /\ content \in [Sale -> [Item -> Nat]]
    /\ issued \in [Document -> [Item -> Nat]]

(***************************************************************************)
(* A bouquet leaves the stock once.  Hand-over with and without a sale are *)
(* two paths of two modules, and a sale can be annulled and made again:    *)
(* exactly while the order is COMPLETED one single document, the order     *)
(* itself or one of its sales, has issued the order's actual composition,  *)
(* and otherwise none has anything out.                                    *)
(***************************************************************************)
HandedOver(o) == {d \in {o} \cup SalesOf(o) : issued[d] # NoUnits}

HandedOverOnce ==
    \A o \in Order :
        IF status[o] = "COMPLETED"
        THEN \E d \in {o} \cup SalesOf(o) : HandedOver(o) = {d} /\ issued[d] = actual[o]
        ELSE HandedOver(o) = {}

(***************************************************************************)
(* A sale of an order is COMPLETED exactly when it issued something, and   *)
(* an order has at most one sale that is not ANNULLED.                     *)
(***************************************************************************)
SalesMatchIssues ==
    /\ \A s \in Sale : sale[s] = "COMPLETED" <=> issued[s] # NoUnits
    /\ \A s, t \in Sale :
          /\ SaleOrder[s] = SaleOrder[t] /\ SaleOrder[s] # Counter
          /\ {sale[s], sale[t]} \subseteq {"DRAFT", "COMPLETED"}
          => s = t

(***************************************************************************)
(* Nothing is promised twice: all holds of an item together are covered by *)
(* its stock, whatever sequence of edits, sales and annulments led there,  *)
(* and no line holds more than it orders.                                  *)
(***************************************************************************)
PromisesAreCovered ==
    /\ Inventory!Covered
    /\ \A l \in Line : hold[l] <= LineQty[l]

(***************************************************************************)
(* An order that is over keeps nothing that it could have used: the lines  *)
(* in the composition of a CANCELLED order hold nothing, those of a        *)
(* COMPLETED one nothing of an item that was handed over, and an id not    *)
(* yet in any composition holds nothing.                                   *)
(***************************************************************************)
ClosedReleasesComposition ==
    \A l \in Line :
        LET o == LineOrder[l]
        IN  \/ line[l] = "NEW"
            \/ line[l] = "CURRENT" /\ status[o] = "CANCELLED"
            \/ line[l] = "CURRENT" /\ status[o] = "COMPLETED" /\ actual[o][LineItem[l]] > 0
            => hold[l] = 0

\* What is promised is there, and what is over promises nothing.
PromisesHold == PromisesAreCovered /\ ClosedReleasesComposition

=============================================================================
