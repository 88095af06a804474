----------------------------- MODULE SupplyPages -----------------------------
(***************************************************************************)
(* The back office over Supply: the list of supplies, the page of a supply *)
(* and the page of a goods receipt.                                        *)
(*                                                                         *)
(* A page that has just been loaded shows the rows as they are.  What it   *)
(* then offers is decided by its own conditions, which repeat some of the  *)
(* server's and leave others out; the server decides again.  An offer here *)
(* is a button with what the form sends.  Prices, dates and the texts of   *)
(* the documents are left out.                                             *)
(***************************************************************************)
EXTENDS Supply

Offer(does) == [does |-> does]

\* A user of the pages enters a positive quantity; the edit and the add form
\* insist on it.
Entered == Qty \ {0}

-----------------------------------------------------------------------------
(***************************************************************************)
(* The page of the supply.                                                 *)
(***************************************************************************)
Open == status \in {"DRAFT", "SUBMITTED_TO_SUPPLIER"}
Posted == status \in {"RECEIVED", "PARTIALLY_RECEIVED"}
CanEditLines == Open \/ Posted

\* Mutant of PageCanReceive: an empty supply may be received.
PageReceivesAnything == Open /\ \A l \in Lines : ordered[l] > 0

\* canReceive: every line has a quantity (and a price).
PageCanReceive == Open /\ Lines # {} /\ \A l \in Lines : ordered[l] > 0

PageCanMarkPaid ==
    ~paid /\ status \in {"SUBMITTED_TO_SUPPLIER", "PARTIALLY_RECEIVED", "RECEIVED"}

\* "Edit" opens a row, whose "save" sends the quantity.  (While a row is open the
\* page offers nothing else that touches the lines.)
EditOffers ==
    IF CanEditLines THEN [does : {"edit"}, line : Lines, quantity : Entered] ELSE {}

RemoveOffers == IF Open THEN [does : {"remove"}, line : Lines] ELSE {}

\* The items to choose from are the catalogue's, those of the lines included.
AddOffers == IF Open THEN [does : {"add"}, line : Line, quantity : Entered] ELSE {}

HeaderOffers == IF Open THEN {Offer("save header")} ELSE {}

ReceiveOffers == IF PageCanReceive THEN {Offer("receive")} ELSE {}

AnnulOffers == IF Open THEN {Offer("annul")} ELSE {}

PaidOffers == IF PageCanMarkPaid THEN {Offer("mark paid")} ELSE {}

\* Mutant of Asks: a supply received in part is edited like an open one.
AsksOnceReceived(o) ==
    \/ o.does \in {"receive", "annul", "mark paid", "remove", "post receipt"}
    \/ o.does = "edit" /\ status = "RECEIVED"

\* Before it receives, annuls, marks paid or removes, and before it corrects
\* goods that are in stock, a page asks.
Asks(o) ==
    \/ o.does \in {"receive", "annul", "mark paid", "remove", "post receipt"}
    \/ o.does = "edit" /\ Posted

SupplyOffers ==
    EditOffers \cup RemoveOffers \cup AddOffers \cup HeaderOffers
        \cup ReceiveOffers \cup AnnulOffers \cup PaidOffers

-----------------------------------------------------------------------------
(***************************************************************************)
(* The page of a receipt, and the list.                                    *)
(***************************************************************************)
\* "Received in full" fills in what the line orders; anything may be typed.
ReceiptAddOffers(g) ==
    IF receipt[g] = "DRAFT"
    THEN [does : {"add to receipt"}, receipt : {g}, line : Lines, accepted : Qty, defective : Qty]
    ELSE {}

ReceiptPostOffers(g) ==
    IF receipt[g] = "DRAFT" /\ ItemsOf(g) # {}
    THEN [does : {"post receipt"}, receipt : {g}] ELSE {}

ListOffers == IF status = "NONE" THEN {Offer("create")} ELSE {}

Offers ==
    ListOffers \cup SupplyOffers
        \cup UNION {ReceiptAddOffers(g) \cup ReceiptPostOffers(g) : g \in Receipt}

-----------------------------------------------------------------------------
(***************************************************************************)
(* What the server makes of an offer.  The page saves the header before it *)
(* receives (updateSupply, of an open supply only), and receives whatever  *)
(* the lines are by then.                                                  *)
(***************************************************************************)
PressCreate == CanCreate

\* onSaveEdit: updateSupplyItem corrects the goods of a supply received.
PressSave(l, n) == CanUpdate(l, n) \/ \E k \in DOMAIN items[l] : CanCorrect(l, n, k)

PressRemove(l) == CanRemove(l)

PressAdd(l, n) == CanAdd(l, n)

\* updateSupply
PressSaveHeader == IsOpen(status)

PressReceive == PressSaveHeader /\ \E g \in Receipt : CanReceive(g)

PressAnnul == CanAnnul(status)

PressMarkPaid == CanMarkPaid

PressAddLine(o) == CanAddItem(o.receipt, o.line, o.accepted, o.defective)

PressPost(g) == CanPost(g)

Taken(o) ==
    CASE o.does = "create" -> PressCreate
      [] o.does = "edit" -> PressSave(o.line, o.quantity)
      [] o.does = "remove" -> PressRemove(o.line)
      [] o.does = "add" -> PressAdd(o.line, o.quantity)
      [] o.does = "save header" -> PressSaveHeader
      [] o.does = "receive" -> PressReceive
      [] o.does = "annul" -> PressAnnul
      [] o.does = "mark paid" -> PressMarkPaid
      [] o.does = "add to receipt" -> PressAddLine(o)
      [] o.does = "post receipt" -> PressPost(o.receipt)

\* The newest posted item of a line.
Newest(l) == items[l][CHOOSE k \in Having("POSTED", l, receipt, items) :
                         \A j \in Having("POSTED", l, receipt, items) : j <= k]

(***************************************************************************)
(* What the pages cannot know, as they are sent neither the receipts nor   *)
(* the stock of a supply.                                                  *)
(***************************************************************************)
Unforeseen(o) ==
    CASE o.does = "edit" ->
            \* Nothing of the line came in yet, it came with defects, or more is sold.
            Posted /\ \/ Having("POSTED", o.line, receipt, items) = {}
                      \/ Newest(o.line).defective > 0
                      \/ Newest(o.line).used > o.quantity
      \* A receipt, perhaps a reversed one, refers to the line.
      [] o.does = "remove" -> items[o.line] # <<>>
      \* The line is there already.
      [] o.does = "add" -> o.line \in Lines
      \* (bound) The receipts are used up.
      [] o.does = "receive" -> \A g \in Receipt : receipt[g] # "NONE"
      \* The line is in the receipt, or not so much of it is to come.
      [] o.does = "add to receipt" ->
            \/ \E k \in DOMAIN items[o.line] : items[o.line][k].receipt = o.receipt
            \/ o.accepted + o.defective \notin 1 .. ordered[o.line] - Usable(o.line) - SumDraft(o.line)
      \* Since it was drafted, the supply was finished or the goods came otherwise.
      [] o.does = "post receipt" ->
            \/ status \in {"RECEIVED", "ANNULLED"}
            \/ \E h \in ItemsOf(o.receipt) :
                  Received(items[h[1]][h[2]]) > ordered[h[1]] - Usable(h[1])
      [] OTHER -> FALSE

(***************************************************************************)
(* What a page offers is done: an open supply can be received whole,       *)
(* whatever was drafted, posted and reversed before, an unpaid one be      *)
(* marked paid, an unused line removed.  Only what a page is not told of   *)
(* the receipts and the stock can stand against it.  (status, conditions   *)
(* of the buttons against the rules of the use cases)                      *)
(***************************************************************************)
OffersAreTaken == \A o \in Offers : Unforeseen(o) \/ Taken(o)

(***************************************************************************)
(* No press of a button moves stock unasked: the edit of a line asks in    *)
(* every state in which the server would correct goods already in stock,   *)
(* and so does everything that posts a receipt.  (posted in onSaveEdit     *)
(* against the branches of updateSupplyItem)                               *)
(***************************************************************************)
StockMovesAreAsked ==
    \A o \in Offers :
        \/ o.does = "edit" /\ \E k \in DOMAIN items[o.line] : CanCorrect(o.line, o.quantity, k)
        \/ o.does \in {"receive", "post receipt"}
        => Asks(o)

\* The pages offer what the server does, and move no stock unasked.
PagesServe == OffersAreTaken /\ StockMovesAreAsked
=============================================================================
