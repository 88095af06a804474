----------------------------- MODULE CounterSale ----------------------------
(***************************************************************************)
(* The new-sale page of the back office and the server calls it chains.    *)
(*                                                                         *)
(* A seller fills a cart: a bouquet put together from parts (CUSTOM),      *)
(* priced by a quote the server computes from the retail prices, and ready *)
(* bouquets (READY), priced by hand.  Or the page sells an order that is   *)
(* READY at a price.  Submitting chains calls: create the sale, complete   *)
(* it, then for each payment typed create it and complete it.  Every call  *)
(* is a transaction of its own, with an idempotency key made up for it, so *)
(* a chain that breaks leaves what it has done behind, and the seller, who *)
(* sees an error and the page as it was, may submit again.                 *)
(*                                                                         *)
(* Discount and adjustment (terms), the price of an order and the payments *)
(* are typed fields nothing reacts to before the submission: they are      *)
(* chosen with it.  Money is in cents.  Why a call may be refused is in    *)
(* the modules of the components called; here any call may be.             *)
(***************************************************************************)
EXTENDS Integers, Sequences, Quantities

CONSTANTS
    Part,       \* flowers and materials
    Bouquet,    \* ready bouquets that have a recipe
    Most,       \* bound: Most[k], the quantity of k a seller takes at most
    Tag,        \* bound: the prices typed for a bouquet or an order
    Retail,     \* bound: Retail[k], the retail prices part k may have
    Terms,      \* bound: the discounts and adjustments typed
    Splits,     \* bound: the payments typed, sequences of amounts
    Rights,     \* bound: the sets of rights a seller may have
    MaxTries,   \* bound: submissions
    OverridePercent, \* SALES_DISCOUNT_OVERRIDE_PERCENT
    None        \* no price, no quote

Good == Part \cup Bouquet

\* A discount, a value in percent or in cents, and an adjustment.
Term == [kind : {"NONE", "PERCENT", "FIXED"}, value : Nat, adj : Int]

ASSUME SaleAssumption ==
    /\ IsFiniteSet(Good) /\ Part \cap Bouquet = {}
    /\ Most \in [Good -> Nat]
    /\ Tag \subseteq Nat /\ Retail \in [Part -> SUBSET (Nat \cup {None})] /\ None \notin Int
    /\ Terms \subseteq Term /\ Splits \subseteq Seq(Nat)
    /\ MaxTries \in Nat /\ OverridePercent \in 0 .. 100

VARIABLES
    kind,    \* what the page sells: "direct", or an "order"
    rights,  \* the seller's: discount, override, complete, pay
    mode,    \* the builder's tab: CUSTOM or READY
    cart,    \* cart[k]: quantity of a part or of a ready bouquet
    tag,     \* tag[b]: the price typed for a ready bouquet
    quote,   \* the last quote shown: [cart, unit], or None
    asked,   \* is a quote for the present cart on its way?
    retail,  \* the server's retail prices
    page,    \* filling, or the call that is in flight, or left
    form,    \* what was submitted
    tries,   \* submissions so far
    told,    \* errors shown so far
    sales,   \* the server's sales that this page is about
    pays     \* their payments: [sale, amount, status]

pageVars == <<mode, cart, tag, quote, asked>>
counterVars == <<kind, rights, pageVars, retail, page, form, tries, told, sales, pays>>

Call == {"createSale", "completeSale", "createSalePayment", "completePayment"}
Busy == page \in Call

Worth(qty, unit, S) == TotalOn([k \in S |-> qty[k] * unit[k]], S)

\* n.toFixed(2) of m / d cents: the nearest cent, and at a tie whichever of
\* the two the floating-point number lies closer to.
ToFixed(m, d) == {n \in {m \div d, m \div d + 1} : 2 * (n * d - m) \in -d .. d}

\* The parts and the bouquets that are in the cart.
Parts == {k \in Part : cart[k] > 0}
Ready == {b \in Bouquet : cart[b] > 0}

QuoteTotal == IF quote = None THEN 0 ELSE Worth(quote.cart, quote.unit, DOMAIN quote.unit)

-----------------------------------------------------------------------------
CounterInit ==
    /\ kind \in {"direct", "order"}
    /\ rights \in Rights
    /\ mode = "CUSTOM"
    /\ cart = [k \in Good |-> 0]
    /\ tag = [b \in Bouquet |-> None]
    /\ quote = None
    /\ asked = FALSE
    /\ retail \in [Part -> UNION {Retail[k] : k \in Part}]
    /\ \A k \in Part : retail[k] \in Retail[k]
    /\ page = "filling"
    /\ form = None
    /\ tries = 0 /\ told = 0
    /\ sales = <<>> /\ pays = <<>>

(***************************************************************************)
(* Filling the cart.  The quote is asked for anew whenever the parts       *)
(* change, and an answer to an earlier question is dropped; until the      *)
(* answer comes the last quote stays on the screen, unless there is        *)
(* nothing left to ask for.  After an error the cart is left as it is      *)
(* (a bound).                                                              *)
(***************************************************************************)
Editing == page = "filling" /\ kind = "direct" /\ tries = 0

\* The effect on [builderMode, activeCustom].
AskAgain(m, c) ==
    IF m = "CUSTOM" /\ \E k \in Part : c[k] > 0
    THEN asked' = TRUE /\ UNCHANGED quote
    ELSE asked' = FALSE /\ quote' = None

SetCustomQty(k, n) ==
    /\ Editing /\ mode = "CUSTOM" /\ n # cart[k]
    /\ cart' = [cart EXCEPT ![k] = n]
    /\ AskAgain(mode, cart')
    /\ UNCHANGED <<kind, rights, mode, tag, retail, page, form, tries, told, sales, pays>>

\* setReadyQty and setReadyUnitPrice
SetReadyQty(b, n, t) ==
    /\ Editing /\ mode = "READY"
    /\ cart' = [cart EXCEPT ![b] = n]
    /\ tag' = [tag EXCEPT ![b] = IF n = 0 THEN None ELSE t]
    /\ UNCHANGED <<kind, rights, mode, quote, asked, retail, page, form, tries, told, sales, pays>>

RemoveCustom ==
    /\ Editing /\ Parts # {}
    /\ cart' = [k \in Good |-> IF k \in Part THEN 0 ELSE cart[k]]
    /\ AskAgain(mode, cart')
    /\ UNCHANGED <<kind, rights, mode, tag, retail, page, form, tries, told, sales, pays>>

SwitchMode(m) ==
    /\ Editing /\ m # mode
    /\ mode' = m
    /\ AskAgain(m, cart)
    /\ UNCHANGED <<kind, rights, cart, tag, retail, page, form, tries, told, sales, pays>>

\* resolveForItems: of each part the price that took effect last.
PricesInForce(S) == [k \in S |-> retail[k]]

\* resolveCompositionRetail answers for the parts in the cart, or fails.  A
\* quote that lacks a price keeps the page from submitting, as none does.
QuoteArrives ==
    /\ asked
    /\ asked' = FALSE
    /\ quote' \in {None, [cart |-> cart, unit |-> PricesInForce(Parts)]}
    /\ \A k \in Parts : retail[k] = None => quote' = None
    /\ UNCHANGED <<kind, rights, mode, cart, tag, retail, page, form, tries, told, sales, pays>>

\* upsertRetailPrices: somebody sets a retail price.
UpsertRetailPrice(k, n) ==
    /\ Editing /\ n # retail[k]
    /\ retail' = [retail EXCEPT ![k] = n]
    /\ UNCHANGED <<kind, rights, pageVars, page, form, tries, told, sales, pays>>

-----------------------------------------------------------------------------
(***************************************************************************)
(* What the page shows, and what it sends.                                 *)
(***************************************************************************)
Max0(n) == IF n < 0 THEN 0 ELSE n

\* grossAmount: the quote's total, whatever it was computed for, and the
\* ready bouquets.
GrossShown(price) ==
    IF kind = "order" THEN price
    ELSE (IF Parts = {} THEN 0 ELSE QuoteTotal) + Worth(cart, tag, Ready)

\* discountAmount
DiscountShown(gross, t) ==
    CASE t.kind = "NONE" -> {0}
      [] t.kind = "PERCENT" -> ToFixed(gross * t.value, 100)
      [] t.kind = "FIXED" -> {t.value}

\* collectBlockers: the cart and the quote.
CartIsPriced ==
    /\ Parts \cup Ready # {}
    /\ Parts # {} => QuoteTotal > 0
    /\ \A b \in Ready : tag[b] # None

\* collectBlockers: what may be typed by whom.  Without the right to pay the
\* page has no payment editor.
TermsAreAllowed(t) == t.kind # "NONE" \/ t.adj < 0 => "discount" \in rights
PaymentsAreOffered == {"pay", "complete"} \subseteq rights
PaymentsAreTyped(split, due) ==
    /\ PaymentsAreOffered /\ due > 0 => split # <<>>
    /\ ~ PaymentsAreOffered => split = <<>>

\* buildDirectLines: every part needs its line of the quote.
QuoteCoversCart == Parts # {} => Parts \subseteq DOMAIN quote.unit

BasePrice == [k \in Parts \cup Ready |-> IF k \in Part THEN quote.unit[k] ELSE tag[k]]

\* A rise of the total is spread over the lines, each rounded to the cent.
UnitPrices(adj) ==
    LET base == Worth(cart, BasePrice, DOMAIN BasePrice) IN
    IF adj > 0 /\ base > 0
    THEN {u \in [DOMAIN BasePrice -> 0 .. base + adj] :
            \A k \in DOMAIN u : u[k] \in ToFixed(BasePrice[k] * (base + adj), base)}
    ELSE {BasePrice}

\* Mutant of DiscountSent: the discount is taken as shown by a client that
\* forgets who may give one.
DiscountForgotten(gross, net) == 0

\* discountPayloadForSubmit: whatever is missing to the net amount shown.
DiscountSent(gross, net) ==
    IF "discount" \in rights THEN Max0(gross - net) ELSE 0

\* Does the quote on the screen belong to the cart?
Fresh == Parts = {} \/ \A k \in Part : quote.cart[k] = cart[k]

\* The form is sent, or buildDirectLines throws.
Sent(gross, shown, split) ==
    /\ page' = "createSale"
    /\ form' = [gross |-> gross, discount |-> DiscountSent(gross, shown), split |-> split,
                shown |-> shown, fresh |-> Fresh, units |-> TotalOn(cart, Good),
                sale |-> 0, pay |-> 0]
    /\ UNCHANGED told

Submit(t, price, split, due) ==
    /\ page = "filling" /\ tries < MaxTries
    /\ kind = "direct" => CartIsPriced
    /\ TermsAreAllowed(t)
    /\ PaymentsAreTyped(split, due)
    /\ tries' = tries + 1
    /\ \E d \in DiscountShown(GrossShown(price), t) :
        LET shown == Max0(GrossShown(price) - d + t.adj) IN
        CASE kind = "order" -> Sent(price, shown, split)
          [] kind = "direct" /\ QuoteCoversCart ->
                \E u \in UnitPrices(t.adj) : Sent(Worth(cart, u, DOMAIN u), shown, split)
          [] OTHER -> told' = told + 1 /\ UNCHANGED <<page, form>>
    /\ UNCHANGED <<kind, rights, pageVars, retail, sales, pays>>

-----------------------------------------------------------------------------
(***************************************************************************)
(* The calls.  What follows a call is asked of its answer.                 *)
(***************************************************************************)
Tell == page' = "filling" /\ told' = told + 1 /\ form' = None

\* A quote that was asked for still comes; a page that is left forgets it.
Leave == page' = "left" /\ UNCHANGED told

\* Mutant of NextPayment: the page is left after the first payment.
FirstPayment(n) ==
    IF n = 0 /\ form.split # <<>>
    THEN page' = "createSalePayment" /\ UNCHANGED told
    ELSE Leave

\* The payment that comes after the first n ones, or the end of the chain.
NextPayment(n) ==
    IF n < Len(form.split)
    THEN page' = "createSalePayment" /\ UNCHANGED told
    ELSE Leave

\* Who reads the answer: the page, or nobody when it is lost.
Answer(goesOn) == goesOn \/ Tell

\* validateDiscount, as a FIXED amount.
DiscountIsAllowed(gross, discount) ==
    /\ discount <= gross
    /\ 100 * discount > OverridePercent * gross => "override" \in rights

\* Mutant of OrderHasNoSale: completed sales are looked for, drafts are not.
OrderHasNoCompletedSale ==
    kind = "order" => \A i \in DOMAIN sales : sales[i].status # "COMPLETED"

\* findActiveByOrderId, and the unique index sales_one_active_per_order.
OrderHasNoSale == kind = "order" => \A i \in DOMAIN sales : sales[i].status = "ANNULLED"

\* applyDiscount and computeNet
NetOf(gross, discount) == IF discount > gross THEN 0 ELSE gross - discount

NewSale(net) == [net |-> net, status |-> "DRAFT"]
NewPayment(i, amount) == [sale |-> i, amount |-> amount, status |-> "DRAFT"]

\* createDirectSale, createSaleFromOrder
CreateSale ==
    /\ page = "createSale"
    /\ DiscountIsAllowed(form.gross, form.discount)
    /\ kind = "order" => form.gross > 0
    /\ OrderHasNoSale
    /\ sales' = Append(sales, NewSale(NetOf(form.gross, form.discount)))
    /\ Answer(/\ form' = [form EXCEPT !.sale = Len(sales')]
              /\ IF "complete" \in rights
                 THEN page' = "completeSale" /\ UNCHANGED told
                 ELSE Leave)
    /\ UNCHANGED <<kind, rights, pageVars, retail, tries, pays>>

\* completeSale, when the stock is there.
CompleteSale ==
    /\ page = "completeSale"
    /\ sales' = [sales EXCEPT ![form.sale].status = "COMPLETED"]
    /\ Answer(UNCHANGED form /\ NextPayment(0))
    /\ UNCHANGED <<kind, rights, pageVars, retail, tries, pays>>

PaidFor(i) ==
    TotalOn([j \in DOMAIN pays |-> pays[j].amount],
            {j \in DOMAIN pays : pays[j].sale = i /\ pays[j].status = "COMPLETED"})

\* Mutant of IsPositive: nothing may be paid.
NotNegative(amount) == amount >= 0

IsPositive(amount) == amount > 0

\* createSalePayment: a positive amount, and assertSaleAcceptsPayment.
CreateSalePayment ==
    LET amount == form.split[form.pay + 1] IN
    /\ page = "createSalePayment"
    /\ IsPositive(amount)
    /\ sales[form.sale].status = "COMPLETED"
    /\ pays' = Append(pays, NewPayment(form.sale, amount))
    /\ Answer(/\ form' = [form EXCEPT !.pay = @ + 1]
              /\ page' = "completePayment" /\ UNCHANGED told)
    /\ UNCHANGED <<kind, rights, pageVars, retail, tries, sales>>

\* completePayment: within what the sale's own payments leave of its price.
\* It does not ask what the order was prepaid, nor for the sale's status.
CompletePayment ==
    LET last == Len(pays) IN
    /\ page = "completePayment"
    /\ PaidFor(form.sale) + pays[last].amount <= sales[form.sale].net
    /\ pays' = [pays EXCEPT ![last].status = "COMPLETED"]
    /\ Answer(UNCHANGED form /\ NextPayment(form.pay))
    /\ UNCHANGED <<kind, rights, pageVars, retail, tries, sales>>

\* Mutant of CallFails: a refused call is sent again and again.
CallIsRepeated ==
    /\ Busy
    /\ page' = "createSale"
    /\ UNCHANGED <<kind, rights, pageVars, retail, form, tries, told, sales, pays>>

\* The call is refused, or does not get through.
CallFails ==
    /\ Busy
    /\ Tell
    /\ UNCHANGED <<kind, rights, pageVars, retail, tries, sales, pays>>

\* createSaleFromOrder of somebody else, for the same order.
SoldElsewhere ==
    /\ kind = "order" /\ OrderHasNoSale /\ sales = <<>> /\ page \in {"filling", "createSale"}
    /\ \E n \in Tag : sales' = <<NewSale(n)>>
    /\ UNCHANGED <<kind, rights, pageVars, retail, page, form, tries, told, pays>>

\* annulSale, of somebody who works through the list of sales.
AnnulSale(i) ==
    /\ sales[i].status = "COMPLETED"
    /\ sales' = [sales EXCEPT ![i].status = "ANNULLED"]
    /\ UNCHANGED <<kind, rights, pageVars, retail, page, form, tries, told, pays>>

-----------------------------------------------------------------------------
Fill ==
    \/ \E k \in Part : \E n \in 0 .. Most[k] : SetCustomQty(k, n)
    \/ \E b \in Bouquet : \E n \in 0 .. Most[b], t \in Tag \cup {None} : SetReadyQty(b, n, t)
    \/ RemoveCustom
    \/ \E m \in {"CUSTOM", "READY"} : SwitchMode(m)

Served == CreateSale \/ CompleteSale \/ CreateSalePayment \/ CompletePayment \/ CallFails

CounterNext ==
    \/ Fill
    \/ QuoteArrives
    \/ \E k \in Part : \E n \in Retail[k] : UpsertRetailPrice(k, n)
    \/ \E t \in Terms, price \in Tag, split \in Splits, due \in {0, 1} :
            Submit(t, price, split, IF kind = "order" THEN due ELSE 1)
    \/ Served
    \/ SoldElsewhere
    \/ \E i \in DOMAIN sales : AnnulSale(i)

\* A call gets an answer, or the connection fails.
CounterSpec == CounterInit /\ [][CounterNext]_counterVars /\ WF_counterVars(Served)

-----------------------------------------------------------------------------
(***************************************************************************)
(* Properties                                                              *)
(***************************************************************************)
\* The page, the form and the documents have their shapes; no sale is made
\* for less than nothing, and a payment is for a sale that was completed.
CounterTypeOK ==
    /\ cart \in [Good -> Nat] /\ tag \in [Bouquet -> Tag \cup {None}]
    /\ quote = None \/ DOMAIN quote.unit \subseteq Part
    /\ page \in Call \cup {"filling", "left"}
    /\ tries \in 0 .. MaxTries /\ told \in 0 .. tries
    /\ \A i \in DOMAIN sales :
        sales[i].net \in Nat /\ sales[i].status \in {"DRAFT", "COMPLETED", "ANNULLED"}
    /\ \A j \in DOMAIN pays : sales[pays[j].sale].status # "DRAFT" /\ pays[j].amount > 0

\* The price of a sale is the net amount the page showed when it was sent, up
\* to half a cent for each piece (a rise of the total is rounded on every unit
\* price).  Three exceptions: while the quote of an earlier cart was on the
\* screen a seller without the right to a discount charges the new cart's
\* price; a rise of an order's price is shown but not sent; and so is a rise
\* of nothing, which there is no unit price to spread over.
\* (onSubmit, netAmount, buildDirectLines, discountPayloadForSubmit)
ChargedAsShown ==
    [][ page = "createSale" /\ page' # page /\ sales' # sales =>
        LET net == sales'[Len(sales')].net IN
        /\ form.fresh \/ "discount" \in rights => 2 * (net - form.shown) <= form.units
        /\ form.fresh /\ kind = "direct" /\ form.gross > 0 =>
                2 * (form.shown - net) <= form.units ]_counterVars

\* When the page is left for the sale's own page, the sale it leads to was
\* completed and paid with exactly the payments typed, each of them once,
\* whatever earlier submissions left behind.
LeftMeansSoldAndPaid ==
    page = "left" /\ "complete" \in rights =>
        /\ sales[form.sale].status \in {"COMPLETED", "ANNULLED"}
        /\ LET P == {j \in DOMAIN pays : pays[j].sale = form.sale} IN
           /\ \A j \in P : pays[j].status = "COMPLETED"
           /\ Cardinality(P) = Len(form.split)
           /\ \A j \in P : \E n \in DOMAIN form.split : pays[j].amount = form.split[n]
           /\ PaidFor(form.sale) <= sales[form.sale].net

\* However often a chain of calls breaks and is started again, an order has
\* one sale that stands, and the counter sells a cart again only when the
\* seller was told of an error: there is one sale more than there were errors
\* at most.
SoldOnce ==
    /\ kind = "order" =>
        Cardinality({i \in DOMAIN sales : sales[i].status # "ANNULLED"}) <= 1
    /\ kind = "direct" => Len(sales) <= told + 1

\* What leaves the counter is sold once and paid.
SoldOnceAndPaid == LeftMeansSoldAndPaid /\ SoldOnce

\* A submission comes to an end: the seller gets the sale, or an error and the
\* form back, as long as every call gets an answer or fails.
SubmissionEnds == Busy ~> ~Busy
=============================================================================
