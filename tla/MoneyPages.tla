----------------------------- MODULE MoneyPages -----------------------------
(***************************************************************************)
(* The back office over Payments: the pages of a payment and of a sale,    *)
(* and the payment summary of a target that they and the page of a new     *)
(* sale show.                                                              *)
(*                                                                         *)
(* A page that has just been loaded shows the rows as they are.  What it   *)
(* then offers is decided by its own conditions and by the figures of the  *)
(* summary, which are not those the use cases check: a summary takes       *)
(* refunds off what was paid, the rule against overpayment does not.       *)
(*                                                                         *)
(* A button sends one request, with a new idempotency key each time.       *)
(* Methods, dates, reasons and the lists' columns are left out.            *)
(***************************************************************************)
EXTENDS Payments

-----------------------------------------------------------------------------
(***************************************************************************)
(* The payment summary.                                                    *)
(***************************************************************************)
Least0(n) == IF n < 0 THEN 0 ELSE n

\* sumCompletedRefundsForTarget: every refund of every payment that has an
\* allocation to the target counts, the whole of it, whatever else the payment
\* covers and whether or not it was annulled.
RefundedOf(t) ==
    TotalOn(GivenBack,
        {r \in Refund :
            /\ refund[r] = "COMPLETED"
            /\ \E w \in RowsOf(RefundPayment[r]) :
                  RowTarget[w] = t /\ payment[RowPayment[w]] # "NONE"})

\* Mutant of NetPaid: the allocations of drafts count.
NetPromised(t) ==
    Least0(TotalOn(Share, {w \in active : RowTarget[w] = t}) - RefundedOf(t))

NetPaid(t) == Least0(Paid(t) - RefundedOf(t))

\* An order without a planned price owes nothing.
BalanceDue(t) == IF due[t] = NoPrice THEN 0 ELSE Least0(due[t] - NetPaid(t))

\* computePaymentStatusProjection
Projection(t) ==
    LET refunded == RefundedOf(t) > 0
        paid == Paid(t)
        net == NetPaid(t)
        total == IF due[t] = NoPrice THEN 0 ELSE due[t]
    IN  CASE refunded /\ paid > 0 /\ net = 0 -> "REFUNDED"
          [] refunded /\ net > 0 -> "PARTIALLY_REFUNDED"
          [] net = 0 /\ ~(refunded /\ paid > 0) -> "UNPAID"
          [] ~refunded /\ net \in 1 .. total - 1 -> "PARTIALLY_PAID"
          [] OTHER -> "PAID"

-----------------------------------------------------------------------------
(***************************************************************************)
(* What the pages offer.                                                   *)
(***************************************************************************)
CompleteOffers == {p \in Payment : payment[p] = "DRAFT"}

\* Mutant of AnnulOffers: the button is there until the payment is annulled.
AnnulOffersUntilDone == {p \in Payment : payment[p] \in {"DRAFT", "COMPLETED"}}

\* Whatever refunds the page lists.  A draft cannot be annulled: it stays.
AnnulOffers == {p \in Payment : payment[p] = "COMPLETED"}

\* The refund form; the amount is typed in.
RefundOffers == {r \in Refund : refund[r] = "NONE" /\ payment[RefundPayment[r]] = "COMPLETED"}

\* Whatever has become of the payment.  No page annuls a refund.
CompleteRefundOffers == {r \in Refund : refund[r] = "DRAFT"}

\* The sale's page offers its payment form while the sale is COMPLETED, whatever
\* is due; an order's summary serves the page of its sale the same way.
FormOffers == {t \in open : due[t] # NoPrice}

\* "The whole amount" in the last line of the form.
Remainder(t, others) == Least0(BalanceDue(t) - others)

-----------------------------------------------------------------------------
(***************************************************************************)
(* What a request makes of an offer when no other runs at the same time.   *)
(***************************************************************************)
Done(op, d) == Admits(op, d) /\ \A x \in Checks(op, d) : Passes(op, d, x)

\* onAddPayment: each line of the form is created and completed in its turn, and
\* the first that is refused ends it: what went before is paid.
PaysBoth(t, one, other) == NoOverpayment(t, one) /\ NoOverpayment(t, one + other)

\* What the page of the payment lists as given back.
ListedBack(p) == TotalOn(GivenBack, {r \in RefundsOf(p) : refund[r] = "COMPLETED"})

\* The summaries of all that p covers show that its allocations are still due.
ShownDue(p) == \A w \in RowsOf(p) : due[RowTarget[w]] # NoPrice /\ Share[w] <= BalanceDue(RowTarget[w])

NothingBack(p) == \A w \in RowsOf(p) : RefundedOf(RowTarget[w]) = 0

(***************************************************************************)
(* The summaries and the use cases agree on what is still due, as far as   *)
(* nothing was given back: a draft that the summaries show to be due is    *)
(* completed while its method is active, and one that is completed was     *)
(* shown to be due.  A target shown as paid takes no more money, and where *)
(* nothing was given back the form's whole amount is accepted, in one line *)
(* or two.  (buildSummary against assertNoOverpaymentForPayment)           *)
(***************************************************************************)
SummariesTellWhatIsDue ==
    /\ \A p \in CompleteOffers :
          /\ method = "ACTIVE" /\ ShownDue(p) /\ NothingBack(p) => Done("completePayment", p)
          /\ Done("completePayment", p) => ShownDue(p)
    /\ \A t \in Target :
          /\ Projection(t) = "PAID" =>
                /\ BalanceDue(t) = 0
                /\ \A p \in CompleteOffers :
                      (\E w \in RowsOf(p) : RowTarget[w] = t) => ~Done("completePayment", p)
    /\ \A t \in FormOffers : RefundedOf(t) = 0 /\ BalanceDue(t) > 0 =>
          \A one \in 0 .. BalanceDue(t) : PaysBoth(t, one, Remainder(t, one))

(***************************************************************************)
(* What the page of a payment shows settles what its buttons do: it is     *)
(* annulled unless the page lists a completed refund, a refund is taken if *)
(* it fits what the page lists as not yet given back, and what was drafted *)
(* is completed by the same measure, even for an annulled payment.         *)
(***************************************************************************)
PaymentPageTells ==
    /\ \A p \in AnnulOffers : Done("annulPayment", p) <=> ListedBack(p) = 0
    /\ \A r \in RefundOffers :
          LET p == RefundPayment[r]
          IN  (method = "ACTIVE" /\ GivenBack[r] > 0 /\ 10 * ListedBack(p) + RefundAmount[r] <= 10 * AmountOf[p])
                  <=> AcceptsRefund(r)
    /\ \A r \in CompleteRefundOffers :
          LET p == RefundPayment[r]
          IN  Done("completeRefund", r) <=> ListedBack(p) + GivenBack[r] <= AmountOf[p]

\* The pages show what decides on the requests they offer.
MoneyPagesServe == SummariesTellWhatIsDue /\ PaymentPageTells
=============================================================================
