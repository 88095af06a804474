------------------------------ MODULE Payments ------------------------------
(***************************************************************************)
(* The payments module: payments taken for orders and sales, and refunds.  *)
(*                                                                         *)
(* A payment is created as a DRAFT with its allocations, the rows that say *)
(* which target gets how much of it, and counts once it is COMPLETED.  It  *)
(* may be annulled, and part of it given back by refunds.                  *)
(*                                                                         *)
(* Creating a document is one step: what its checks read before the        *)
(* transaction could as well change right after it.  The other use cases   *)
(* run at READ COMMITTED without locks, and requests overlap: a request    *)
(* reads the document and claims its idempotency key (Begin), makes its    *)
(* checks one by one (Check), and writes the document by id, whatever has  *)
(* become of it, and commits (Write).  The key it claimed blocks others    *)
(* with the same key until it commits, and then fails them.                *)
(*                                                                         *)
(* Amounts come in as decimal strings of any scale and are stored with two *)
(* digits: here in mills, ten to the cent, and in cents.                   *)
(***************************************************************************)
EXTENDS Quantities, Integers

CONSTANTS
    Payment,        \* payments
    Target,         \* orders and sales that can be paid
    Sold,           \* the sales among them: their net amount is fixed
    Row,            \* allocations
    RowPayment,     \* the payment an allocation is part of
    RowTarget,      \* the target it covers
    RowAmount,      \* its amount as the client sent it, in mills
    Refund,         \* refunds
    RefundPayment,  \* the payment a refund gives back
    RefundAmount,   \* its amount as the client sent it, in mills
    Key,            \* idempotency keys of requests
    Presses,        \* bound: the keys clients send with the requests of a document
    Request,        \* the requests that can be in flight at once
    NoPrice,        \* of an order whose planned price is not set
    Price,          \* bound: the prices a target can have, in cents
    Unsettled       \* bound: the targets that are priced, repriced or closed late

Document == Payment \cup Refund

ASSUME DocumentAssumption ==
    /\ IsFiniteSet(Row) /\ IsFiniteSet(Refund) /\ IsFiniteSet(Request)
    /\ Payment \cap Refund = {}
    /\ Sold \subseteq Target
    /\ RowPayment \in [Row -> Payment]
    /\ RowTarget \in [Row -> Target]
    /\ RowAmount \in [Row -> Nat]
    /\ RefundPayment \in [Refund -> Payment]
    /\ RefundAmount \in [Refund -> Nat]

ASSUME PriceAssumption == Price \subseteq Nat /\ NoPrice \notin Nat

VARIABLES
    due,      \* due[t]: planned price of an order, net amount of a sale
    peak,     \* peak[t]: the highest price t has had (history)
    open,     \* the targets that are neither cancelled nor annulled
    method,   \* status of the payment method
    payment,  \* payment[p]: NONE until it is created
    active,   \* the allocations whose isActive is set
    refund,   \* refund[r]: NONE until it is created
    posted,   \* the idempotency keys claimed: <<operation, document, key>>
    flight    \* flight[q]: the request in flight, or Idle

targetVars == <<due, peak, open, method>>
vars == <<targetVars, payment, active, refund, posted, flight>>

Status == {"NONE", "DRAFT", "COMPLETED", "ANNULLED"}
Operation == {"completePayment", "annulPayment", "completeRefund", "annulRefund"}

\* Money.toFixed(2), half up.
Cents(mills) == (mills + 5) \div 10

RowsOf(p) == {w \in Row : RowPayment[w] = p}
RefundsOf(p) == {r \in Refund : RefundPayment[r] = p}

\* The amounts as they are stored.
Share == [w \in Row |-> Cents(RowAmount[w])]
GivenBack == [r \in Refund |-> Cents(RefundAmount[r])]
AmountOf == [p \in Payment |-> Cents(TotalOn(RowAmount, RowsOf(p)))]

\* sumActiveCompletedAllocationsForTarget, sumCompletedRefundsForPayment
Paid(t) ==
    TotalOn(Share, {w \in active : RowTarget[w] = t /\ payment[RowPayment[w]] = "COMPLETED"})
Refunded(p) == TotalOn(GivenBack, {r \in RefundsOf(p) : refund[r] = "COMPLETED"})

Idle == [do |-> "nothing"]

Init ==
    /\ due \in [Target -> Price \cup {NoPrice}]
    /\ \A t \in Sold \cup (Target \ Unsettled) : due[t] # NoPrice
    /\ peak = [t \in Target |-> IF due[t] = NoPrice THEN 0 ELSE due[t]]
    /\ open = Target
    /\ method = "ACTIVE"
    /\ payment = [p \in Payment |-> "NONE"]
    /\ active = {}
    /\ refund = [r \in Refund |-> "NONE"]
    /\ posted = {}
    /\ flight = [q \in Request |-> Idle]

-----------------------------------------------------------------------------
(***************************************************************************)
(* What happens to the targets and to the payment method.                  *)
(***************************************************************************)
\* updateDraft of the orders module
Reprice(t, n) ==
    /\ t \in (open \ Sold) \cap Unsettled
    /\ due' = [due EXCEPT ![t] = n]
    /\ peak' = [peak EXCEPT ![t] = IF n > @ THEN n ELSE @]
    /\ UNCHANGED <<open, method, payment, active, refund, posted, flight>>

\* cancelOrder, annulSale
Close(t) ==
    /\ t \in open \cap Unsettled
    /\ open' = open \ {t}
    /\ UNCHANGED <<due, peak, method, payment, active, refund, posted, flight>>

ArchivePaymentMethod ==
    /\ method' = "ARCHIVED"
    /\ UNCHANGED <<due, peak, open, payment, active, refund, posted, flight>>

-----------------------------------------------------------------------------
(***************************************************************************)
(* Creating documents.                                                     *)
(***************************************************************************)
\* Mutant of PositiveAmount: only the amount the client sent is looked at.
PositiveMills(mills) == mills > 0

\* assertAmountPositive, and the CHECK (amount > 0) on what is stored.
PositiveAmount(mills) == mills > 0 /\ Cents(mills) > 0

\* An order prepayment covers orders only, a sale payment sales only.
OfOneType(p) ==
    LET T == {RowTarget[w] : w \in RowsOf(p)}
    IN  T \subseteq Sold \/ T \cap Sold = {}

CreatePayment(p) ==
    /\ payment[p] = "NONE"
    /\ RowsOf(p) # {}
    /\ OfOneType(p)
    /\ method = "ACTIVE"
    /\ \A w \in RowsOf(p) :
          /\ PositiveAmount(RowAmount[w])
          /\ RowTarget[w] \in open
          /\ due[RowTarget[w]] # NoPrice
    /\ payment' = [payment EXCEPT ![p] = "DRAFT"]
    /\ active' = active \cup RowsOf(p)
    /\ UNCHANGED <<targetVars, refund, posted, flight>>

\* Mutant of WithinLimit: what was refunded before does not count.
WithinPayment(p, mills) == mills <= 10 * AmountOf[p]

\* assertRefundWithinLimit
WithinLimit(p, mills) == 10 * Refunded(p) + mills <= 10 * AmountOf[p]

\* The checks of createRefund.
AcceptsRefund(r) ==
    LET p == RefundPayment[r]
    IN  /\ refund[r] = "NONE"
        /\ payment[p] = "COMPLETED"
        /\ method = "ACTIVE"
        /\ PositiveAmount(RefundAmount[r])
        /\ WithinLimit(p, RefundAmount[r])

CreateRefund(r) ==
    /\ AcceptsRefund(r)
    /\ refund' = [refund EXCEPT ![r] = "DRAFT"]
    /\ UNCHANGED <<targetVars, payment, active, posted, flight>>

-----------------------------------------------------------------------------
(***************************************************************************)
(* Completing and annulling.                                               *)
(***************************************************************************)
\* assertCanComplete, assertCanAnnul, assertRefundCanComplete, assertRefundCanAnnul
Admits(op, d) ==
    \/ op = "completePayment" /\ d \in Payment /\ payment[d] = "DRAFT" /\ method = "ACTIVE"
    \/ op = "annulPayment" /\ d \in Payment /\ payment[d] = "COMPLETED"
    \/ op = "completeRefund" /\ d \in Refund /\ refund[d] = "DRAFT"
    \/ op = "annulRefund" /\ d \in Refund /\ refund[d] \in {"DRAFT", "COMPLETED"}

\* What is still to be checked: the allocations in turn, or the refunds.
Checks(op, d) ==
    CASE op = "completePayment" -> RowsOf(d) \cap active
      [] op \in {"annulPayment", "completeRefund"} -> {"refunds"}
      [] OTHER -> {}

\* Mutant of KeyIsFree: the posted key is not unique.
KeyIsIgnored(op, d, k) == TRUE

\* The unique index on the idempotency keys.  A request that finds its key
\* posted changes nothing.
KeyIsFree(op, d, k) == <<op, d, k>> \notin posted

Begin(q, op, d, k) ==
    /\ flight[q] = Idle
    /\ k \in Presses[d]
    /\ KeyIsFree(op, d, k)
    /\ Admits(op, d)
    /\ flight' = [flight EXCEPT ![q] = [do |-> op, doc |-> d, key |-> k, todo |-> Checks(op, d)]]
    /\ UNCHANGED <<targetVars, payment, active, refund, posted>>

\* Mutant of NoOverpayment: what was paid before does not count.
NoBigPayment(t, cents) == due[t] # NoPrice /\ cents <= due[t]

\* assertNoOverpayment
NoOverpayment(t, cents) == due[t] # NoPrice /\ Paid(t) + cents <= due[t]

\* assertNoOverpaymentForPayment, countCompletedRefunds, assertRefundWithinLimit
Passes(op, d, x) ==
    /\ op = "completePayment" => NoOverpayment(RowTarget[x], Share[x])
    /\ op = "annulPayment" => \A r \in RefundsOf(d) : refund[r] # "COMPLETED"
    /\ op = "completeRefund" => WithinLimit(RefundPayment[d], 10 * GivenBack[d])

Check(q, x) ==
    LET f == flight[q]
    IN  /\ f # Idle
        /\ x \in f.todo
        /\ Passes(f.do, f.doc, x)
        /\ flight' = [flight EXCEPT ![q].todo = @ \ {x}]
        /\ UNCHANGED <<targetVars, payment, active, refund, posted>>

\* markPaymentCompleted and its like update by id; annulPayment also
\* deactivates the allocations.
Write(q) ==
    LET f == flight[q]
        s == IF f.do \in {"completePayment", "completeRefund"} THEN "COMPLETED" ELSE "ANNULLED"
    IN  /\ f # Idle
        /\ f.todo = {}
        /\ KeyIsFree(f.do, f.doc, f.key)
        /\ posted' = posted \cup {<<f.do, f.doc, f.key>>}
        /\ flight' = [flight EXCEPT ![q] = Idle]
        /\ IF f.doc \in Payment
           THEN payment' = [payment EXCEPT ![f.doc] = s] /\ UNCHANGED refund
           ELSE refund' = [refund EXCEPT ![f.doc] = s] /\ UNCHANGED payment
        /\ active' = IF f.do = "annulPayment" THEN active \ RowsOf(f.doc) ELSE active
        /\ UNCHANGED targetVars

\* A check fails, the key was claimed by another request, or the client is gone.
Fail(q) ==
    /\ flight[q] # Idle
    /\ flight' = [flight EXCEPT ![q] = Idle]
    /\ UNCHANGED <<targetVars, payment, active, refund, posted>>

Next ==
    \/ \E t \in Target : Close(t) \/ \E n \in Price : Reprice(t, n)
    \/ ArchivePaymentMethod
    \/ \E p \in Payment : CreatePayment(p)
    \/ \E r \in Refund : CreateRefund(r)
    \/ \E q \in Request :
          \/ flight[q] = Idle /\ \E op \in Operation, d \in Document, k \in Key : Begin(q, op, d, k)
          \/ flight[q] # Idle /\ \E x \in flight[q].todo : Check(q, x)
          \/ Write(q)
          \/ Fail(q)

Spec == Init /\ [][Next]_vars

-----------------------------------------------------------------------------
(***************************************************************************)
(* Type correctness.  No stored amount is zero, although an amount may be  *)
(* too small to survive its rounding.                                      *)
(***************************************************************************)
InFlight ==
    {Idle} \cup [do : Operation, doc : Document, key : Key, todo : SUBSET (Row \cup {"refunds"})]

TypeOK ==
    /\ due \in [Target -> Nat \cup {NoPrice}]
    /\ peak \in [Target -> Nat]
    /\ open \subseteq Target
    /\ method \in {"ACTIVE", "ARCHIVED"}
    /\ payment \in [Payment -> Status]
    /\ active \subseteq Row
    /\ refund \in [Refund -> Status]
    /\ posted \subseteq Operation \X Document \X Key
    /\ flight \in [Request -> InFlight]
    /\ \A w \in active : Share[w] > 0
    /\ \A r \in Refund : refund[r] # "NONE" => GivenBack[r] > 0

(***************************************************************************)
(* Refunds stay within the payment (ADR-022), but for requests that        *)
(* overlap: n requests at once give back at most n times the payment.      *)
(* With one request at a time this is the limit itself.                    *)
(***************************************************************************)
RefundsBounded ==
    \A p \in Payment : Refunded(p) <= Cardinality(Request) * AmountOf[p]

(***************************************************************************)
(* No target is paid more than its price (ADR-021), but for requests that  *)
(* overlap: n requests at once pay at most n times the highest price the   *)
(* target has had.  This needs a payment to list a target only once: the   *)
(* code checks the allocations of a payment without adding them up.        *)
(***************************************************************************)
ListedOnce ==
    {t \in Target : \A v, w \in Row :
        RowTarget[v] = t /\ RowTarget[w] = t /\ RowPayment[v] = RowPayment[w] => v = w}

PaidBounded ==
    \A t \in ListedOnce : Paid(t) <= Cardinality(Request) * peak[t]

\* Money neither comes in nor goes out beyond its limit.
LimitsHold == RefundsBounded /\ PaidBounded

(***************************************************************************)
(* What an annulment takes from a payment is gone for good: none of its    *)
(* allocations counts again, although completePayment and annulPayment     *)
(* write by id, whatever has become of the payment since they read it.     *)
(* Such a payment reads COMPLETED again only if it was completed twice,    *)
(* under two keys, as two presses of the button do; repeated under its key *)
(* a completion never writes over an annulment.  Any other payment covers  *)
(* all its targets from the draft on.                                      *)
(***************************************************************************)
Withdrawn(p) == payment[p] \in {"COMPLETED", "ANNULLED"} /\ RowsOf(p) \cap active = {}

CompletedTwice(p) ==
    \E j, k \in Key :
        j # k /\ {<<"completePayment", p, j>>, <<"completePayment", p, k>>} \subseteq posted

AnnulledForGood ==
    [][\A p \in Payment :
          /\ Withdrawn(p) => Withdrawn(p)'
          /\ payment'[p] = "ANNULLED" => Withdrawn(p)'
          /\ payment'[p] \notin {"NONE", "ANNULLED"} => RowsOf(p) \subseteq active' \/ Withdrawn(p)'
          /\ payment'[p] = "COMPLETED" /\ Withdrawn(p)' => CompletedTwice(p)']_<<payment, active>>
=============================================================================
