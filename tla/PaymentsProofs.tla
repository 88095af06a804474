---------------------------- MODULE PaymentsProofs ----------------------------
(***************************************************************************)
(* Proofs about Payments, for any payments, refunds, targets, prices and   *)
(* idempotency keys, and any number of requests at once.                   *)
(*                                                                         *)
(* What bounds the money is a sum: what has been paid (or given back) and  *)
(* what the requests that are past their check are about to add.  A check  *)
(* compares with the limit only what has been paid, so each request that   *)
(* is past it adds the limit once more at the most; a write moves its      *)
(* amount from one part of the sum to the other.                           *)
(*                                                                         *)
(* The last part is about CounterSale, for any cart, prices, terms and     *)
(* payments typed, and any number of submissions.                          *)
(***************************************************************************)
EXTENDS MoneyPages, CounterSale, QuantitiesProofs, FiniteSetTheorems, TLAPS

-----------------------------------------------------------------------------
(***************************************************************************)
(* n pending amounts and what counts already.                              *)
(***************************************************************************)
\* x counts already, request q is about to add f[q]; the limit is b for each.
Within(x, f, b) ==
    /\ x \in Nat
    /\ b \in Nat
    /\ f \in [Request -> 0 .. b]
    /\ x + TotalOn(f, Request) <= Cardinality(Request) * b

LEMMA ProductMono ==
    ASSUME NEW n \in Nat, NEW a \in Nat, NEW b \in Nat, a <= b
    PROVE  n * a \in Nat /\ n * a <= n * b
<1>1. PICK d \in Nat : b = a + d
  <2>1. b - a \in Nat /\ b = a + (b - a)
    OBVIOUS
  <2> QED
    BY <2>1
<1>2. n * b = n * a + n * d
  BY <1>1
<1>3. n * a \in Nat /\ n * d \in Nat
  OBVIOUS
<1> QED
  BY <1>2, <1>3

\* Amounts of at most b add up to at most b times their number.
LEMMA TotalBound ==
    ASSUME NEW S, IsFiniteSet(S), NEW b \in Nat, NEW f, \A k \in S : f[k] \in 0 .. b
    PROVE  TotalOn(f, S) \in Nat /\ TotalOn(f, S) <= Cardinality(S) * b
<1>1. TotalOn(f, S) \in Nat
  <2>1. \A k \in S : f[k] \in Nat
    OBVIOUS
  <2> QED
    BY <2>1, TotalNat
<1>2. IsFiniteSet(1 .. b) /\ Cardinality(1 .. b) = b
  BY FS_Interval
<1>3. IsFiniteSet(S \X (1 .. b)) /\ Cardinality(S \X (1 .. b)) = Cardinality(S) * b
  BY <1>2, FS_Product
<1>4. Units(f, S) \subseteq S \X (1 .. b)
  <2> SUFFICES ASSUME NEW k \in S, NEW n \in 1 .. f[k] PROVE <<k, n>> \in S \X (1 .. b)
    BY UnitIn
  <2>1. n \in 1 .. b
    OBVIOUS
  <2> QED
    BY <2>1
<1>5. Cardinality(Units(f, S)) <= Cardinality(S \X (1 .. b))
  BY <1>3, <1>4, FS_Subset
<1> QED
  BY <1>1, <1>3, <1>5 DEF TotalOn

LEMMA RequestsFinite == IsFiniteSet(Request) /\ Cardinality(Request) \in Nat
BY DocumentAssumption, FS_CardinalityType

\* Nothing grows but the limit.
LEMMA WithinShrink ==
    ASSUME NEW x, NEW y \in Nat, NEW f, NEW g, NEW b, NEW c \in Nat, Within(x, f, b), y <= x, b <= c,
           g \in [Request -> Nat], \A r \in Request : g[r] <= f[r]
    PROVE  Within(y, g, c)
<1>1. x \in Nat /\ b \in Nat /\ f \in [Request -> 0 .. b]
      /\ x + TotalOn(f, Request) <= Cardinality(Request) * b
  BY DEF Within
<1>2. g \in [Request -> 0 .. c]
  BY <1>1
<1>3. TotalOn(f, Request) \in Nat /\ TotalOn(g, Request) \in Nat
  BY <1>1, RequestsFinite, TotalNat
<1>4. TotalOn(g, Request) <= TotalOn(f, Request)
  BY <1>1, RequestsFinite, TotalMono
<1>5. /\ Cardinality(Request) * b \in Nat /\ Cardinality(Request) * c \in Nat
      /\ Cardinality(Request) * b <= Cardinality(Request) * c
  BY <1>1, RequestsFinite, ProductMono
<1> QED
  BY <1>1, <1>2, <1>3, <1>4, <1>5 DEF Within

\* Request q passes its check: with what counts already it keeps the limit.
LEMMA WithinPass ==
    ASSUME NEW x, NEW f, NEW g, NEW b, Within(x, f, b), NEW q \in Request,
           g \in [Request -> Nat], \A r \in Request : r # q => g[r] = f[r], x + g[q] <= b
    PROVE  Within(x, g, b)
<1> DEFINE rest == Request \ {q}
           n == Cardinality(Request)
<1>1. x \in Nat /\ b \in Nat /\ f \in [Request -> 0 .. b]
  BY DEF Within
<1>2. g \in [Request -> 0 .. b]
  BY <1>1
<1>3. IsFiniteSet(rest) /\ n \in Nat /\ Cardinality(rest) = n - 1 /\ n - 1 \in Nat
  <2>1. IsFiniteSet(rest) /\ Cardinality(rest) = n - 1
    BY RequestsFinite, FS_RemoveElement
  <2>2. Cardinality(rest) \in Nat
    BY <2>1, FS_CardinalityType
  <2> QED
    BY <2>1, <2>2, RequestsFinite
<1>4. TotalOn(g, rest) \in Nat /\ TotalOn(g, rest) <= (n - 1) * b
  BY <1>1, <1>2, <1>3, TotalBound
<1>5. TotalOn(g, Request) = TotalOn(g, rest) + g[q]
  <2>1. Request = rest \cup {q} /\ rest \cap {q} = {} /\ \A k \in rest \cup {q} : g[k] \in Nat
    BY <1>2
  <2>2. IsFiniteSet({q})
    BY FS_Singleton
  <2> HIDE DEF rest
  <2>3. TotalOn(g, rest \cup {q}) = TotalOn(g, rest) + TotalOn(g, {q})
    BY <1>3, <2>1, <2>2, TotalSplit
  <2>4. TotalOn(g, {q}) = g[q]
    BY TotalSingle
  <2> QED
    BY <2>1, <2>3, <2>4
<1>6. (n - 1) * b + b = n * b
  BY <1>1, <1>3
<1>7. (n - 1) * b \in Nat /\ g[q] \in Nat
  BY <1>1, <1>2, <1>3
<1> HIDE DEF rest, n
<1>8. x + TotalOn(g, Request) <= n * b
  BY <1>1, <1>4, <1>5, <1>6, <1>7
<1> QED
  BY <1>1, <1>2, <1>8 DEF Within, n

\* The amount of request q counts now, and is no longer pending.
LEMMA WithinPaid ==
    ASSUME NEW x, NEW y \in Nat, NEW f, NEW g, NEW b, Within(x, f, b), NEW q \in Request,
           y <= x + f[q], g \in [Request -> Nat], g[q] = 0,
           \A r \in Request : g[r] <= f[r]
    PROVE  Within(y, g, b)
<1> DEFINE h == [f EXCEPT ![q] = 0]
<1>1. x \in Nat /\ b \in Nat /\ f \in [Request -> 0 .. b]
      /\ x + TotalOn(f, Request) <= Cardinality(Request) * b
  BY DEF Within
<1>2. h \in [Request -> Nat] /\ h[q] = 0 /\ \A r \in Request : r # q => h[r] = f[r]
  BY <1>1
<1>3. \A r \in Request : g[r] <= h[r] /\ f[r] \in Nat /\ h[r] \in Nat /\ g[r] \in Nat
  BY <1>1, <1>2
<1> HIDE DEF h
<1>4. TotalOn(h, Request) = TotalOn(f, Request) - f[q] + h[q]
  BY <1>2, <1>3, RequestsFinite, TotalExcept
<1>5. TotalOn(g, Request) <= TotalOn(h, Request)
  BY <1>3, RequestsFinite, TotalMono
<1>6. TotalOn(f, Request) \in Nat /\ TotalOn(g, Request) \in Nat /\ TotalOn(h, Request) \in Nat
  BY <1>3, RequestsFinite, TotalNat
<1>7. Cardinality(Request) * b \in Nat
  BY <1>1, RequestsFinite, ProductMono
<1>8. y + TotalOn(g, Request) <= Cardinality(Request) * b
  BY <1>1, <1>2, <1>3, <1>4, <1>5, <1>6, <1>7
<1>9. g \in [Request -> 0 .. b]
  BY <1>1, <1>3
<1> QED
  BY <1>1, <1>8, <1>9 DEF Within

-----------------------------------------------------------------------------
(***************************************************************************)
(* What counts, and what is pending, read off the rows.                    *)
(***************************************************************************)
Requests == [do : Operation, doc : Document, key : Key, todo : SUBSET (Row \cup {"refunds"})]

RowsFor(t) == {w \in Row : RowTarget[w] = t}

\* Paid(t) and Refunded(p), of given rows.
PaidIn(rows, pay, t) == TotalOn(Share, {w \in rows : RowTarget[w] = t /\ pay[RowPayment[w]] = "COMPLETED"})
RefundedIn(ref, p) == TotalOn(GivenBack, {r \in RefundsOf(p) : ref[r] = "COMPLETED"})

\* What request f, past its check, is about to give back of p.
BackOf(f, p) ==
    IF /\ f.do = "completeRefund"
       /\ f.todo = {}
       /\ RefundPayment[f.doc] = p
    THEN GivenBack[f.doc] ELSE 0

\* The allocations to t that completePayment has checked, and their amount.
Checked(f, rows, t) == {w \in (RowsOf(f.doc) \cap rows) \ f.todo : RowTarget[w] = t}
PayOf(f, rows, t) == IF f.do = "completePayment" THEN TotalOn(Share, Checked(f, rows, t)) ELSE 0

Backs(fl, p) == [q \in Request |-> BackOf(fl[q], p)]
Pays(fl, rows, t) == [q \in Request |-> PayOf(fl[q], rows, t)]

LEMMA AmountTypes ==
    /\ Share \in [Row -> Nat]
    /\ GivenBack \in [Refund -> Nat]
    /\ \A p \in Payment : AmountOf[p] \in Nat
<1>1. ASSUME NEW m \in Nat PROVE Cents(m) \in Nat
  BY DEF Cents
<1>2. ASSUME NEW p \in Payment PROVE TotalOn(RowAmount, RowsOf(p)) \in Nat
  <2>1. IsFiniteSet(RowsOf(p))
    BY DocumentAssumption, FS_Subset DEF RowsOf
  <2>2. \A w \in RowsOf(p) : RowAmount[w] \in Nat
    BY DocumentAssumption DEF RowsOf
  <2> QED
    BY <2>1, <2>2, TotalNat
<1> QED
  BY <1>1, <1>2, DocumentAssumption DEF Share, GivenBack, AmountOf

LEMMA ShareTotals ==
    ASSUME NEW S, S \subseteq Row
    PROVE  /\ IsFiniteSet(S)
           /\ \A w \in S : Share[w] \in Nat
           /\ TotalOn(Share, S) \in Nat
<1>1. IsFiniteSet(S) /\ \A w \in S : Share[w] \in Nat
  BY DocumentAssumption, AmountTypes, FS_Subset
<1> QED
  BY <1>1, TotalNat

LEMMA BackTotals ==
    ASSUME NEW S, S \subseteq Refund
    PROVE  /\ IsFiniteSet(S)
           /\ \A r \in S : GivenBack[r] \in Nat
           /\ TotalOn(GivenBack, S) \in Nat
<1>1. IsFiniteSet(S) /\ \A r \in S : GivenBack[r] \in Nat
  BY DocumentAssumption, AmountTypes, FS_Subset
<1> QED
  BY <1>1, TotalNat

LEMMA PaidMeans ==
    /\ \A t : Paid(t) = PaidIn(active, payment, t)
    /\ \A t : Paid(t)' = PaidIn(active', payment', t)
    /\ \A p : Refunded(p) = RefundedIn(refund, p)
    /\ \A p : Refunded(p)' = RefundedIn(refund', p)
BY DEF Paid, PaidIn, Refunded, RefundedIn

\* No request in flight is Idle, and Idle pays nothing.
LEMMA RequestOrIdle ==
    /\ \A f \in InFlight : f # Idle => f \in Requests
    /\ \A f \in Requests : f # Idle /\ f.do \in Operation
    /\ Idle.do = "nothing" /\ "nothing" \notin Operation
    /\ \A p : BackOf(Idle, p) = 0
    /\ \A rows, t : PayOf(Idle, rows, t) = 0
BY DEF InFlight, Requests, Idle, Operation, BackOf, PayOf

\* An allocation to t in every payment at most once: at most one is checked.
LEMMA CheckedOnce ==
    ASSUME NEW t, t \in ListedOnce, NEW f, NEW rows
    PROVE  Checked(f, rows, t) = {} \/ \E w \in Row : Checked(f, rows, t) = {w}
BY DEF ListedOnce, Checked, RowsOf

LEMMA PendingTypes ==
    ASSUME NEW fl, \A q \in Request : fl[q] \in InFlight, NEW rows,
           \A q \in Request : fl[q].do = "completeRefund" => fl[q].doc \in Refund
    PROVE  /\ \A p : Backs(fl, p) \in [Request -> Nat]
           /\ \A t : Pays(fl, rows, t) \in [Request -> Nat]
<1>1. ASSUME NEW p, NEW q \in Request PROVE BackOf(fl[q], p) \in Nat
  BY AmountTypes DEF BackOf
<1>2. ASSUME NEW t, NEW q \in Request PROVE PayOf(fl[q], rows, t) \in Nat
  <2>1. TotalOn(Share, Checked(fl[q], rows, t)) \in Nat
    BY ShareTotals DEF Checked, RowsOf
  <2> QED
    BY <2>1 DEF PayOf
<1> QED
  BY <1>1, <1>2 DEF Backs, Pays

-----------------------------------------------------------------------------
(***************************************************************************)
(* The inductive invariant.                                                *)
(***************************************************************************)
\* A request in flight is about a document that exists.
FlightIsSound(f, pay, ref) ==
    f # Idle =>
        /\ f.do \in {"completePayment", "annulPayment"} => f.doc \in Payment /\ pay[f.doc] # "NONE"
        /\ f.do \in {"completeRefund", "annulRefund"} => f.doc \in Refund /\ ref[f.doc] # "NONE"
        /\ f.do = "completePayment" => f.todo \subseteq RowsOf(f.doc)

FlightsAreSound == \A q \in Request : FlightIsSound(flight[q], payment, refund)

PricesAreSeen == \A t \in Target : due[t] # NoPrice => due[t] <= peak[t]

BacksWithin(ref, fl) == \A p \in Payment : Within(RefundedIn(ref, p), Backs(fl, p), AmountOf[p])

PaysWithin(rows, pay, fl, top) ==
    \A t \in Target : t \in ListedOnce => Within(PaidIn(rows, pay, t), Pays(fl, rows, t), top[t])

IInv ==
    /\ TypeOK
    /\ FlightsAreSound
    /\ PricesAreSeen
    /\ BacksWithin(refund, flight)
    /\ PaysWithin(active, payment, flight, peak)

LEMMA ShrunkPays ==
    ASSUME NEW f, NEW rows, rows \subseteq Row, NEW less, less \subseteq rows, NEW t
    PROVE  PayOf(f, less, t) <= PayOf(f, rows, t)
<1>1. Checked(f, less, t) \subseteq Checked(f, rows, t) /\ Checked(f, rows, t) \subseteq Row
  BY DEF Checked, RowsOf
<1> DEFINE C == Checked(f, rows, t)
           D == Checked(f, less, t)
<1>2. /\ IsFiniteSet(C) /\ \A w \in C : Share[w] \in Nat
      /\ \A w \in D : Share[w] <= Share[w]
      /\ TotalOn(Share, C) \in Nat
  BY <1>1, ShareTotals
<1> HIDE DEF C, D
<1>3. TotalOn(Share, D) <= TotalOn(Share, C)
  BY <1>1, <1>2, TotalMono DEF C, D
<1> QED
  BY <1>3 DEF PayOf, C, D

LEMMA IntervalNat == ASSUME NEW x, NEW f, NEW b, Within(x, f, b) PROVE f \in [Request -> Nat]
BY DEF Within

LEMMA InitInv == Init => IInv
<1> SUFFICES ASSUME Init PROVE IInv
  OBVIOUS
<1>1. TypeOK /\ FlightsAreSound
  <2>1. due \in [Target -> Nat \cup {NoPrice}]
    BY PriceAssumption DEF Init
  <2>2. peak \in [Target -> Nat]
    BY <2>1 DEF Init
  <2>3. \A q \in Request : flight[q] = Idle
    BY DEF Init
  <2>4. flight \in [Request -> InFlight]
    BY <2>3 DEF Init, InFlight
  <2> QED
    BY <2>1, <2>2, <2>3, <2>4 DEF Init, TypeOK, FlightsAreSound, FlightIsSound, Status
<1>2. PricesAreSeen
  <2> SUFFICES ASSUME NEW t \in Target, due[t] # NoPrice PROVE due[t] <= peak[t]
    BY DEF PricesAreSeen
  <2>1. due[t] \in Price /\ peak[t] = due[t]
    BY DEF Init
  <2>2. due[t] \in Nat
    BY <2>1, PriceAssumption
  <2> QED
    BY <2>1, <2>2
<1>3. ASSUME NEW b \in Nat, NEW f, f \in [Request -> Nat], \A q \in Request : f[q] = 0
      PROVE  Within(0, f, b)
  <2>1. TotalOn(f, Request) = 0
    BY <1>3, TotalZero
  <2>2. Cardinality(Request) * b \in Nat
    BY RequestsFinite, ProductMono
  <2>3. f \in [Request -> 0 .. b]
    BY <1>3
  <2> QED
    BY <2>1, <2>2, <2>3 DEF Within
<1>4. ASSUME NEW p \in Payment PROVE Within(RefundedIn(refund, p), Backs(flight, p), AmountOf[p])
  <2>1. RefundedIn(refund, p) = 0
    <3>1. {r \in RefundsOf(p) : refund[r] = "COMPLETED"} = {}
      BY DEF Init, RefundsOf
    <3> QED
      BY <3>1, TotalZero DEF RefundedIn
  <2>2. Backs(flight, p) \in [Request -> Nat] /\ \A q \in Request : Backs(flight, p)[q] = 0
    BY RequestOrIdle DEF Init, Backs
  <2> HIDE DEF Backs
  <2> QED
    BY <1>3, <2>1, <2>2, AmountTypes
<1>5. ASSUME NEW t \in Target PROVE Within(PaidIn(active, payment, t), Pays(flight, active, t), peak[t])
  <2>1. PaidIn(active, payment, t) = 0
    <3>1. {w \in active : RowTarget[w] = t /\ payment[RowPayment[w]] = "COMPLETED"} = {}
      BY DEF Init
    <3> QED
      BY <3>1, TotalZero DEF PaidIn
  <2>2. Pays(flight, active, t) \in [Request -> Nat] /\ \A q \in Request : Pays(flight, active, t)[q] = 0
    BY RequestOrIdle DEF Init, Pays
  <2>3. peak[t] \in Nat
    BY <1>1 DEF TypeOK
  <2> QED
    BY <1>3, <2>1, <2>2, <2>3
<1> QED
  BY <1>1, <1>2, <1>4, <1>5 DEF IInv, BacksWithin, PaysWithin

-----------------------------------------------------------------------------
\* The steps that leave payments, refunds and requests alone.
LEMMA TargetStep ==
    ASSUME IInv, UNCHANGED <<payment, active, refund, posted, flight>>,
           due' \in [Target -> Nat \cup {NoPrice}], peak' \in [Target -> Nat],
           open' \subseteq Target, method' \in {"ACTIVE", "ARCHIVED"},
           \A t \in Target : peak[t] <= peak'[t], PricesAreSeen'
    PROVE  IInv'
<1>1. TypeOK' /\ FlightsAreSound'
  BY DEF IInv, TypeOK, FlightsAreSound
<1>2. BacksWithin(refund', flight')
  BY DEF IInv
<1>3. PaysWithin(active', payment', flight', peak')
  <2> SUFFICES ASSUME NEW t \in Target, t \in ListedOnce
               PROVE  Within(PaidIn(active, payment, t), Pays(flight, active, t), peak'[t])
    BY DEF PaysWithin
  <2> DEFINE x == PaidIn(active, payment, t)
             f == Pays(flight, active, t)
  <2>1. Within(x, f, peak[t])
    BY DEF IInv, PaysWithin
  <2> HIDE DEF x, f
  <2>2. x \in Nat /\ f \in [Request -> Nat]
    BY <2>1 DEF Within
  <2>3. peak'[t] \in Nat /\ peak[t] <= peak'[t]
    OBVIOUS
  <2>4. x <= x /\ \A r \in Request : f[r] <= f[r]
    BY <2>2
  <2>5. Within(x, f, peak'[t])
    BY <2>1, <2>2, <2>3, <2>4, WithinShrink
  <2> QED
    BY <2>5 DEF x, f
<1> QED
  BY <1>1, <1>2, <1>3 DEF IInv

LEMMA RepriceStep == ASSUME IInv, NEW t \in Target, NEW n \in Price, Reprice(t, n) PROVE IInv'
<1>1. /\ due \in [Target -> Nat \cup {NoPrice}] /\ peak \in [Target -> Nat]
      /\ n \in Nat /\ NoPrice \notin Nat /\ \A u \in Target : due[u] # NoPrice => due[u] <= peak[u]
  BY PriceAssumption DEF IInv, TypeOK, PricesAreSeen
<1>2. /\ due' = [due EXCEPT ![t] = n]
      /\ peak' = [peak EXCEPT ![t] = IF n > peak[t] THEN n ELSE peak[t]]
      /\ UNCHANGED <<payment, active, refund, posted, flight, open, method>>
  BY DEF Reprice
<1>3. due' \in [Target -> Nat \cup {NoPrice}] /\ peak' \in [Target -> Nat]
  BY <1>1, <1>2
<1>4. \A u \in Target : peak[u] <= peak'[u]
  BY <1>1, <1>2
<1>5. PricesAreSeen'
  BY <1>1, <1>2 DEF PricesAreSeen
<1>6. open' \subseteq Target /\ method' \in {"ACTIVE", "ARCHIVED"}
  BY <1>2 DEF IInv, TypeOK
<1> QED
  BY <1>2, <1>3, <1>4, <1>5, <1>6, TargetStep

LEMMA CloseStep ==
    ASSUME IInv, (\E t \in Target : Close(t)) \/ ArchivePaymentMethod PROVE IInv'
<1>1. /\ UNCHANGED <<payment, active, refund, posted, flight, due, peak>>
      /\ open' \subseteq Target /\ method' \in {"ACTIVE", "ARCHIVED"}
  BY DEF IInv, TypeOK, Close, ArchivePaymentMethod
<1>2. /\ due' \in [Target -> Nat \cup {NoPrice}] /\ peak' \in [Target -> Nat]
      /\ \A t \in Target : peak[t] <= peak'[t]
  BY <1>1 DEF IInv, TypeOK
<1>3. PricesAreSeen'
  BY <1>1 DEF IInv, PricesAreSeen
<1> QED
  BY <1>1, <1>2, <1>3, TargetStep

LEMMA CreatePaymentStep == ASSUME IInv, NEW p \in Payment, CreatePayment(p) PROVE IInv'
<1>1. /\ payment[p] = "NONE"
      /\ \A w \in RowsOf(p) : PositiveAmount(RowAmount[w])
      /\ payment' = [payment EXCEPT ![p] = "DRAFT"]
      /\ active' = active \cup RowsOf(p)
      /\ UNCHANGED <<due, peak, open, method, refund, posted, flight>>
  BY DEF CreatePayment, targetVars
<1>2. /\ payment' \in [Payment -> Status] /\ payment'[p] = "DRAFT"
      /\ \A d \in Payment : d # p => payment'[d] = payment[d]
  BY <1>1 DEF IInv, TypeOK, Status
<1>3. active' \subseteq Row /\ \A w \in active' : Share[w] > 0
  BY <1>1 DEF IInv, TypeOK, PositiveAmount, Share, RowsOf
<1>4. TypeOK'
  BY <1>1, <1>2, <1>3 DEF IInv, TypeOK
<1>5. FlightsAreSound'
  BY <1>1, <1>2 DEF IInv, FlightsAreSound, FlightIsSound
<1>6. PricesAreSeen' /\ BacksWithin(refund', flight')
  BY <1>1 DEF IInv, PricesAreSeen
<1>7. PaysWithin(active', payment', flight', peak')
  <2> SUFFICES ASSUME NEW t \in Target
               PROVE  /\ PaidIn(active', payment', t) = PaidIn(active, payment, t)
                      /\ Pays(flight, active', t) = Pays(flight, active, t)
    BY <1>1 DEF IInv, PaysWithin
  <2>1. PaidIn(active', payment', t) = PaidIn(active, payment, t)
    <3>1. {w \in active' : RowTarget[w] = t /\ payment'[RowPayment[w]] = "COMPLETED"}
            = {w \in active : RowTarget[w] = t /\ payment[RowPayment[w]] = "COMPLETED"}
      <4>1. \A w \in Row : RowPayment[w] \in Payment
        BY DocumentAssumption
      <4> QED
        BY <1>1, <1>2, <4>1 DEF IInv, TypeOK, RowsOf
    <3> QED
      BY <3>1 DEF PaidIn
  <2>2. ASSUME NEW q \in Request PROVE PayOf(flight[q], active', t) = PayOf(flight[q], active, t)
    <3>1. CASE flight[q].do # "completePayment"
      BY <3>1 DEF PayOf
    <3>2. CASE flight[q].do = "completePayment"
      <4>1. flight[q] # Idle
        BY <3>2, RequestOrIdle DEF Operation
      <4>2. flight[q].doc \in Payment /\ flight[q].doc # p
        BY <1>1, <3>2, <4>1 DEF IInv, FlightsAreSound, FlightIsSound
      <4>3. RowsOf(flight[q].doc) \cap active' = RowsOf(flight[q].doc) \cap active
        BY <1>1, <4>2 DEF RowsOf
      <4>4. Checked(flight[q], active', t) = Checked(flight[q], active, t)
        BY <4>3, Zenon DEF Checked
      <4> QED
        BY <4>4 DEF PayOf
    <3> QED
      BY <3>1, <3>2
  <2> QED
    BY <2>1, <2>2 DEF Pays
<1> QED
  BY <1>4, <1>5, <1>6, <1>7 DEF IInv

LEMMA CreateRefundStep == ASSUME IInv, NEW r \in Refund, CreateRefund(r) PROVE IInv'
<1>1. /\ refund[r] = "NONE" /\ PositiveAmount(RefundAmount[r])
      /\ refund' = [refund EXCEPT ![r] = "DRAFT"]
      /\ UNCHANGED <<due, peak, open, method, payment, active, posted, flight>>
  BY DEF CreateRefund, AcceptsRefund, targetVars
<1>2. /\ refund' \in [Refund -> Status] /\ refund'[r] = "DRAFT"
      /\ \A d \in Refund : d # r => refund'[d] = refund[d]
  BY <1>1 DEF IInv, TypeOK, Status
<1>3. \A d \in Refund : refund'[d] # "NONE" => GivenBack[d] > 0
  BY <1>1, <1>2 DEF IInv, TypeOK, PositiveAmount, GivenBack
<1>4. TypeOK'
  BY <1>1, <1>2, <1>3 DEF IInv, TypeOK
<1>5. FlightsAreSound'
  BY <1>1, <1>2 DEF IInv, FlightsAreSound, FlightIsSound
<1>6. PricesAreSeen' /\ PaysWithin(active', payment', flight', peak')
  BY <1>1 DEF IInv, PricesAreSeen
<1>7. ASSUME NEW p \in Payment PROVE RefundedIn(refund', p) = RefundedIn(refund, p)
  <2>1. {d \in RefundsOf(p) : refund'[d] = "COMPLETED"} = {d \in RefundsOf(p) : refund[d] = "COMPLETED"}
    BY <1>1, <1>2 DEF RefundsOf
  <2> QED
    BY <2>1 DEF RefundedIn
<1>8. BacksWithin(refund', flight')
  BY <1>1, <1>7 DEF IInv, BacksWithin
<1> QED
  BY <1>4, <1>5, <1>6, <1>8 DEF IInv

-----------------------------------------------------------------------------
(***************************************************************************)
(* The steps of a request.                                                 *)
(***************************************************************************)
\* What is pending is typed, whoever asks.
LEMMA PendingNat ==
    ASSUME IInv
    PROVE  /\ \A p : Backs(flight, p) \in [Request -> Nat]
           /\ \A t, rows : Pays(flight, rows, t) \in [Request -> Nat]
<1>1. ASSUME NEW q \in Request
      PROVE  flight[q] \in InFlight /\ (flight[q].do = "completeRefund" => flight[q].doc \in Refund)
  <2>1. flight[q] \in InFlight
    BY DEF IInv, TypeOK
  <2>2. ASSUME flight[q].do = "completeRefund" PROVE flight[q] # Idle
    BY <2>2, RequestOrIdle DEF Operation
  <2> QED
    BY <2>1, <2>2 DEF IInv, FlightsAreSound, FlightIsSound
<1> QED
  BY <1>1, PendingTypes

(***************************************************************************)
(* A step of one request that writes nothing: it is enough that what is    *)
(* pending of it is within the limits.                                     *)
(***************************************************************************)
LEMMA FlightStep ==
    ASSUME IInv, NEW q \in Request, NEW f, f \in InFlight,
           FlightIsSound(f, payment, refund),
           flight' = [flight EXCEPT ![q] = f],
           UNCHANGED <<due, peak, open, method, payment, active, refund, posted>>,
           \A p \in Payment : BackOf(f, p) \in Nat /\
               (BackOf(f, p) <= BackOf(flight[q], p) \/ Refunded(p) + BackOf(f, p) <= AmountOf[p]),
           \A t \in Target : PayOf(f, active, t) \in Nat /\ (t \in ListedOnce =>
               (PayOf(f, active, t) <= PayOf(flight[q], active, t) \/ Paid(t) + PayOf(f, active, t) <= peak[t]))
    PROVE  IInv'
<1>1. /\ flight \in [Request -> InFlight] /\ flight' \in [Request -> InFlight] /\ flight'[q] = f
      /\ \A r \in Request : r # q => flight'[r] = flight[r]
  BY DEF IInv, TypeOK
<1>2. TypeOK'
  BY <1>1 DEF IInv, TypeOK
<1>3. FlightsAreSound' /\ PricesAreSeen'
  BY <1>1 DEF IInv, FlightsAreSound, PricesAreSeen
<1>4. ASSUME NEW x, NEW b, NEW g, NEW h, Within(x, g, b), h \in [Request -> Nat],
             \A r \in Request : r # q => h[r] = g[r],
             h[q] <= g[q] \/ x + h[q] <= b
      PROVE  Within(x, h, b)
  <2>1. x \in Nat /\ b \in Nat /\ g \in [Request -> 0 .. b] /\ x <= x /\ b <= b
    BY <1>4 DEF Within
  <2>2. CASE h[q] <= g[q]
    <3>1. \A r \in Request : h[r] <= g[r]
      BY <1>4, <2>1, <2>2
    <3> QED
      BY <1>4, <2>1, <3>1, WithinShrink
  <2>3. CASE x + h[q] <= b
    BY <1>4, <2>3, WithinPass
  <2> QED
    BY <1>4, <2>2, <2>3
<1>5. ASSUME NEW p \in Payment PROVE Within(RefundedIn(refund', p), Backs(flight', p), AmountOf[p])
  <2> DEFINE x == RefundedIn(refund, p)
             g == Backs(flight, p)
             h == Backs(flight', p)
             b == AmountOf[p]
  <2>1. Within(x, g, b)
    BY DEF IInv, BacksWithin
  <2>2. g[q] = BackOf(flight[q], p) /\ h[q] = BackOf(f, p) /\ \A r \in Request : r # q => h[r] = g[r]
    BY <1>1 DEF Backs
  <2>3. h \in [Request -> Nat]
    <3>1. g \in [Request -> Nat]
      BY PendingNat
    <3>2. h = [r \in Request |-> BackOf(flight'[r], p)]
      BY DEF Backs
    <3>3. \A r \in Request : h[r] \in Nat
      BY <2>2, <3>1
    <3> QED
      BY <3>2, <3>3
  <2>4. h[q] <= g[q] \/ x + h[q] <= b
    BY <2>2, PaidMeans
  <2>5. refund' = refund
    OBVIOUS
  <2> HIDE DEF x, g, h, b
  <2>6. Within(x, h, b)
    BY <1>4, <2>1, <2>2, <2>3, <2>4
  <2> QED
    BY <2>5, <2>6 DEF x, h, b
<1>6. ASSUME NEW t \in Target, t \in ListedOnce
      PROVE  Within(PaidIn(active', payment', t), Pays(flight', active', t), peak'[t])
  <2> DEFINE x == PaidIn(active, payment, t)
             g == Pays(flight, active, t)
             h == Pays(flight', active, t)
             b == peak[t]
  <2>1. Within(x, g, b)
    BY <1>6 DEF IInv, PaysWithin
  <2>2. /\ g[q] = PayOf(flight[q], active, t) /\ h[q] = PayOf(f, active, t)
        /\ \A r \in Request : r # q => h[r] = g[r]
    BY <1>1 DEF Pays
  <2>3. h \in [Request -> Nat]
    <3>1. g \in [Request -> Nat]
      BY PendingNat
    <3>2. h = [r \in Request |-> PayOf(flight'[r], active, t)]
      BY DEF Pays
    <3>3. \A r \in Request : h[r] \in Nat
      BY <2>2, <3>1
    <3> QED
      BY <3>2, <3>3
  <2>4. h[q] <= g[q] \/ x + h[q] <= b
    BY <1>6, <2>2, PaidMeans
  <2>5. active' = active /\ payment' = payment /\ peak' = peak
    OBVIOUS
  <2> HIDE DEF x, g, h, b
  <2>6. Within(x, h, b)
    BY <1>4, <2>1, <2>2, <2>3, <2>4
  <2> QED
    BY <2>5, <2>6 DEF x, h, b
<1> QED
  BY <1>2, <1>3, <1>5, <1>6 DEF IInv, BacksWithin, PaysWithin

LEMMA BeginStep ==
    ASSUME IInv, NEW q \in Request, NEW op \in Operation, NEW d \in Document, NEW k \in Key,
           Begin(q, op, d, k)
    PROVE  IInv'
<1> DEFINE f == [do |-> op, doc |-> d, key |-> k, todo |-> Checks(op, d)]
<1>1. /\ Admits(op, d)
      /\ flight' = [flight EXCEPT ![q] = f]
      /\ UNCHANGED <<due, peak, open, method, payment, active, refund, posted>>
  BY DEF Begin, targetVars
<1>2. /\ Checks(op, d) \subseteq Row \cup {"refunds"}
      /\ op = "completePayment" => Checks(op, d) = RowsOf(d) \cap active
      /\ op = "completeRefund" => Checks(op, d) = {"refunds"}
  BY DEF Checks, RowsOf, Operation
<1>3. f.do = op /\ f.doc = d /\ f.todo = Checks(op, d) /\ f \in Requests
  BY <1>2 DEF Requests
<1> HIDE DEF f
<1>4. f \in InFlight
  BY <1>3 DEF Requests, InFlight
<1>5. FlightIsSound(f, payment, refund)
  BY <1>1, <1>2, <1>3 DEF Admits, FlightIsSound
<1>6. ASSUME NEW p \in Payment PROVE BackOf(f, p) \in Nat /\ BackOf(f, p) <= BackOf(flight[q], p)
  <2>1. BackOf(f, p) = 0
    BY <1>2, <1>3 DEF BackOf
  <2>2. BackOf(flight[q], p) \in Nat
    <3>1. Backs(flight, p) \in [Request -> Nat]
      BY PendingNat
    <3> QED
      BY <3>1 DEF Backs
  <2> QED
    BY <2>1, <2>2
<1>7. ASSUME NEW t \in Target PROVE PayOf(f, active, t) \in Nat /\ PayOf(f, active, t) <= PayOf(flight[q], active, t)
  <2>1. PayOf(f, active, t) = 0
    <3>1. CASE op = "completePayment"
      <4>1. Checked(f, active, t) = {}
        BY <1>2, <1>3, <3>1 DEF Checked
      <4>2. TotalOn(Share, Checked(f, active, t)) = 0
        BY <4>1, TotalZero
      <4> QED
        BY <4>2 DEF PayOf
    <3>2. CASE op # "completePayment"
      BY <1>3, <3>2 DEF PayOf
    <3> QED
      BY <3>1, <3>2
  <2>2. PayOf(flight[q], active, t) \in Nat
    <3>1. Pays(flight, active, t) \in [Request -> Nat]
      BY PendingNat
    <3> QED
      BY <3>1 DEF Pays
  <2> QED
    BY <2>1, <2>2
<1> QED
  BY <1>1, <1>4, <1>5, <1>6, <1>7, FlightStep

LEMMA FailStep == ASSUME IInv, NEW q \in Request, Fail(q) PROVE IInv'
<1>1. /\ flight' = [flight EXCEPT ![q] = Idle]
      /\ UNCHANGED <<due, peak, open, method, payment, active, refund, posted>>
  BY DEF Fail, targetVars
<1>2. Idle \in InFlight /\ FlightIsSound(Idle, payment, refund)
  BY DEF InFlight, FlightIsSound
<1>3. ASSUME NEW p \in Payment PROVE BackOf(Idle, p) \in Nat /\ BackOf(Idle, p) <= BackOf(flight[q], p)
  <2>1. Backs(flight, p) \in [Request -> Nat]
    BY PendingNat
  <2> QED
    BY <2>1, RequestOrIdle DEF Backs
<1>4. ASSUME NEW t \in Target PROVE PayOf(Idle, active, t) \in Nat /\ PayOf(Idle, active, t) <= PayOf(flight[q], active, t)
  <2>1. Pays(flight, active, t) \in [Request -> Nat]
    BY PendingNat
  <2> QED
    BY <2>1, RequestOrIdle DEF Pays
<1> QED
  BY <1>1, <1>2, <1>3, <1>4, FlightStep

LEMMA CheckStep == ASSUME IInv, NEW q \in Request, NEW x, Check(q, x) PROVE IInv'
<1> DEFINE e == flight[q]
           f == [e EXCEPT !.todo = e.todo \ {x}]
<1>1. /\ e # Idle /\ x \in e.todo /\ Passes(e.do, e.doc, x)
      /\ flight' = [flight EXCEPT ![q] = f]
      /\ UNCHANGED <<due, peak, open, method, payment, active, refund, posted>>
  BY DEF Check, targetVars
<1>2. e \in Requests /\ FlightIsSound(e, payment, refund)
  BY <1>1, RequestOrIdle DEF IInv, TypeOK, FlightsAreSound
<1> HIDE DEF e
<1>3. f \in Requests /\ f.do = e.do /\ f.doc = e.doc /\ f.todo = e.todo \ {x}
  BY <1>2 DEF Requests
<1> HIDE DEF f
<1>4. f \in InFlight
  BY <1>3 DEF Requests, InFlight
<1>5. FlightIsSound(f, payment, refund)
  BY <1>1, <1>2, <1>3 DEF FlightIsSound
<1>6. ASSUME NEW p \in Payment
      PROVE  /\ BackOf(f, p) \in Nat
             /\ BackOf(f, p) <= BackOf(e, p) \/ Refunded(p) + BackOf(f, p) <= AmountOf[p]
  <2>1. BackOf(e, p) \in Nat
    <3>1. Backs(flight, p) \in [Request -> Nat]
      BY PendingNat
    <3> QED
      BY <3>1 DEF Backs, e
  <2>2. CASE e.do # "completeRefund"
    BY <1>3, <2>1, <2>2 DEF BackOf
  <2>3. CASE e.do = "completeRefund"
    <3>1. e.doc \in Refund
      BY <1>1, <1>2, <2>3 DEF FlightIsSound
    <3>2. GivenBack[e.doc] \in Nat /\ AmountOf[p] \in Nat /\ Refunded(p) \in Nat
      <4>1. RefundedIn(refund, p) \in Nat
        BY BackTotals DEF RefundedIn, RefundsOf
      <4> QED
        BY <3>1, <4>1, AmountTypes, PaidMeans
    <3>3. WithinLimit(RefundPayment[e.doc], 10 * GivenBack[e.doc])
      BY <1>1, <2>3 DEF Passes
    <3>4. CASE RefundPayment[e.doc] = p
      <4>1. 10 * Refunded(p) + 10 * GivenBack[e.doc] <= 10 * AmountOf[p]
        BY <3>3, <3>4 DEF WithinLimit
      <4>2. Refunded(p) + GivenBack[e.doc] <= AmountOf[p]
        BY <3>2, <4>1
      <4>3. BackOf(f, p) = GivenBack[e.doc] \/ BackOf(f, p) = 0
        BY <1>3 DEF BackOf
      <4> QED
        BY <2>1, <3>2, <4>2, <4>3
    <3>5. CASE RefundPayment[e.doc] # p
      BY <1>3, <2>1, <3>5 DEF BackOf
    <3> QED
      BY <3>4, <3>5
  <2> QED
    BY <2>2, <2>3
<1>7. ASSUME NEW t \in Target
      PROVE  /\ PayOf(f, active, t) \in Nat
             /\ t \in ListedOnce =>
                  PayOf(f, active, t) <= PayOf(e, active, t) \/ Paid(t) + PayOf(f, active, t) <= peak[t]
  <2>1. PayOf(e, active, t) \in Nat
    <3>1. Pays(flight, active, t) \in [Request -> Nat]
      BY PendingNat
    <3> QED
      BY <3>1 DEF Pays, e
  <2>2. PayOf(f, active, t) \in Nat
    <3>1. TotalOn(Share, Checked(f, active, t)) \in Nat
      BY ShareTotals DEF Checked, RowsOf
    <3> QED
      BY <3>1 DEF PayOf
  <2>3. CASE e.do # "completePayment"
    BY <1>3, <2>1, <2>3 DEF PayOf
  <2>4. CASE e.do = "completePayment" /\ x \notin Checked(f, active, t)
    <3>1. Checked(f, active, t) = Checked(e, active, t)
      BY <1>3, <2>4 DEF Checked
    <3>2. PayOf(f, active, t) = PayOf(e, active, t)
      BY <1>3, <3>1 DEF PayOf
    <3> QED
      BY <2>1, <3>2
  <2>5. CASE e.do = "completePayment" /\ x \in Checked(f, active, t) /\ t \in ListedOnce
    <3>1. x \in Row /\ RowTarget[x] = t
      BY <2>5 DEF Checked, RowsOf
    <3>2. Checked(f, active, t) = {x}
      BY <2>5, CheckedOnce
    <3>3. PayOf(f, active, t) = Share[x]
      <4>1. Share[x] \in Nat
        BY <3>1, AmountTypes
      <4>2. TotalOn(Share, {x}) = Share[x]
        BY <4>1, TotalSingle
      <4> QED
        BY <1>3, <2>5, <3>2, <4>2 DEF PayOf
    <3>4. NoOverpayment(t, Share[x])
      BY <1>1, <2>5, <3>1 DEF Passes
    <3>5. due[t] # NoPrice /\ Paid(t) + Share[x] <= due[t]
      BY <3>4 DEF NoOverpayment
    <3>6. due[t] <= peak[t] /\ due[t] \in Nat /\ peak[t] \in Nat
      BY <3>5 DEF IInv, TypeOK, PricesAreSeen
    <3>7. Paid(t) \in Nat /\ Share[x] \in Nat
      <4>1. PaidIn(active, payment, t) \in Nat
        BY ShareTotals DEF PaidIn, IInv, TypeOK
      <4> QED
        BY <3>1, <4>1, AmountTypes, PaidMeans
    <3> QED
      BY <2>2, <3>3, <3>5, <3>6, <3>7
  <2> QED
    BY <2>2, <2>3, <2>4, <2>5
<1> QED
  BY <1>1, <1>4, <1>5, <1>6, <1>7, FlightStep DEF e

\* A total over two sets is at most the sum of their totals.
LEMMA TotalUnion ==
    ASSUME NEW S, IsFiniteSet(S), NEW T, IsFiniteSet(T), NEW R, R \subseteq S \cup T,
           NEW f, \A k \in S \cup T : f[k] \in Nat
    PROVE  TotalOn(f, R) <= TotalOn(f, S) + TotalOn(f, T)
<1> DEFINE U == T \ S
<1>1. IsFiniteSet(U) /\ S \cap U = {} /\ U \subseteq T /\ R \subseteq S \cup U
  BY FS_Subset
<1>2. \A k \in S \cup U : f[k] \in Nat
  OBVIOUS
<1>3. \A k \in U \cup R : f[k] <= f[k] /\ f[k] \in Nat
  BY <1>1
<1> HIDE DEF U
<1>4. IsFiniteSet(S \cup U)
  BY <1>1, FS_Union
<1>5. TotalOn(f, S \cup U) = TotalOn(f, S) + TotalOn(f, U)
  BY <1>1, <1>2, TotalSplit
<1>6. TotalOn(f, R) <= TotalOn(f, S \cup U)
  BY <1>1, <1>2, <1>3, <1>4, TotalMono
<1>7. TotalOn(f, U) <= TotalOn(f, T)
  BY <1>1, <1>3, TotalMono
<1>8. /\ TotalOn(f, R) \in Nat /\ TotalOn(f, S) \in Nat /\ TotalOn(f, T) \in Nat
      /\ TotalOn(f, U) \in Nat
  <2>1. IsFiniteSet(R)
    BY <1>1, <1>4, FS_Subset
  <2>2. (\A k \in R : f[k] \in Nat) /\ (\A k \in S : f[k] \in Nat)
        /\ (\A k \in T : f[k] \in Nat) /\ (\A k \in U : f[k] \in Nat)
    BY <1>2, <1>3
  <2> QED
    BY <1>1, <2>1, <2>2, TotalNat
<1> QED
  BY <1>5, <1>6, <1>7, <1>8

\* What a written refund adds to what was given back: no more than it held pending.
LEMMA WrittenRefund ==
    ASSUME IInv, NEW r \in Refund, NEW s, refund' = [refund EXCEPT ![r] = s], NEW p \in Payment,
           NEW n, n \in Nat, s = "COMPLETED" /\ RefundPayment[r] = p => n = GivenBack[r]
    PROVE  RefundedIn(refund', p) <= RefundedIn(refund, p) + n
<1> DEFINE old == {d \in RefundsOf(p) : refund[d] = "COMPLETED"}
           new == {d \in RefundsOf(p) : refund'[d] = "COMPLETED"}
<1>1. refund'[r] = s /\ \A d \in Refund : d # r => refund'[d] = refund[d]
  BY DEF IInv, TypeOK
<1>2. old \subseteq Refund /\ new \subseteq Refund /\ {r} \subseteq Refund
  BY DEF RefundsOf
<1>3. /\ IsFiniteSet(old) /\ \A d \in old : GivenBack[d] \in Nat
      /\ TotalOn(GivenBack, old) \in Nat /\ TotalOn(GivenBack, new) \in Nat
  BY <1>2, BackTotals
<1>4. IsFiniteSet({r}) /\ GivenBack[r] \in Nat /\ TotalOn(GivenBack, {r}) = GivenBack[r]
  BY FS_Singleton, AmountTypes, TotalSingle
<1>5. CASE s = "COMPLETED" /\ RefundPayment[r] = p
  <2>1. new \subseteq old \cup {r}
    BY <1>1 DEF RefundsOf
  <2>2. \A d \in old \cup {r} : GivenBack[d] \in Nat
    BY <1>3, <1>4
  <2> HIDE DEF old, new
  <2>3. TotalOn(GivenBack, new) <= TotalOn(GivenBack, old) + TotalOn(GivenBack, {r})
    BY <1>3, <1>4, <2>1, <2>2, TotalUnion
  <2> QED
    BY <1>4, <1>5, <2>3 DEF RefundedIn, old, new
<1>6. CASE ~(s = "COMPLETED" /\ RefundPayment[r] = p)
  <2>1. new \subseteq old
    BY <1>1, <1>6 DEF RefundsOf
  <2>2. \A d \in old : GivenBack[d] <= GivenBack[d]
    BY <1>3
  <2> HIDE DEF old, new
  <2>3. TotalOn(GivenBack, new) <= TotalOn(GivenBack, old)
    BY <1>3, <2>1, <2>2, TotalMono
  <2>4. TotalOn(GivenBack, new) <= TotalOn(GivenBack, old) + n
    BY <1>3, <2>3
  <2> QED
    BY <2>4 DEF RefundedIn, old, new
<1> QED
  BY <1>5, <1>6

\* What a written payment adds to what was paid: no more than was checked of it.
LEMMA WrittenPayment ==
    ASSUME IInv, NEW p \in Payment, NEW s, payment' = [payment EXCEPT ![p] = s], NEW t,
           active' \subseteq active, NEW C, C \subseteq Row, NEW n, n \in Nat,
           s = "COMPLETED" => n = TotalOn(Share, C) /\ \A w \in RowsOf(p) \cap active' : RowTarget[w] = t => w \in C
    PROVE  PaidIn(active', payment', t) <= PaidIn(active, payment, t) + n
<1> DEFINE old == {w \in active : RowTarget[w] = t /\ payment[RowPayment[w]] = "COMPLETED"}
           new == {w \in active' : RowTarget[w] = t /\ payment'[RowPayment[w]] = "COMPLETED"}
<1>1. payment'[p] = s /\ \A d \in Payment : d # p => payment'[d] = payment[d]
  BY DEF IInv, TypeOK
<1>2. active \subseteq Row /\ \A w \in Row : RowPayment[w] \in Payment
  BY DocumentAssumption DEF IInv, TypeOK
<1>3. old \subseteq Row /\ new \subseteq Row
  BY <1>2
<1>4. /\ IsFiniteSet(old) /\ \A w \in old : Share[w] \in Nat
      /\ IsFiniteSet(C) /\ \A w \in C : Share[w] \in Nat
      /\ TotalOn(Share, old) \in Nat /\ TotalOn(Share, new) \in Nat
  BY <1>3, ShareTotals
<1>5. CASE s = "COMPLETED"
  <2>1. new \subseteq old \cup C
    BY <1>1, <1>2, <1>5 DEF RowsOf
  <2>2. \A w \in old \cup C : Share[w] \in Nat
    BY <1>4
  <2> HIDE DEF old, new
  <2>3. TotalOn(Share, new) <= TotalOn(Share, old) + TotalOn(Share, C)
    BY <1>4, <2>1, <2>2, TotalUnion
  <2> QED
    BY <1>5, <2>3 DEF PaidIn, old, new
<1>6. CASE s # "COMPLETED"
  <2>1. new \subseteq old
    BY <1>1, <1>2, <1>6
  <2>2. \A w \in old : Share[w] <= Share[w]
    BY <1>4
  <2> HIDE DEF old, new
  <2>3. TotalOn(Share, new) <= TotalOn(Share, old)
    BY <1>4, <2>1, <2>2, TotalMono
  <2>4. TotalOn(Share, new) <= TotalOn(Share, old) + n
    BY <1>4, <2>3
  <2> QED
    BY <2>4 DEF PaidIn, old, new
<1> QED
  BY <1>5, <1>6

LEMMA WriteStep == ASSUME IInv, NEW q \in Request, Write(q) PROVE IInv'
<1> DEFINE e == flight[q]
           s == IF e.do \in {"completePayment", "completeRefund"} THEN "COMPLETED" ELSE "ANNULLED"
<1>1. /\ e # Idle /\ e.todo = {}
      /\ posted' = posted \cup {<<e.do, e.doc, e.key>>}
      /\ flight' = [flight EXCEPT ![q] = Idle]
      /\ IF e.doc \in Payment
         THEN payment' = [payment EXCEPT ![e.doc] = s] /\ UNCHANGED refund
         ELSE refund' = [refund EXCEPT ![e.doc] = s] /\ UNCHANGED payment
      /\ active' = IF e.do = "annulPayment" THEN active \ RowsOf(e.doc) ELSE active
      /\ UNCHANGED <<due, peak, open, method>>
  BY DEF Write, targetVars
<1>2. e \in Requests /\ FlightIsSound(e, payment, refund)
  BY <1>1, RequestOrIdle DEF IInv, TypeOK, FlightsAreSound
<1>3. e.do \in Operation /\ e.doc \in Document /\ e.key \in Key
  BY <1>2 DEF Requests
<1>4. s \in {"COMPLETED", "ANNULLED"}
  OBVIOUS
<1> HIDE DEF e, s
<1>5. /\ flight \in [Request -> InFlight] /\ flight' \in [Request -> InFlight] /\ flight'[q] = Idle
      /\ \A r \in Request : r # q => flight'[r] = flight[r]
  BY <1>1 DEF IInv, TypeOK, InFlight
<1>6. active' \subseteq active /\ active \subseteq Row
  BY <1>1 DEF IInv, TypeOK
<1>7. /\ payment' \in [Payment -> Status]
      /\ \A p \in Payment : payment[p] # "NONE" => payment'[p] # "NONE"
  BY <1>1, <1>4 DEF IInv, TypeOK, Status
<1>8. /\ refund' \in [Refund -> Status]
      /\ \A r \in Refund : refund[r] # "NONE" => refund'[r] # "NONE"
      /\ \A r \in Refund : refund'[r] # "NONE" => GivenBack[r] > 0
  <2>1. CASE e.doc \in Payment
    BY <1>1, <2>1 DEF IInv, TypeOK
  <2>2. CASE e.doc \notin Payment
    <3>1. e.doc \in Refund /\ refund[e.doc] # "NONE"
      BY <1>1, <1>2, <1>3, <2>2 DEF FlightIsSound, Operation
    <3>2. refund' = [refund EXCEPT ![e.doc] = s]
      BY <1>1, <2>2
    <3> QED
      BY <1>4, <3>1, <3>2 DEF IInv, TypeOK, Status
  <2> QED
    BY <2>1, <2>2
<1>9. TypeOK'
  BY <1>1, <1>3, <1>5, <1>6, <1>7, <1>8 DEF IInv, TypeOK
<1>10. FlightsAreSound' /\ PricesAreSeen'
  <2>1. ASSUME NEW r \in Request PROVE FlightIsSound(flight'[r], payment', refund')
    <3>1. FlightIsSound(flight[r], payment, refund)
      BY DEF IInv, FlightsAreSound
    <3> QED
      BY <1>5, <1>7, <1>8, <3>1 DEF FlightIsSound
  <2> QED
    BY <1>1, <2>1 DEF IInv, FlightsAreSound, PricesAreSeen
<1>11. ASSUME NEW p \in Payment PROVE Within(RefundedIn(refund', p), Backs(flight', p), AmountOf[p])
  <2> DEFINE x == RefundedIn(refund, p)
             y == RefundedIn(refund', p)
             g == Backs(flight, p)
             h == Backs(flight', p)
             b == AmountOf[p]
  <2>1. Within(x, g, b)
    BY DEF IInv, BacksWithin
  <2>2. /\ g \in [Request -> Nat] /\ g[q] = BackOf(e, p)
        /\ h = [r \in Request |-> BackOf(flight'[r], p)]
        /\ h[q] = 0 /\ \A r \in Request : r # q => h[r] = g[r]
    BY <1>5, PendingNat, RequestOrIdle DEF Backs, e
  <2>3. h \in [Request -> Nat] /\ \A r \in Request : h[r] <= g[r]
    <3>1. \A r \in Request : h[r] \in Nat /\ h[r] <= g[r] /\ h[r] = BackOf(flight'[r], p)
      BY <2>2
    <3> QED
      BY <2>2, <3>1
  <2>4. y \in Nat /\ x \in Nat
    BY BackTotals DEF RefundedIn, RefundsOf
  <2>5. y <= x + g[q]
    <3>1. CASE e.doc \in Payment
      BY <1>1, <2>2, <2>4, <3>1
    <3>2. CASE e.doc \notin Payment
      <4>1. e.doc \in Refund /\ refund' = [refund EXCEPT ![e.doc] = s]
        BY <1>1, <1>3, <3>2 DEF Document
      <4>2. s = "COMPLETED" => e.do = "completeRefund"
        BY <1>1, <1>2, <3>2 DEF s, FlightIsSound
      <4>3. s = "COMPLETED" /\ RefundPayment[e.doc] = p => BackOf(e, p) = GivenBack[e.doc]
        BY <1>1, <4>2 DEF BackOf
      <4>4. BackOf(e, p) \in Nat
        BY <2>2
      <4> QED
        BY <2>2, <4>1, <4>3, <4>4, WrittenRefund
    <3> QED
      BY <3>1, <3>2
  <2> HIDE DEF x, y, g, h, b
  <2>6. Within(y, h, b)
    BY <2>1, <2>2, <2>3, <2>4, <2>5, WithinPaid
  <2> QED
    BY <2>6 DEF y, h, b
<1>12. ASSUME NEW t \in Target, t \in ListedOnce
       PROVE  Within(PaidIn(active', payment', t), Pays(flight', active', t), peak'[t])
  <2> DEFINE x == PaidIn(active, payment, t)
             y == PaidIn(active', payment', t)
             g == Pays(flight, active, t)
             h == Pays(flight', active', t)
             b == peak[t]
  <2>1. Within(x, g, b)
    BY <1>12 DEF IInv, PaysWithin
  <2>2. /\ g \in [Request -> Nat] /\ g[q] = PayOf(e, active, t)
        /\ h = [r \in Request |-> PayOf(flight'[r], active', t)] /\ h[q] = 0
    BY <1>5, PendingNat, RequestOrIdle DEF Pays, e
  <2>3. h \in [Request -> Nat] /\ \A r \in Request : h[r] <= g[r]
    <3>1. Pays(flight, active', t) \in [Request -> Nat]
      BY PendingNat
    <3>2. \A r \in Request : PayOf(flight[r], active', t) <= PayOf(flight[r], active, t)
      BY <1>6, ShrunkPays
    <3>3. ASSUME NEW r \in Request PROVE h[r] \in Nat /\ h[r] <= g[r]
      <4>1. CASE r = q
        BY <2>2, <4>1
      <4>2. CASE r # q
        BY <1>5, <3>1, <3>2, <4>2 DEF Pays
      <4> QED
        BY <4>1, <4>2
    <3> QED
      BY <2>2, <3>3
  <2>4. y \in Nat /\ x \in Nat
    BY <1>6, ShareTotals DEF PaidIn
  <2>5. y <= x + g[q]
    <3>1. CASE e.doc \notin Payment
      <4>1. payment' = payment /\ active' = active
        BY <1>1, <1>2, <3>1 DEF FlightIsSound
      <4> QED
        BY <2>2, <2>4, <4>1
    <3>2. CASE e.doc \in Payment
      <4> DEFINE C == Checked(e, active, t)
      <4>1. payment' = [payment EXCEPT ![e.doc] = s]
        BY <1>1, <3>2
      <4>2. s = "COMPLETED" => e.do = "completePayment"
        BY <1>1, <1>2, <3>2, DocumentAssumption DEF s, FlightIsSound
      <4>3. C \subseteq Row
        BY DEF Checked, RowsOf
      <4>4. s = "COMPLETED" =>
               /\ PayOf(e, active, t) = TotalOn(Share, C)
               /\ \A w \in RowsOf(e.doc) \cap active' : RowTarget[w] = t => w \in C
        BY <1>1, <1>6, <4>2 DEF PayOf, Checked
      <4>5. PayOf(e, active, t) \in Nat
        BY <2>2
      <4> HIDE DEF C
      <4> QED
        BY <1>6, <2>2, <3>2, <4>1, <4>3, <4>4, <4>5, WrittenPayment
    <3> QED
      BY <3>1, <3>2
  <2>6. peak' = peak
    BY <1>1
  <2> HIDE DEF x, y, g, h, b
  <2>7. Within(y, h, b)
    BY <2>1, <2>2, <2>3, <2>4, <2>5, WithinPaid
  <2> QED
    BY <2>6, <2>7 DEF y, h, b
<1> QED
  BY <1>9, <1>10, <1>11, <1>12 DEF IInv, BacksWithin, PaysWithin

-----------------------------------------------------------------------------
LEMMA NextInv == ASSUME IInv, [Next]_vars PROVE IInv'
<1>1. CASE UNCHANGED vars
  <2>1. UNCHANGED <<due, peak, open, method, payment, active, refund, posted, flight>>
    BY <1>1 DEF vars, targetVars
  <2> QED
    BY <2>1 DEF IInv, TypeOK, FlightsAreSound, PricesAreSeen
<1>2. CASE Next
  <2>1. ASSUME NEW q \in Request, flight[q] # Idle, \E x \in flight[q].todo : Check(q, x) PROVE IInv'
    BY <2>1, CheckStep
  <2>2. ASSUME NEW q \in Request, NEW op \in Operation, NEW d \in Document, NEW k \in Key, Begin(q, op, d, k)
        PROVE  IInv'
    BY <2>2, BeginStep
  <2>3. ASSUME NEW q \in Request, flight[q] = Idle,
               \E op \in Operation, d \in Document, k \in Key : Begin(q, op, d, k)
        PROVE  IInv'
    BY <2>2, <2>3
  <2> QED
    BY <1>2, <2>1, <2>3, CloseStep, RepriceStep, CreatePaymentStep, CreateRefundStep, WriteStep,
       FailStep DEF Next
<1> QED
  BY <1>1, <1>2

LEMMA InvHolds == Spec => []IInv
BY InitInv, NextInv, PTL DEF Spec

(***************************************************************************)
(* Type correctness.  No stored amount is zero, since assertAmountPositive *)
(* and the CHECK of the schema look at the amount before and after it is   *)
(* rounded.                                                                *)
(***************************************************************************)
THEOREM TypeCorrect == Spec => []TypeOK
<1>1. IInv => TypeOK
  BY DEF IInv
<1> QED
  BY <1>1, InvHolds, PTL

(***************************************************************************)
(* However many requests overlap between their check and their write, a    *)
(* payment gives back at most its amount once for each of them, and no     *)
(* target is paid more than its highest price once for each of them.       *)
(* (assertRefundWithinLimit, assertNoOverpaymentForPayment)                *)
(***************************************************************************)
THEOREM LimitsAlwaysHold == Spec => []LimitsHold
<1>1. ASSUME NEW x, NEW f, NEW b, Within(x, f, b) PROVE x <= Cardinality(Request) * b
  <2>1. /\ x \in Nat /\ b \in Nat /\ f \in [Request -> 0 .. b]
        /\ x + TotalOn(f, Request) <= Cardinality(Request) * b
    BY <1>1 DEF Within
  <2>2. TotalOn(f, Request) \in Nat
    BY <2>1, RequestsFinite, TotalNat
  <2>3. Cardinality(Request) * b \in Nat
    BY <2>1, RequestsFinite, ProductMono
  <2> QED
    BY <2>1, <2>2, <2>3
<1>2. IInv => LimitsHold
  BY <1>1, PaidMeans
     DEF ListedOnce, IInv, LimitsHold, RefundsBounded, PaidBounded, BacksWithin, PaysWithin
<1> QED
  BY <1>2, InvHolds, PTL

(***************************************************************************)
(* With one request at a time the limits are those of the decisions:       *)
(* refunds within the payment (ADR-022), payments within the price         *)
(* (ADR-021).                                                              *)
(***************************************************************************)
THEOREM OneRequestKeepsTheLimits ==
    ASSUME Cardinality(Request) = 1
    PROVE  Spec => [](/\ \A p \in Payment : Refunded(p) <= AmountOf[p]
                      /\ \A t \in Target : t \in ListedOnce => Paid(t) <= peak[t])
<1>1. TypeOK /\ LimitsHold => /\ \A p \in Payment : Refunded(p) <= AmountOf[p]
                              /\ \A t \in Target : t \in ListedOnce => Paid(t) <= peak[t]
  <2> SUFFICES ASSUME TypeOK, LimitsHold
               PROVE  /\ \A p \in Payment : Refunded(p) <= AmountOf[p]
                      /\ \A t \in Target : t \in ListedOnce => Paid(t) <= peak[t]
    OBVIOUS
  <2>1. \A p \in Payment : AmountOf[p] \in Nat
    BY AmountTypes
  <2>2. \A n \in Nat : 1 * n = n
    OBVIOUS
  <2> QED
    BY <2>1, <2>2 DEF TypeOK, LimitsHold, RefundsBounded, PaidBounded
<1> QED
  BY <1>1, TypeCorrect, LimitsAlwaysHold, PTL

-----------------------------------------------------------------------------
(***************************************************************************)
(* Annulled for good.  A payment that is not a draft any more was          *)
(* completed under a key that is posted, so a completion that still writes *)
(* has another one; and what an annulment found completed stays so.        *)
(***************************************************************************)
RowsFollows(p, rows, pay, keys) ==
    /\ pay[p] = "DRAFT" => RowsOf(p) \subseteq rows
    /\ pay[p] = "ANNULLED" => RowsOf(p) \cap rows = {}
    /\ pay[p] = "COMPLETED" =>
          \/ RowsOf(p) \subseteq rows
          \/ RowsOf(p) \cap rows = {} /\
             \E j, k \in Key :
                 j # k /\ {<<"completePayment", p, j>>, <<"completePayment", p, k>>} \subseteq keys

RowsFollow(rows, pay, keys) == \A p \in Payment : RowsFollows(p, rows, pay, keys)

KeysTell ==
    /\ \A p \in Payment : payment[p] \in {"COMPLETED", "ANNULLED"} =>
          \E k \in Key : <<"completePayment", p, k>> \in posted
    /\ \A q \in Request : flight[q].do = "annulPayment" =>
          payment[flight[q].doc] \in {"COMPLETED", "ANNULLED"}
    /\ RowsFollow(active, payment, posted)
    /\ \A p \in Payment : payment[p] # "NONE" => RowsOf(p) # {}

\* What a write of a payment starts from.
LEMMA WriteFinds ==
    ASSUME IInv, KeysTell, NEW q \in Request, Write(q), flight[q].doc \in Payment
    PROVE  LET e == flight[q]
               s == IF e.do = "completePayment" THEN "COMPLETED" ELSE "ANNULLED"
           IN  /\ e.do \in {"completePayment", "annulPayment"}
               /\ payment' = [payment EXCEPT ![e.doc] = s]
               /\ posted' = posted \cup {<<e.do, e.doc, e.key>>}
               /\ e.key \in Key
               /\ e.do = "completePayment" =>
                     /\ active' = active
                     /\ payment[e.doc] = "DRAFT" \/
                        (/\ payment[e.doc] \in {"COMPLETED", "ANNULLED"}
                         /\ \E k \in Key : k # e.key /\ <<"completePayment", e.doc, k>> \in posted)
               /\ e.do = "annulPayment" => /\ payment[e.doc] \in {"COMPLETED", "ANNULLED"}
                                           /\ active' = active \ RowsOf(e.doc)
<1> DEFINE e == flight[q]
<1>1. e # Idle /\ e \in Requests /\ FlightIsSound(e, payment, refund) /\ KeyIsFree(e.do, e.doc, e.key)
  BY RequestOrIdle DEF IInv, TypeOK, FlightsAreSound, Write
<1>2. e.do \in Operation /\ e.key \in Key
  BY <1>1 DEF Requests
<1>3. e.do \in {"completePayment", "annulPayment"}
  BY <1>1, <1>2, DocumentAssumption DEF Operation, FlightIsSound
<1>4. ASSUME e.do = "completePayment", payment[e.doc] # "DRAFT"
      PROVE  /\ payment[e.doc] \in {"COMPLETED", "ANNULLED"}
             /\ \E k \in Key : k # e.key /\ <<"completePayment", e.doc, k>> \in posted
  <2>1. payment[e.doc] \in Status /\ payment[e.doc] # "NONE"
    BY <1>1, <1>4 DEF IInv, TypeOK, FlightIsSound
  <2>2. payment[e.doc] \in {"COMPLETED", "ANNULLED"}
    BY <1>4, <2>1 DEF Status
  <2>3. PICK k \in Key : <<"completePayment", e.doc, k>> \in posted
    BY <2>2 DEF KeysTell
  <2>4. k # e.key
    BY <1>1, <1>4, <2>3 DEF KeyIsFree
  <2> QED
    BY <2>2, <2>3, <2>4
<1>5. e.do = "annulPayment" => payment[e.doc] \in {"COMPLETED", "ANNULLED"}
  BY DEF KeysTell
<1> QED
  BY <1>2, <1>3, <1>4, <1>5 DEF Write

LEMMA InitKeys == Init => KeysTell
<1> SUFFICES ASSUME Init PROVE KeysTell
  OBVIOUS
<1>1. \A q \in Request : flight[q].do = "nothing"
  BY RequestOrIdle DEF Init
<1> QED
  BY <1>1 DEF Init, KeysTell, RowsFollow, RowsFollows

LEMMA KeysStep ==
    ASSUME IInv, KeysTell, [Next]_vars
    PROVE  /\ KeysTell'
           /\ \A p \in Payment : Withdrawn(p) => Withdrawn(p)'
<1>1. CASE UNCHANGED <<payment, active, posted, flight>>
  BY <1>1 DEF KeysTell, RowsFollow, Withdrawn
<1>2. ASSUME NEW p \in Payment, CreatePayment(p)
      PROVE  KeysTell' /\ \A d \in Payment : Withdrawn(d) => Withdrawn(d)'
  <2>1. /\ payment[p] = "NONE"
        /\ payment' = [payment EXCEPT ![p] = "DRAFT"]
        /\ active' = active \cup RowsOf(p)
        /\ RowsOf(p) # {}
        /\ UNCHANGED <<posted, flight>>
    BY <1>2 DEF CreatePayment
  <2>2. payment'[p] = "DRAFT" /\ \A d \in Payment : d # p => payment'[d] = payment[d]
    BY <2>1 DEF IInv, TypeOK
  <2>3. \A d \in Payment : payment[d] # "NONE" => payment'[d] = payment[d]
    BY <2>1, <2>2
  <2>4. ASSUME NEW q \in Request, flight[q].do = "annulPayment"
        PROVE  payment'[flight[q].doc] \in {"COMPLETED", "ANNULLED"}
    <3>1. flight[q] # Idle
      BY <2>4, RequestOrIdle DEF Operation
    <3>2. flight[q].doc \in Payment
      BY <2>4, <3>1 DEF IInv, FlightsAreSound, FlightIsSound
    <3> QED
      BY <2>3, <2>4, <3>2 DEF KeysTell
  <2>5. ASSUME NEW d \in Payment, d # p PROVE RowsOf(d) \cap active' = RowsOf(d) \cap active
    BY <2>1, <2>5 DEF RowsOf
  <2>6. RowsFollow(active', payment', posted')
    <3> SUFFICES ASSUME NEW d \in Payment PROVE RowsFollows(d, active', payment', posted')
      BY DEF RowsFollow
    <3>1. CASE d = p
      BY <2>1, <2>2, <3>1 DEF RowsFollows
    <3>2. CASE d # p
      <4>1. RowsOf(d) \cap active' = RowsOf(d) \cap active
        BY <2>5, <3>2
      <4> QED
        BY <2>1, <2>2, <3>2, <4>1 DEF KeysTell, RowsFollow, RowsFollows
    <3> QED
      BY <3>1, <3>2
  <2>7. \A d \in Payment : payment'[d] \in {"COMPLETED", "ANNULLED"} =>
            \E k \in Key : <<"completePayment", d, k>> \in posted
    BY <2>2 DEF KeysTell
  <2>8. \A d \in Payment : Withdrawn(d) => Withdrawn(d)'
    <3> SUFFICES ASSUME NEW d \in Payment, Withdrawn(d) PROVE Withdrawn(d)'
      OBVIOUS
    <3>1. d # p
      BY <2>1 DEF Withdrawn
    <3> QED
      BY <2>2, <2>5, <3>1 DEF Withdrawn
  <2>9. \A d \in Payment : payment'[d] # "NONE" => RowsOf(d) # {}
    BY <2>1, <2>2 DEF KeysTell
  <2> QED
    BY <2>1, <2>4, <2>6, <2>7, <2>8, <2>9 DEF KeysTell
<1>3. ASSUME NEW q \in Request, UNCHANGED <<payment, active, posted>>, NEW f,
             flight' = [flight EXCEPT ![q] = f],
             f.do = "annulPayment" => payment[f.doc] \in {"COMPLETED", "ANNULLED"}
      PROVE  KeysTell'
  <2>1. \A r \in Request : flight'[r] = f \/ flight'[r] = flight[r]
    BY <1>3 DEF IInv, TypeOK
  <2>2. \A r \in Request : flight'[r].do = "annulPayment" =>
            payment'[flight'[r].doc] \in {"COMPLETED", "ANNULLED"}
    BY <1>3, <2>1 DEF KeysTell
  <2> QED
    BY <1>3, <2>2 DEF KeysTell
<1>4. ASSUME NEW q \in Request, NEW op \in Operation, NEW d \in Document, NEW k \in Key, Begin(q, op, d, k)
      PROVE  KeysTell' /\ payment' = payment /\ active' = active
  <2> DEFINE f == [do |-> op, doc |-> d, key |-> k, todo |-> Checks(op, d)]
  <2>1. UNCHANGED <<payment, active, posted>> /\ flight' = [flight EXCEPT ![q] = f]
    BY <1>4 DEF Begin
  <2>2. f.do = "annulPayment" => payment[f.doc] \in {"COMPLETED", "ANNULLED"}
    BY <1>4 DEF Begin, Admits
  <2> HIDE DEF f
  <2> QED
    BY <1>3, <2>1, <2>2
<1>5. ASSUME NEW q \in Request, NEW x, Check(q, x)
      PROVE  KeysTell' /\ payment' = payment /\ active' = active
  <2> DEFINE f == [flight[q] EXCEPT !.todo = flight[q].todo \ {x}]
  <2>1. UNCHANGED <<payment, active, posted>> /\ flight' = [flight EXCEPT ![q] = f]
    BY <1>5 DEF Check
  <2>2. flight[q] \in Requests
    BY <1>5, RequestOrIdle DEF IInv, TypeOK, Check
  <2>3. f.do = flight[q].do /\ f.doc = flight[q].doc
    BY <2>2 DEF Requests
  <2>4. f.do = "annulPayment" => payment[f.doc] \in {"COMPLETED", "ANNULLED"}
    BY <2>3 DEF KeysTell
  <2> HIDE DEF f
  <2> QED
    BY <1>3, <2>1, <2>4
<1>6. ASSUME NEW q \in Request, Fail(q) PROVE KeysTell' /\ payment' = payment /\ active' = active
  <2>1. UNCHANGED <<payment, active, posted>> /\ flight' = [flight EXCEPT ![q] = Idle]
    BY <1>6 DEF Fail
  <2>2. Idle.do # "annulPayment"
    BY RequestOrIdle
  <2> QED
    BY <1>3, <2>1, <2>2
<1>7. ASSUME NEW q \in Request, Write(q)
      PROVE  KeysTell' /\ \A d \in Payment : Withdrawn(d) => Withdrawn(d)'
  <2> DEFINE e == flight[q]
             s == IF e.do = "completePayment" THEN "COMPLETED" ELSE "ANNULLED"
  <2>1. /\ e \in Requests /\ FlightIsSound(e, payment, refund)
        /\ posted \subseteq posted'
        /\ flight' = [flight EXCEPT ![q] = Idle]
    BY <1>7, RequestOrIdle DEF IInv, TypeOK, FlightsAreSound, Write
  <2>2. \A r \in Request : flight'[r] = Idle \/ flight'[r] = flight[r]
    BY <2>1 DEF IInv, TypeOK
  <2>3. ASSUME payment' = payment, active' = active PROVE KeysTell'
    <3>1. \A r \in Request : flight'[r].do = "annulPayment" =>
              payment'[flight'[r].doc] \in {"COMPLETED", "ANNULLED"}
      BY <2>2, <2>3, RequestOrIdle DEF KeysTell
    <3>2. \A p \in Payment : payment'[p] \in {"COMPLETED", "ANNULLED"} =>
              \E k \in Key : <<"completePayment", p, k>> \in posted'
      BY <2>1, <2>3 DEF KeysTell
    <3>3. RowsFollow(active', payment', posted')
      BY <2>1, <2>3 DEF KeysTell, RowsFollow, RowsFollows
    <3> QED
      BY <2>3, <3>1, <3>2, <3>3 DEF KeysTell
  <2>4. CASE e.doc \notin Payment
    <3>1. payment' = payment /\ active' = active
      BY <1>7, <2>1, <2>4, RequestOrIdle DEF Write, FlightIsSound
    <3> QED
      BY <2>3, <3>1 DEF Withdrawn
  <2>5. CASE e.doc \in Payment
    <3>1. /\ e.do \in {"completePayment", "annulPayment"}
          /\ payment' = [payment EXCEPT ![e.doc] = s]
          /\ posted' = posted \cup {<<e.do, e.doc, e.key>>}
          /\ e.key \in Key
          /\ e.do = "completePayment" =>
                /\ active' = active
                /\ payment[e.doc] = "DRAFT" \/
                   (/\ payment[e.doc] \in {"COMPLETED", "ANNULLED"}
                    /\ \E k \in Key : k # e.key /\ <<"completePayment", e.doc, k>> \in posted)
          /\ e.do = "annulPayment" => /\ payment[e.doc] \in {"COMPLETED", "ANNULLED"}
                                      /\ active' = active \ RowsOf(e.doc)
      BY <1>7, <2>5, WriteFinds
    <3>2. s \in {"COMPLETED", "ANNULLED"} /\ (s = "COMPLETED" <=> e.do = "completePayment")
      BY <3>1
    <3> HIDE DEF e, s
    <3>3. payment'[e.doc] = s /\ \A d \in Payment : d # e.doc => payment'[d] = payment[d]
      BY <2>5, <3>1 DEF IInv, TypeOK
    <3>4. active' \subseteq active /\ \A d \in Payment : d # e.doc => RowsOf(d) \cap active' = RowsOf(d) \cap active
      BY <3>1 DEF RowsOf
    <3>5. \A d \in Payment : payment[d] \in {"COMPLETED", "ANNULLED"} => payment'[d] \in {"COMPLETED", "ANNULLED"}
      BY <3>2, <3>3
    <3>6. \A d \in Payment : payment'[d] \in {"COMPLETED", "ANNULLED"} =>
              \E k \in Key : <<"completePayment", d, k>> \in posted'
      <4> SUFFICES ASSUME NEW d \in Payment, payment'[d] \in {"COMPLETED", "ANNULLED"}
                   PROVE  \E k \in Key : <<"completePayment", d, k>> \in posted'
        OBVIOUS
      <4>1. CASE d = e.doc /\ e.do = "completePayment"
        BY <3>1, <4>1
      <4>2. CASE d = e.doc /\ e.do = "annulPayment"
        BY <2>1, <3>1, <4>2 DEF KeysTell
      <4>3. CASE d # e.doc
        BY <2>1, <3>3, <4>3 DEF KeysTell
      <4> QED
        BY <3>1, <4>1, <4>2, <4>3
    <3>7. \A r \in Request : flight'[r].do = "annulPayment" =>
              payment'[flight'[r].doc] \in {"COMPLETED", "ANNULLED"}
      <4> SUFFICES ASSUME NEW r \in Request, flight'[r].do = "annulPayment"
                   PROVE  payment'[flight'[r].doc] \in {"COMPLETED", "ANNULLED"}
        OBVIOUS
      <4>1. flight'[r] = flight[r] /\ flight[r] # Idle
        BY <2>2, RequestOrIdle
      <4>2. flight[r].doc \in Payment
        BY <4>1 DEF IInv, FlightsAreSound, FlightIsSound
      <4> QED
        BY <3>5, <4>1, <4>2 DEF KeysTell
    <3>8. ASSUME NEW d \in Payment PROVE RowsFollows(d, active', payment', posted')
      <4>0. RowsFollows(d, active, payment, posted)
        BY DEF KeysTell, RowsFollow
      <4>1. CASE d # e.doc
        BY <2>1, <3>3, <3>4, <4>0, <4>1 DEF RowsFollows
      <4>2. CASE d = e.doc /\ e.do = "annulPayment"
        BY <3>1, <3>2, <3>3, <4>2 DEF RowsFollows
      <4>3. CASE d = e.doc /\ e.do = "completePayment" /\ payment[d] = "DRAFT"
        BY <3>1, <3>2, <3>3, <4>0, <4>3 DEF RowsFollows
      <4>4. CASE d = e.doc /\ e.do = "completePayment" /\ payment[d] # "DRAFT"
        <5>1. PICK k \in Key : k # e.key /\ <<"completePayment", d, k>> \in posted
          BY <3>1, <4>4
        <5>2. {<<"completePayment", d, e.key>>, <<"completePayment", d, k>>} \subseteq posted'
          BY <3>1, <4>4, <5>1
        <5>3. RowsOf(d) \subseteq active \/ RowsOf(d) \cap active = {}
          BY <3>1, <4>0, <4>4 DEF RowsFollows
        <5>4. active' = active /\ payment'[d] = "COMPLETED" /\ e.key \in Key
          BY <3>1, <3>2, <3>3, <4>4
        <5> QED
          BY <5>1, <5>2, <5>3, <5>4 DEF RowsFollows
      <4> QED
        BY <3>1, <4>1, <4>2, <4>3, <4>4
    <3>9. \A d \in Payment : Withdrawn(d) => Withdrawn(d)'
      BY <3>4, <3>5 DEF Withdrawn
    <3>10. \A d \in Payment : payment'[d] # "NONE" => RowsOf(d) # {}
      BY <3>1, <3>3 DEF KeysTell
    <3> QED
      BY <3>6, <3>7, <3>8, <3>9, <3>10 DEF KeysTell, RowsFollow
  <2> QED
    BY <2>3, <2>4, <2>5 DEF Withdrawn
<1>8. ASSUME ((\E t \in Target : Close(t) \/ \E n \in Price : Reprice(t, n))
              \/ ArchivePaymentMethod \/ (\E r \in Refund : CreateRefund(r)) \/ UNCHANGED vars)
      PROVE  UNCHANGED <<payment, active, posted, flight>>
  BY <1>8 DEF Close, Reprice, ArchivePaymentMethod, CreateRefund, vars
<1>9. ASSUME NEW q \in Request, flight[q] = Idle,
             \E op \in Operation, d \in Document, k \in Key : Begin(q, op, d, k)
      PROVE  KeysTell' /\ payment' = payment /\ active' = active
  BY <1>4, <1>9
<1>10. ASSUME UNCHANGED <<payment, active>> PROVE \A p \in Payment : Withdrawn(p) => Withdrawn(p)'
  BY <1>10 DEF Withdrawn
<1>11. ASSUME NEW q \in Request, flight[q] # Idle, \E x \in flight[q].todo : Check(q, x)
       PROVE  KeysTell' /\ payment' = payment /\ active' = active
  BY <1>5, <1>11
<1> QED
  BY <1>1, <1>2, <1>6, <1>7, <1>8, <1>9, <1>10, <1>11 DEF Next

(***************************************************************************)
(* What an annulment takes from a payment never counts again, however late *)
(* a completePayment that had read it as a draft writes, and with any      *)
(* keys: such a payment reads COMPLETED again only if it was completed     *)
(* under two of them.                                                      *)
(***************************************************************************)
THEOREM AnnulledStaysAnnulled == Spec => AnnulledForGood
<1>1. IInv /\ KeysTell /\ [Next]_vars => IInv' /\ KeysTell'
  BY NextInv, KeysStep
<1>2. ASSUME IInv, KeysTell, [Next]_vars
      PROVE  \A p \in Payment :
                /\ Withdrawn(p) => Withdrawn(p)'
                /\ payment'[p] = "ANNULLED" => Withdrawn(p)'
                /\ payment'[p] \notin {"NONE", "ANNULLED"} => RowsOf(p) \subseteq active' \/ Withdrawn(p)'
                /\ payment'[p] = "COMPLETED" /\ Withdrawn(p)' => CompletedTwice(p)'
  <2> SUFFICES ASSUME NEW p \in Payment
               PROVE  /\ Withdrawn(p) => Withdrawn(p)'
                      /\ payment'[p] = "ANNULLED" => Withdrawn(p)'
                      /\ payment'[p] \notin {"NONE", "ANNULLED"} => RowsOf(p) \subseteq active' \/ Withdrawn(p)'
                      /\ payment'[p] = "COMPLETED" /\ Withdrawn(p)' => CompletedTwice(p)'
    OBVIOUS
  <2>1. (Withdrawn(p) => Withdrawn(p)') /\ KeysTell' /\ IInv'
    BY <1>1, <1>2, KeysStep
  <2>2. RowsFollows(p, active', payment', posted') /\ payment'[p] \in Status
    BY <2>1 DEF KeysTell, RowsFollow, IInv, TypeOK
  <2>3. RowsOf(p) # {} \/ payment'[p] = "NONE"
    BY <2>1 DEF KeysTell
  <2> QED
    BY <2>1, <2>2, <2>3 DEF RowsFollows, Withdrawn, CompletedTwice, Status
<1> QED
  BY InitInv, InitKeys, <1>1, <1>2, PTL DEF Spec, AnnulledForGood

-----------------------------------------------------------------------------
(***************************************************************************)
(* The pages over payments.                                                *)
(*                                                                         *)
(* A draft has all its allocations, with any keys: what takes allocations  *)
(* away is an annulment, and a payment that an annulment is under way for  *)
(* is no draft any more and does not become one again.                     *)
(***************************************************************************)
DraftsAreWhole ==
    /\ \A q \in Request : flight[q].do = "annulPayment" =>
          payment[flight[q].doc] \in {"COMPLETED", "ANNULLED"}
    /\ \A p \in Payment : payment[p] = "DRAFT" => RowsOf(p) \subseteq active

LEMMA InitDrafts == Init => DraftsAreWhole
BY RequestOrIdle DEF Init, DraftsAreWhole

LEMMA DraftsStep == ASSUME IInv, DraftsAreWhole, [Next]_vars PROVE DraftsAreWhole'
<1>1. ASSUME NEW q \in Request, flight[q].do = "annulPayment" PROVE flight[q].doc \in Payment
  <2>1. flight[q] # Idle
    BY <1>1, RequestOrIdle DEF Operation
  <2> QED
    BY <1>1, <2>1 DEF IInv, FlightsAreSound, FlightIsSound
<1>2. CASE UNCHANGED <<payment, active, flight>>
  BY <1>2 DEF DraftsAreWhole
<1>3. ASSUME NEW p \in Payment, CreatePayment(p) PROVE DraftsAreWhole'
  <2>1. /\ payment[p] = "NONE"
        /\ payment' = [payment EXCEPT ![p] = "DRAFT"]
        /\ active' = active \cup RowsOf(p)
        /\ UNCHANGED flight
    BY <1>3 DEF CreatePayment
  <2>2. payment'[p] = "DRAFT" /\ \A d \in Payment : d # p => payment'[d] = payment[d]
    BY <2>1 DEF IInv, TypeOK
  <2>3. \A q \in Request : flight'[q].do = "annulPayment" =>
            payment'[flight'[q].doc] \in {"COMPLETED", "ANNULLED"}
    BY <1>1, <2>1, <2>2 DEF DraftsAreWhole
  <2>4. \A d \in Payment : payment'[d] = "DRAFT" => RowsOf(d) \subseteq active'
    BY <2>1, <2>2 DEF DraftsAreWhole
  <2> QED
    BY <2>3, <2>4 DEF DraftsAreWhole
<1>4. ASSUME NEW q \in Request, UNCHANGED <<payment, active>>, NEW f,
             flight' = [flight EXCEPT ![q] = f],
             f.do = "annulPayment" => payment[f.doc] \in {"COMPLETED", "ANNULLED"}
      PROVE  DraftsAreWhole'
  <2>1. \A r \in Request : flight'[r] = f \/ flight'[r] = flight[r]
    BY <1>4 DEF IInv, TypeOK
  <2> QED
    BY <1>4, <2>1 DEF DraftsAreWhole
<1>5. ASSUME NEW q \in Request, NEW op \in Operation, NEW d \in Document, NEW k \in Key, Begin(q, op, d, k)
      PROVE  DraftsAreWhole'
  <2> DEFINE f == [do |-> op, doc |-> d, key |-> k, todo |-> Checks(op, d)]
  <2>1. UNCHANGED <<payment, active>> /\ flight' = [flight EXCEPT ![q] = f]
    BY <1>5 DEF Begin
  <2>2. f.do = "annulPayment" => payment[f.doc] \in {"COMPLETED", "ANNULLED"}
    BY <1>5 DEF Begin, Admits
  <2> HIDE DEF f
  <2> QED
    BY <1>4, <2>1, <2>2
<1>6. ASSUME NEW q \in Request, NEW x, Check(q, x) PROVE DraftsAreWhole'
  <2> DEFINE f == [flight[q] EXCEPT !.todo = flight[q].todo \ {x}]
  <2>1. UNCHANGED <<payment, active>> /\ flight' = [flight EXCEPT ![q] = f]
    BY <1>6 DEF Check
  <2>2. flight[q] \in Requests
    BY <1>6, RequestOrIdle DEF IInv, TypeOK, Check
  <2>3. f.do = flight[q].do /\ f.doc = flight[q].doc
    BY <2>2 DEF Requests
  <2>4. f.do = "annulPayment" => payment[f.doc] \in {"COMPLETED", "ANNULLED"}
    BY <2>3 DEF DraftsAreWhole
  <2> HIDE DEF f
  <2> QED
    BY <1>4, <2>1, <2>4
<1>7. ASSUME NEW q \in Request, Fail(q) PROVE DraftsAreWhole'
  <2>1. UNCHANGED <<payment, active>> /\ flight' = [flight EXCEPT ![q] = Idle]
    BY <1>7 DEF Fail
  <2> QED
    BY <1>4, <2>1, RequestOrIdle
<1>8. ASSUME NEW q \in Request, Write(q) PROVE DraftsAreWhole'
  <2> DEFINE e == flight[q]
             s == IF e.do \in {"completePayment", "completeRefund"} THEN "COMPLETED" ELSE "ANNULLED"
  <2>1. /\ s \in {"COMPLETED", "ANNULLED"}
        /\ e.doc \in Payment => payment' = [payment EXCEPT ![e.doc] = s]
        /\ e.doc \notin Payment => payment' = payment
        /\ active' = IF e.do = "annulPayment" THEN active \ RowsOf(e.doc) ELSE active
        /\ flight' = [flight EXCEPT ![q] = Idle]
    BY <1>8 DEF Write
  <2>2. e.do = "annulPayment" => e.doc \in Payment
    BY <1>1
  <2> HIDE DEF e, s
  <2>3. \A r \in Request : flight'[r] = Idle \/ flight'[r] = flight[r]
    BY <2>1 DEF IInv, TypeOK
  <2>4. \A d \in Payment : payment'[d] = payment[d] \/ (d = e.doc /\ payment'[d] \in {"COMPLETED", "ANNULLED"})
    BY <2>1 DEF IInv, TypeOK
  <2>5. ASSUME NEW r \in Request, flight'[r].do = "annulPayment"
        PROVE  payment'[flight'[r].doc] \in {"COMPLETED", "ANNULLED"}
    <3>1. flight'[r] = flight[r]
      BY <2>3, <2>5, RequestOrIdle
    <3> QED
      BY <1>1, <2>4, <2>5, <3>1 DEF DraftsAreWhole
  <2>6. ASSUME NEW d \in Payment, payment'[d] = "DRAFT" PROVE RowsOf(d) \subseteq active'
    <3>1. payment[d] = "DRAFT" /\ d # e.doc
      <4>1. payment[d] = "DRAFT"
        BY <2>4, <2>6
      <4>2. payment'[e.doc] = s \/ d # e.doc
        BY <2>1 DEF IInv, TypeOK
      <4> QED
        BY <2>1, <2>6, <4>1, <4>2
    <3>2. RowsOf(d) \cap RowsOf(e.doc) = {}
      BY <3>1 DEF RowsOf
    <3> QED
      BY <2>1, <3>1, <3>2 DEF DraftsAreWhole
  <2> QED
    BY <2>5, <2>6 DEF DraftsAreWhole
<1>9. ASSUME ((\E t \in Target : Close(t) \/ \E n \in Price : Reprice(t, n))
              \/ ArchivePaymentMethod \/ (\E r \in Refund : CreateRefund(r)) \/ UNCHANGED vars)
      PROVE  UNCHANGED <<payment, active, flight>>
  BY <1>9 DEF Close, Reprice, ArchivePaymentMethod, CreateRefund, vars
<1>10. ASSUME NEW q \in Request, flight[q] = Idle,
              \E op \in Operation, d \in Document, k \in Key : Begin(q, op, d, k)
       PROVE  DraftsAreWhole'
  BY <1>5, <1>10
<1>11. ASSUME NEW q \in Request, flight[q] # Idle, \E x \in flight[q].todo : Check(q, x)
       PROVE  DraftsAreWhole'
  BY <1>6, <1>11
<1> QED
  BY <1>2, <1>3, <1>7, <1>8, <1>9, <1>10, <1>11 DEF Next

\* What was paid, given back and is due are amounts.
LEMMA FiguresTyped ==
    ASSUME IInv, NEW t \in Target
    PROVE  /\ Paid(t) \in Nat
           /\ RefundedOf(t) \in Nat
           /\ NetPaid(t) \in Nat /\ NetPaid(t) <= Paid(t)
           /\ RefundedOf(t) = 0 => NetPaid(t) = Paid(t)
           /\ due[t] \in Nat \cup {NoPrice}
           /\ due[t] # NoPrice =>
                /\ BalanceDue(t) \in Nat
                /\ BalanceDue(t) >= due[t] - NetPaid(t)
                /\ BalanceDue(t) > 0 => BalanceDue(t) = due[t] - NetPaid(t)
<1>1. Paid(t) \in Nat
  <2>1. {w \in active : RowTarget[w] = t /\ payment[RowPayment[w]] = "COMPLETED"} \subseteq Row
    BY DEF IInv, TypeOK
  <2> QED
    BY <2>1, ShareTotals DEF Paid
<1>2. RefundedOf(t) \in Nat
  <2> DEFINE R == {r \in Refund : /\ refund[r] = "COMPLETED"
                                  /\ \E w \in RowsOf(RefundPayment[r]) :
                                        RowTarget[w] = t /\ payment[RowPayment[w]] # "NONE"}
  <2>1. R \subseteq Refund
    OBVIOUS
  <2> HIDE DEF R
  <2>2. TotalOn(GivenBack, R) \in Nat
    BY <2>1, BackTotals
  <2> QED
    BY <2>2 DEF RefundedOf, R
<1>3. due[t] \in Nat \cup {NoPrice}
  BY DEF IInv, TypeOK
<1>4. NetPaid(t) \in Nat /\ NetPaid(t) <= Paid(t) /\ (RefundedOf(t) = 0 => NetPaid(t) = Paid(t))
  BY <1>1, <1>2 DEF NetPaid, Least0
<1>5. due[t] # NoPrice => /\ BalanceDue(t) \in Nat
                          /\ BalanceDue(t) >= due[t] - NetPaid(t)
                          /\ BalanceDue(t) > 0 => BalanceDue(t) = due[t] - NetPaid(t)
  BY <1>3, <1>4 DEF BalanceDue, Least0
<1> QED
  BY <1>1, <1>2, <1>3, <1>4, <1>5

\* What it takes to complete a draft.
LEMMA DraftDone ==
    ASSUME IInv, DraftsAreWhole, NEW p \in Payment, payment[p] = "DRAFT"
    PROVE  /\ Done("completePayment", p) <=>
                 method = "ACTIVE" /\ \A w \in RowsOf(p) : NoOverpayment(RowTarget[w], Share[w])
           /\ \A w \in RowsOf(p) : Share[w] > 0 /\ Share[w] \in Nat /\ RowTarget[w] \in Target
<1>1. RowsOf(p) \subseteq active /\ RowsOf(p) \subseteq Row
  BY DEF DraftsAreWhole, RowsOf
<1>2. Checks("completePayment", p) = RowsOf(p)
  BY <1>1 DEF Checks
<1>3. Admits("completePayment", p) <=> method = "ACTIVE"
  BY DEF Admits
<1>4. \A w : Passes("completePayment", p, w) <=> NoOverpayment(RowTarget[w], Share[w])
  BY DEF Passes
<1>5. \A w \in RowsOf(p) : Share[w] > 0
  BY <1>1 DEF IInv, TypeOK
<1>6. \A w \in RowsOf(p) : Share[w] \in Nat /\ RowTarget[w] \in Target
  BY <1>1, AmountTypes, DocumentAssumption
<1> QED
  BY <1>2, <1>3, <1>4, <1>5, <1>6 DEF Done

\* A target that the summary shows as paid was paid its price.
LEMMA PaidIsPaid ==
    ASSUME IInv, NEW t \in Target, Projection(t) = "PAID"
    PROVE  BalanceDue(t) = 0 /\ (due[t] # NoPrice => due[t] <= Paid(t))
<1> DEFINE refunded == RefundedOf(t) > 0
           total == IF due[t] = NoPrice THEN 0 ELSE due[t]
<1>1. /\ ~refunded
      /\ NetPaid(t) # 0
      /\ NetPaid(t) \notin 1 .. total - 1
  <2>1. ~(refunded /\ Paid(t) > 0 /\ NetPaid(t) = 0)
    BY DEF Projection
  <2>2. ~(refunded /\ NetPaid(t) > 0)
    BY DEF Projection
  <2>3. ~(NetPaid(t) = 0 /\ ~(refunded /\ Paid(t) > 0))
    BY DEF Projection
  <2>4. ~(~refunded /\ NetPaid(t) \in 1 .. total - 1)
    BY DEF Projection
  <2> QED
    BY <2>1, <2>2, <2>3, <2>4, FiguresTyped
<1>2. total \in Nat /\ total <= NetPaid(t)
  BY <1>1, FiguresTyped
<1> QED
  BY <1>1, <1>2, FiguresTyped DEF BalanceDue, Least0

(***************************************************************************)
(* On any instance the summaries and the use cases agree on what is still  *)
(* due, as far as nothing was given back, however many requests are under  *)
(* way.  (buildSummary against assertNoOverpaymentForPayment)              *)
(***************************************************************************)
LEMMA SummariesTell == ASSUME IInv, DraftsAreWhole PROVE SummariesTellWhatIsDue
<1>1. ASSUME NEW p \in CompleteOffers, method = "ACTIVE", ShownDue(p), NothingBack(p)
      PROVE  Done("completePayment", p)
  <2>1. p \in Payment /\ payment[p] = "DRAFT"
    BY DEF CompleteOffers
  <2>2. ASSUME NEW w \in RowsOf(p) PROVE NoOverpayment(RowTarget[w], Share[w])
    <3>1. due[RowTarget[w]] # NoPrice /\ Share[w] <= BalanceDue(RowTarget[w]) /\ RefundedOf(RowTarget[w]) = 0
      BY <1>1 DEF ShownDue, NothingBack
    <3>2. Share[w] > 0 /\ Share[w] \in Nat /\ RowTarget[w] \in Target
      BY <2>1, DraftDone
    <3> DEFINE t == RowTarget[w]
    <3> HIDE DEF t
    <3>3. t \in Target /\ due[t] # NoPrice /\ Share[w] <= BalanceDue(t) /\ RefundedOf(t) = 0
      BY <3>1, <3>2 DEF t
    <3>4. /\ BalanceDue(t) > 0 => BalanceDue(t) = due[t] - Paid(t)
          /\ BalanceDue(t) \in Nat /\ due[t] \in Nat /\ Paid(t) \in Nat
      BY <3>3, FiguresTyped
    <3>5. Paid(t) + Share[w] <= due[t]
      BY <3>2, <3>3, <3>4
    <3> QED
      BY <3>3, <3>5 DEF NoOverpayment, t
  <2> QED
    BY <1>1, <2>1, <2>2, DraftDone
<1>2. ASSUME NEW p \in CompleteOffers, Done("completePayment", p) PROVE ShownDue(p)
  <2>1. p \in Payment /\ payment[p] = "DRAFT"
    BY DEF CompleteOffers
  <2> SUFFICES ASSUME NEW w \in RowsOf(p)
               PROVE  due[RowTarget[w]] # NoPrice /\ Share[w] <= BalanceDue(RowTarget[w])
    BY DEF ShownDue
  <2> DEFINE t == RowTarget[w]
  <2>2. Share[w] \in Nat /\ t \in Target /\ NoOverpayment(t, Share[w])
    BY <1>2, <2>1, DraftDone
  <2> HIDE DEF t
  <2>3. due[t] # NoPrice /\ Paid(t) + Share[w] <= due[t]
    BY <2>2 DEF NoOverpayment
  <2>4. /\ Paid(t) \in Nat /\ NetPaid(t) \in Nat /\ NetPaid(t) <= Paid(t) /\ due[t] \in Nat
        /\ BalanceDue(t) \in Nat /\ BalanceDue(t) >= due[t] - NetPaid(t)
    BY <2>2, <2>3, FiguresTyped
  <2>5. Share[w] <= BalanceDue(t)
    BY <2>2, <2>3, <2>4
  <2> QED
    BY <2>3, <2>5 DEF t
<1>3. ASSUME NEW t \in Target, Projection(t) = "PAID", NEW p \in CompleteOffers,
             NEW w \in RowsOf(p), RowTarget[w] = t, Done("completePayment", p)
      PROVE  FALSE
  <2>1. p \in Payment /\ payment[p] = "DRAFT"
    BY DEF CompleteOffers
  <2>2. Share[w] > 0 /\ Share[w] \in Nat /\ NoOverpayment(t, Share[w])
    BY <1>3, <2>1, DraftDone
  <2>3. due[t] # NoPrice /\ Paid(t) + Share[w] <= due[t]
    BY <2>2 DEF NoOverpayment
  <2>4. due[t] <= Paid(t) /\ Paid(t) \in Nat /\ due[t] \in Nat
    BY <1>3, <2>3, PaidIsPaid, FiguresTyped
  <2> QED
    BY <2>2, <2>3, <2>4
<1>4. ASSUME NEW t \in FormOffers, RefundedOf(t) = 0, BalanceDue(t) > 0, NEW one \in 0 .. BalanceDue(t)
      PROVE  PaysBoth(t, one, Remainder(t, one))
  <2>1. t \in Target /\ due[t] # NoPrice
    BY DEF FormOffers, IInv, TypeOK
  <2>2. /\ BalanceDue(t) = due[t] - Paid(t) /\ BalanceDue(t) \in Nat
        /\ due[t] \in Nat /\ Paid(t) \in Nat
    BY <1>4, <2>1, FiguresTyped
  <2>3. one \in Nat /\ one <= BalanceDue(t)
    BY <2>2
  <2>4. Remainder(t, one) = BalanceDue(t) - one
    BY <2>2, <2>3 DEF Remainder, Least0
  <2>5. Paid(t) + one <= due[t] /\ Paid(t) + (one + Remainder(t, one)) <= due[t]
    BY <2>2, <2>3, <2>4
  <2> QED
    BY <2>1, <2>5 DEF PaysBoth, NoOverpayment
<1>5. \A p \in CompleteOffers :
          /\ method = "ACTIVE" /\ ShownDue(p) /\ NothingBack(p) => Done("completePayment", p)
          /\ Done("completePayment", p) => ShownDue(p)
  BY <1>1, <1>2
<1>6. \A t \in Target : Projection(t) = "PAID" =>
          /\ BalanceDue(t) = 0
          /\ \A p \in CompleteOffers : (\E w \in RowsOf(p) : RowTarget[w] = t) => ~Done("completePayment", p)
  BY <1>3, PaidIsPaid
<1>7. \A t \in FormOffers : RefundedOf(t) = 0 /\ BalanceDue(t) > 0 =>
          \A one \in 0 .. BalanceDue(t) : PaysBoth(t, one, Remainder(t, one))
  BY <1>4
<1> QED
  BY <1>5, <1>6, <1>7 DEF SummariesTellWhatIsDue

\* What the page of a payment lists decides on its buttons.
LEMMA PaymentPage == ASSUME IInv PROVE PaymentPageTells
<1>1. ASSUME NEW p \in Payment
      PROVE  /\ ListedBack(p) = Refunded(p) /\ ListedBack(p) \in Nat
             /\ ListedBack(p) = 0 <=> \A r \in RefundsOf(p) : refund[r] # "COMPLETED"
  <2> DEFINE R == {r \in RefundsOf(p) : refund[r] = "COMPLETED"}
  <2>1. R \subseteq Refund /\ \A r \in R : refund[r] = "COMPLETED"
    BY DEF RefundsOf
  <2>2. \A r \in R : GivenBack[r] > 0
    BY <2>1 DEF IInv, TypeOK
  <2>3. ListedBack(p) = TotalOn(GivenBack, R) /\ Refunded(p) = TotalOn(GivenBack, R)
    BY DEF ListedBack, Refunded
  <2>4. R = {} <=> \A r \in RefundsOf(p) : refund[r] # "COMPLETED"
    OBVIOUS
  <2> HIDE DEF R
  <2>5. IsFiniteSet(R) /\ TotalOn(GivenBack, R) \in Nat /\ \A r \in R : GivenBack[r] \in Nat
    BY <2>1, BackTotals
  <2>6. R = {} => TotalOn(GivenBack, R) = 0
    BY TotalZero
  <2>7. \A r \in R : GivenBack[r] <= TotalOn(GivenBack, R)
    BY <2>5, MemberLeTotal
  <2>8. TotalOn(GivenBack, R) = 0 => R = {}
    BY <2>2, <2>5, <2>7
  <2> QED
    BY <2>3, <2>4, <2>5, <2>6, <2>8
<1>2. ASSUME NEW p \in AnnulOffers PROVE Done("annulPayment", p) <=> ListedBack(p) = 0
  <2>1. p \in Payment /\ payment[p] = "COMPLETED"
    BY DEF AnnulOffers
  <2>2. Admits("annulPayment", p) /\ Checks("annulPayment", p) = {"refunds"}
    BY <2>1 DEF Admits, Checks
  <2>3. Passes("annulPayment", p, "refunds") <=> \A r \in RefundsOf(p) : refund[r] # "COMPLETED"
    BY DEF Passes
  <2> QED
    BY <1>1, <2>1, <2>2, <2>3 DEF Done
<1>3. ASSUME NEW r \in RefundOffers
      PROVE  (/\ method = "ACTIVE" /\ GivenBack[r] > 0
              /\ 10 * ListedBack(RefundPayment[r]) + RefundAmount[r] <= 10 * AmountOf[RefundPayment[r]])
                 <=> AcceptsRefund(r)
  <2>1. r \in Refund /\ refund[r] = "NONE" /\ payment[RefundPayment[r]] = "COMPLETED"
    BY DEF RefundOffers
  <2>2. RefundPayment[r] \in Payment /\ RefundAmount[r] \in Nat
    BY <2>1, DocumentAssumption
  <2>3. GivenBack[r] = Cents(RefundAmount[r])
    BY <2>1 DEF GivenBack
  <2>4. Cents(RefundAmount[r]) > 0 => RefundAmount[r] > 0
    BY <2>2 DEF Cents
  <2>5. PositiveAmount(RefundAmount[r]) <=> GivenBack[r] > 0
    BY <2>3, <2>4 DEF PositiveAmount
  <2>6. ListedBack(RefundPayment[r]) = Refunded(RefundPayment[r])
    BY <1>1, <2>2
  <2> QED
    BY <2>1, <2>5, <2>6 DEF AcceptsRefund, WithinLimit
<1>4. ASSUME NEW r \in CompleteRefundOffers
      PROVE  Done("completeRefund", r) <=>
                 ListedBack(RefundPayment[r]) + GivenBack[r] <= AmountOf[RefundPayment[r]]
  <2>1. r \in Refund /\ refund[r] = "DRAFT"
    BY DEF CompleteRefundOffers
  <2>2. RefundPayment[r] \in Payment
    BY <2>1, DocumentAssumption
  <2>3. Admits("completeRefund", r) /\ Checks("completeRefund", r) = {"refunds"}
    BY <2>1 DEF Admits, Checks
  <2>4. Passes("completeRefund", r, "refunds") <=> WithinLimit(RefundPayment[r], 10 * GivenBack[r])
    BY DEF Passes
  <2> DEFINE b == ListedBack(RefundPayment[r])
             g == GivenBack[r]
             a == AmountOf[RefundPayment[r]]
  <2>5. b \in Nat /\ g \in Nat /\ a \in Nat /\ b = Refunded(RefundPayment[r])
    BY <1>1, <2>1, <2>2, AmountTypes
  <2>6. WithinLimit(RefundPayment[r], 10 * GivenBack[r]) <=> 10 * b + 10 * g <= 10 * a
    BY <2>5 DEF WithinLimit
  <2> HIDE DEF b, g, a
  <2>7. 10 * b + 10 * g <= 10 * a <=> b + g <= a
    BY <2>5
  <2> QED
    BY <2>3, <2>4, <2>6, <2>7 DEF Done, b, g, a
<1> QED
  BY <1>2, <1>3, <1>4 DEF PaymentPageTells

(***************************************************************************)
(* In every state the pages over payments show what decides on the         *)
(* requests they offer.  (payments/[paymentId]/page.tsx,                   *)
(* sales/[saleId]/page.tsx, payment-split-editor.tsx)                      *)
(***************************************************************************)
THEOREM MoneyPagesAlwaysServe == Spec => []MoneyPagesServe
<1>1. IInv /\ DraftsAreWhole /\ [Next]_vars => IInv' /\ DraftsAreWhole'
  BY NextInv, DraftsStep
<1>2. IInv /\ DraftsAreWhole => MoneyPagesServe
  BY SummariesTell, PaymentPage DEF MoneyPagesServe
<1> QED
  BY InitInv, InitDrafts, <1>1, <1>2, PTL DEF Spec

-----------------------------------------------------------------------------
(***************************************************************************)
(* CounterSale: what the page shows and sends.                             *)
(*                                                                         *)
(* A rise of the total is rounded on every unit price.  In cents times the *)
(* base, each line is off by half the base for each of its pieces at most, *)
(* so the whole is off by half a cent for each piece at most (RiseIsKept). *)
(* That the lines add up to what is shown without a rise needs the quote   *)
(* to be of the cart on the screen (LinesAddUp).                           *)
(***************************************************************************)
\* The cart and what it was priced by.
CartOK ==
    /\ kind \in {"direct", "order"}
    /\ cart \in [Good -> Nat]
    /\ tag \in [Bouquet -> Tag \cup {None}]
    /\ retail \in [Part -> Nat \cup {None}]
    /\ kind = "order" => \A k \in Good : cart[k] = 0

\* A quote prices the parts of the cart it was asked for.
QuoteOK ==
    \/ quote = None
    \/ /\ quote.cart \in [Good -> Nat]
       /\ DOMAIN quote.unit = {k \in Part : quote.cart[k] > 0}
       /\ \A k \in DOMAIN quote.unit : quote.unit[k] \in Nat

LEMMA Goods ==
    /\ IsFiniteSet(Good) /\ IsFiniteSet(Part) /\ IsFiniteSet(Bouquet)
    /\ Part \subseteq Good /\ Bouquet \subseteq Good
    /\ \A k \in Bouquet : k \notin Part
    /\ Tag \subseteq Nat /\ None \notin Nat
<1>1. Part \subseteq Good /\ Bouquet \subseteq Good
  BY DEF Good
<1>2. IsFiniteSet(Good)
  BY SaleAssumption DEF SaleAssumption
<1>3. IsFiniteSet(Part) /\ IsFiniteSet(Bouquet)
  BY <1>1, <1>2, FS_Subset
<1>. QED  BY <1>1, <1>2, <1>3, SaleAssumption

LEMMA Carts ==
    ASSUME CartOK
    PROVE  /\ Parts \subseteq Part /\ Ready \subseteq Bouquet /\ Parts \cap Ready = {}
           /\ IsFiniteSet(Parts) /\ IsFiniteSet(Ready) /\ IsFiniteSet(Parts \cup Ready)
           /\ Parts \cup Ready \subseteq Good
           /\ \A k \in Parts \cup Ready : cart[k] \in Nat
<1>1. Parts \subseteq Part /\ Ready \subseteq Bouquet
  BY DEF Parts, Ready
<1>2. IsFiniteSet(Parts) /\ IsFiniteSet(Ready)
  BY <1>1, Goods, FS_Subset
<1>3. IsFiniteSet(Parts \cup Ready)
  BY <1>2, FS_Union
<1>. QED  BY <1>1, <1>2, <1>3, Goods DEF CartOK

\* The worth of a cart with natural prices.
LEMMA WorthNat ==
    ASSUME NEW S, IsFiniteSet(S), NEW q, NEW u, \A k \in S : q[k] \in Nat /\ u[k] \in Nat
    PROVE  Worth(q, u, S) \in Nat
<1>1. \A k \in S : q[k] * u[k] \in Nat
  OBVIOUS
<1>. DEFINE w == [k \in S |-> q[k] * u[k]]
<1>2. \A k \in S : w[k] \in Nat
  BY <1>1
<1>. HIDE DEF w
<1>3. TotalOn(w, S) \in Nat
  BY <1>2, TotalNat
<1>. QED  BY <1>3 DEF w, Worth

LEMMA WorthSame ==
    ASSUME NEW S, NEW q, NEW u, NEW r, NEW v, \A k \in S : q[k] = r[k] /\ u[k] = v[k]
    PROVE  Worth(q, u, S) = Worth(r, v, S)
<1>1. [k \in S |-> q[k] * u[k]] = [k \in S |-> r[k] * v[k]]
  OBVIOUS
<1>. QED  BY <1>1 DEF Worth

LEMMA WorthSplit ==
    ASSUME NEW S, IsFiniteSet(S), NEW T, IsFiniteSet(T), S \cap T = {}, NEW q, NEW u,
           \A k \in S \cup T : q[k] \in Nat /\ u[k] \in Nat
    PROVE  Worth(q, u, S \cup T) = Worth(q, u, S) + Worth(q, u, T)
<1>. DEFINE w(R) == [k \in R |-> q[k] * u[k]]
<1>1. \A k \in S \cup T : w(S \cup T)[k] \in Nat
  OBVIOUS
<1>2. \A k \in S : w(S)[k] = w(S \cup T)[k]
  OBVIOUS
<1>3. \A k \in T : w(T)[k] = w(S \cup T)[k]
  OBVIOUS
<1>4. \A R : Worth(q, u, R) = TotalOn(w(R), R)
  BY DEF Worth
<1>. HIDE DEF w
<1>5. TotalOn(w(S \cup T), S \cup T) = TotalOn(w(S \cup T), S) + TotalOn(w(S \cup T), T)
  BY <1>1, TotalSplit
<1>6. TotalOn(w(S), S) = TotalOn(w(S \cup T), S)
  BY <1>2, TotalSame
<1>7. TotalOn(w(T), T) = TotalOn(w(S \cup T), T)
  BY <1>3, TotalSame
<1>. QED  BY <1>4, <1>5, <1>6, <1>7

\* The prices of the lines are numbers.
LEMMA BaseNat ==
    ASSUME CartOK, QuoteOK, CartIsPriced, QuoteCoversCart
    PROVE  /\ DOMAIN BasePrice = Parts \cup Ready
           /\ \A k \in Parts \cup Ready : BasePrice[k] \in Nat
           /\ \A k \in Parts : BasePrice[k] = quote.unit[k]
           /\ \A k \in Ready : BasePrice[k] = tag[k]
<1>1. DOMAIN BasePrice = Parts \cup Ready
  BY DEF BasePrice
<1>2. \A k \in Parts : BasePrice[k] = quote.unit[k]
  BY DEF BasePrice, Parts
<1>3. \A k \in Ready : BasePrice[k] = tag[k]
  BY Goods DEF BasePrice, Ready
<1>4. \A k \in Ready : tag[k] \in Nat
  BY Goods DEF CartOK, CartIsPriced, Ready
<1>5. ASSUME Parts # {}
      PROVE  \A k \in Parts : quote.unit[k] \in Nat
  <2>1. quote # None
    BY <1>5 DEF CartIsPriced, QuoteTotal
  <2>. QED  BY <1>5, <2>1 DEF QuoteOK, QuoteCoversCart
<1>. QED  BY <1>1, <1>2, <1>3, <1>4, <1>5

\* What the page shows before the terms is a sum of money.
LEMMA GrossNat ==
    ASSUME CartOK, QuoteOK, CartIsPriced \/ kind = "order", NEW price \in Tag
    PROVE  GrossShown(price) \in Nat
<1>1. price \in Nat
  BY Goods
<1>2. QuoteTotal \in Nat
  <2>1. CASE quote = None
    BY <2>1 DEF QuoteTotal
  <2>2. CASE quote # None
    <3>1. DOMAIN quote.unit \subseteq Part /\ DOMAIN quote.unit \subseteq Good
      BY <2>2, Goods DEF QuoteOK
    <3>2. IsFiniteSet(DOMAIN quote.unit)
      BY <3>1, Goods, FS_Subset
    <3>3. \A k \in DOMAIN quote.unit : quote.cart[k] \in Nat /\ quote.unit[k] \in Nat
      BY <2>2, <3>1 DEF QuoteOK
    <3>4. Worth(quote.cart, quote.unit, DOMAIN quote.unit) \in Nat
      BY <3>2, <3>3, WorthNat
    <3>. QED  BY <2>2, <3>4 DEF QuoteTotal
  <2>. QED  BY <2>1, <2>2
<1>3. ASSUME CartIsPriced
      PROVE  Worth(cart, tag, Ready) \in Nat
  <2>1. \A k \in Ready : cart[k] \in Nat /\ tag[k] \in Nat
    BY <1>3, Goods DEF CartOK, CartIsPriced, Ready
  <2>. QED  BY <2>1, Carts, WorthNat
<1>. QED  BY <1>1, <1>2, <1>3 DEF GrossShown

\* While the quote belongs to the cart, the lines add up to what is shown.
LEMMA LinesAddUp ==
    ASSUME CartOK, QuoteOK, kind = "direct", CartIsPriced, QuoteCoversCart, Fresh, NEW price
    PROVE  Worth(cart, BasePrice, DOMAIN BasePrice) = GrossShown(price)
<1>1. /\ DOMAIN BasePrice = Parts \cup Ready
      /\ \A k \in Parts \cup Ready : BasePrice[k] \in Nat
      /\ \A k \in Parts : BasePrice[k] = quote.unit[k]
      /\ \A k \in Ready : BasePrice[k] = tag[k]
  BY BaseNat
<1>. DEFINE B == BasePrice
<1>. HIDE DEF B
<1>2. Worth(cart, B, Parts \cup Ready) = Worth(cart, B, Parts) + Worth(cart, B, Ready)
  BY <1>1, Carts, WorthSplit DEF B
<1>3. Worth(cart, B, Ready) = Worth(cart, tag, Ready)
  BY <1>1, WorthSame DEF B
<1>4. CASE Parts = {}
  <2>1. Worth(cart, B, Parts) = 0
    BY <1>4, TotalZero DEF Worth
  <2>2. Worth(cart, tag, Ready) \in Nat
    BY <1>1, <1>3, Carts, WorthNat DEF B
  <2>. QED  BY <1>1, <1>2, <1>3, <1>4, <2>1, <2>2 DEF GrossShown, B
<1>5. CASE Parts # {}
  <2>1. quote # None
    BY <1>5 DEF CartIsPriced, QuoteTotal
  <2>2. \A k \in Part : quote.cart[k] = cart[k]
    BY <1>5 DEF Fresh
  <2>3. DOMAIN quote.unit = Parts
    BY <2>1, <2>2 DEF QuoteOK, Parts
  <2>4. QuoteTotal = Worth(quote.cart, quote.unit, Parts)
    BY <2>1, <2>3 DEF QuoteTotal
  <2>5. \A k \in Parts : cart[k] = quote.cart[k] /\ B[k] = quote.unit[k]
    BY <1>1, <2>2 DEF Parts, B
  <2>6. Worth(cart, B, Parts) = Worth(quote.cart, quote.unit, Parts)
    BY <2>5, WorthSame
  <2>. QED  BY <1>1, <1>2, <1>3, <1>5, <2>4, <2>6 DEF GrossShown, B
<1>. QED  BY <1>4, <1>5

\* The rise of the total is kept, up to half a cent for each piece.
LEMMA RiseIsKept ==
    ASSUME NEW K, IsFiniteSet(K), NEW q, NEW p, NEW u, NEW s \in Nat, NEW b \in Nat,
           \A k \in K : q[k] \in Nat /\ p[k] \in Nat /\ u[k] \in Nat,
           b = Worth(q, p, K), b > 0,
           \A k \in K : 2 * (u[k] * b - p[k] * s) \in -b .. b
    PROVE  /\ Worth(q, u, K) \in Nat /\ TotalOn(q, K) \in Nat
           /\ 2 * Worth(q, u, K) <= 2 * s + TotalOn(q, K)
           /\ 2 * s <= 2 * Worth(q, u, K) + TotalOn(q, K)
<1>. DEFINE tb == 2 * b
            ts == 2 * s
            fu == [k \in K |-> q[k] * u[k]]
            fp == [k \in K |-> q[k] * p[k]]
            gu == [k \in K |-> fu[k] * tb]
            gp == [k \in K |-> fp[k] * ts]
            gq == [k \in K |-> q[k] * b]
            hu == [k \in K |-> gu[k] + gq[k]]
            hp == [k \in K |-> gp[k] + gq[k]]
<1>0. tb \in Nat /\ ts \in Nat
  OBVIOUS
<1>1. \A k \in K : fu[k] \in Nat /\ fp[k] \in Nat /\ fu[k] = q[k] * u[k] /\ fp[k] = q[k] * p[k]
  OBVIOUS
<1>2. Worth(q, u, K) = TotalOn(fu, K) /\ b = TotalOn(fp, K)
  BY DEF Worth
<1>. HIDE DEF tb, ts, fu, fp
<1>3. \A k \in K : /\ gu[k] = fu[k] * tb /\ gp[k] = fp[k] * ts /\ gq[k] = q[k] * b
                   /\ gu[k] \in Nat /\ gp[k] \in Nat /\ gq[k] \in Nat
  BY <1>0, <1>1
<1>. HIDE DEF gu, gp, gq
<1>4. \A k \in K : /\ hu[k] = gu[k] + gq[k] /\ hp[k] = gp[k] + gq[k]
                   /\ hu[k] \in Nat /\ hp[k] \in Nat
  BY <1>3
<1>. HIDE DEF hu, hp
<1>5. ASSUME NEW k \in K
      PROVE  gu[k] <= hp[k] /\ gp[k] <= hu[k]
  <2>1. /\ (q[k] * u[k]) * (2 * b) <= (q[k] * p[k]) * (2 * s) + q[k] * b
        /\ (q[k] * p[k]) * (2 * s) <= (q[k] * u[k]) * (2 * b) + q[k] * b
    BY Rounding
  <2>. QED  BY <1>1, <1>3, <1>4, <2>1 DEF tb, ts
<1>6. TotalOn(gu, K) = TotalOn(fu, K) * tb
  BY <1>0, <1>1, <1>3, TotalScale
<1>7. TotalOn(gp, K) = TotalOn(fp, K) * ts
  BY <1>0, <1>1, <1>3, TotalScale
<1>8. TotalOn(gq, K) = TotalOn(q, K) * b
  BY <1>3, TotalScale
<1>9. TotalOn(hu, K) = TotalOn(gu, K) + TotalOn(gq, K)
  BY <1>3, <1>4, TotalPlus
<1>10. TotalOn(hp, K) = TotalOn(gp, K) + TotalOn(gq, K)
  BY <1>3, <1>4, TotalPlus
<1>11. TotalOn(gu, K) <= TotalOn(hp, K)
  BY <1>3, <1>4, <1>5, TotalMono
<1>12. TotalOn(gp, K) <= TotalOn(hu, K)
  BY <1>3, <1>4, <1>5, TotalMono
<1>13. TotalOn(fu, K) \in Nat /\ TotalOn(q, K) \in Nat
  BY <1>1, TotalNat
<1>. DEFINE W == TotalOn(fu, K)  N == TotalOn(q, K)
<1>14. W \in Nat /\ N \in Nat /\ Worth(q, u, K) = W
  BY <1>2, <1>13
<1>15. /\ W * (2 * b) <= b * (2 * s) + N * b
       /\ b * (2 * s) <= W * (2 * b) + N * b
  BY <1>2, <1>6, <1>7, <1>8, <1>9, <1>10, <1>11, <1>12 DEF tb, ts
<1>16. N = TotalOn(q, K)
  OBVIOUS
<1>. HIDE DEF W, N
<1>17. /\ b * (2 * W) <= b * (2 * s + N)
       /\ b * (2 * s) <= b * (2 * W + N)
  BY <1>14, <1>15
<1>18. 2 * W <= 2 * s + N /\ 2 * s <= 2 * W + N
  BY <1>14, <1>17, MulCancel
<1>. QED  BY <1>14, <1>16, <1>18

LEMMA DiscountNat ==
    ASSUME NEW gross \in Nat, NEW t \in Terms, NEW d \in DiscountShown(gross, t)
    PROVE  d \in Nat /\ (t.kind = "NONE" => d = 0)
<1>1. t.kind \in {"NONE", "PERCENT", "FIXED"} /\ t.value \in Nat
  BY SaleAssumption DEF Term
<1>2. CASE t.kind = "PERCENT"
  <2>1. gross * t.value \in Nat
    BY <1>1
  <2>. DEFINE m == gross * t.value
  <2>2. m \in Nat /\ d \in {m \div 100, m \div 100 + 1}
    BY <1>2, <2>1 DEF DiscountShown, ToFixed
  <2>. HIDE DEF m
  <2>. QED  BY <1>2, <2>2
<1>. QED  BY <1>1, <1>2 DEF DiscountShown

\* What is charged for a cart, before the discount.
LEMMA DirectGross ==
    ASSUME CartOK, QuoteOK, CartIsPriced, QuoteCoversCart, NEW adj \in Int, NEW u \in UnitPrices(adj)
    PROVE  LET base == Worth(cart, BasePrice, DOMAIN BasePrice)
               gross == Worth(cart, u, DOMAIN u)
               units == TotalOn(cart, Good)
           IN  /\ base \in Nat /\ gross \in Nat /\ units \in Nat
               /\ adj > 0 /\ base > 0 =>
                     /\ 2 * gross <= 2 * (base + adj) + units
                     /\ 2 * (base + adj) <= 2 * gross + units
               /\ ~(adj > 0 /\ base > 0) => gross = base
<1>. DEFINE K == Parts \cup Ready
            B == BasePrice
            base == Worth(cart, B, DOMAIN B)
            gross == Worth(cart, u, DOMAIN u)
            units == TotalOn(cart, Good)
<1>1. /\ DOMAIN B = K /\ \A k \in K : B[k] \in Nat
      /\ IsFiniteSet(K) /\ K \subseteq Good /\ \A k \in K : cart[k] \in Nat
  BY BaseNat, Carts
<1>2. IsFiniteSet(Good) /\ \A k \in Good : cart[k] \in Nat
  BY Goods DEF CartOK
<1>. HIDE DEF K
<1>3. units \in Nat
  BY <1>2, TotalNat
<1>4. base \in Nat
  <2>1. Worth(cart, B, K) \in Nat
    BY <1>1, WorthNat
  <2>. QED  BY <1>1, <2>1
<1>5. CASE adj > 0 /\ base > 0
  <2>. DEFINE s == base + adj
  <2>1. /\ u \in [K -> 0 .. s]
        /\ \A k \in K : u[k] \in ToFixed(B[k] * s, base)
    BY <1>1, <1>5 DEF UnitPrices
  <2>2. s \in Nat
    BY <1>4, <1>5
  <2>3. base = Worth(cart, B, K) /\ gross = Worth(cart, u, K)
    BY <1>1, <2>1
  <2>. HIDE DEF s, B, base, gross
  <2>4. \A k \in K : /\ u[k] \in Nat
                     /\ 2 * (u[k] * base - B[k] * s) \in -base .. base
    BY <2>1, <2>2 DEF ToFixed
  <2>5. /\ gross \in Nat /\ TotalOn(cart, K) \in Nat
        /\ 2 * gross <= 2 * s + TotalOn(cart, K)
        /\ 2 * s <= 2 * gross + TotalOn(cart, K)
    BY <1>1, <1>4, <1>5, <2>2, <2>3, <2>4, RiseIsKept
  <2>6. TotalOn(cart, K) <= units
    BY <1>1, <1>2, TotalMono
  <2>7. /\ gross \in Nat
        /\ 2 * gross <= 2 * s + units
        /\ 2 * s <= 2 * gross + units
    BY <1>3, <2>2, <2>5, <2>6
  <2>. QED  BY <1>3, <1>4, <1>5, <2>7 DEF s, B, base, gross
<1>6. CASE ~(adj > 0 /\ base > 0)
  <2>1. u = B
    BY <1>6 DEF UnitPrices
  <2>. QED  BY <1>3, <1>4, <1>6, <2>1
<1>. QED  BY <1>5, <1>6

LEMMA NetIs ==
    ASSUME NEW gross \in Nat, NEW shown \in Nat
    PROVE  /\ DiscountSent(gross, shown) \in Nat
           /\ NetOf(gross, DiscountSent(gross, shown)) \in Nat
           /\ "discount" \in rights =>
                 /\ NetOf(gross, DiscountSent(gross, shown)) <= shown
                 /\ NetOf(gross, DiscountSent(gross, shown)) \in {gross, shown}
           /\ "discount" \notin rights => NetOf(gross, DiscountSent(gross, shown)) = gross
<1>1. CASE "discount" \in rights
  BY <1>1 DEF DiscountSent, NetOf, Max0
<1>2. CASE "discount" \notin rights
  BY <1>2 DEF DiscountSent, NetOf
<1>. QED  BY <1>1, <1>2

\* The net amount is the one shown, within half a cent for each piece.
Promised(f) ==
    LET net == NetOf(f.gross, f.discount) IN
    /\ f.fresh \/ "discount" \in rights => 2 * (net - f.shown) <= f.units
    /\ f.fresh /\ kind = "direct" /\ f.gross > 0 => 2 * (f.shown - net) <= f.units

\* What is sent.
FormOK(f) ==
    /\ DOMAIN f = {"gross", "discount", "split", "shown", "fresh", "units", "sale", "pay"}
    /\ f.gross \in Nat /\ f.discount \in Nat /\ f.shown \in Nat /\ f.units \in Nat
    /\ f.split \in Seq(Nat) /\ f.sale \in Nat /\ f.pay \in Nat

LEMMA SentOK ==
    ASSUME CartOK, NEW gross \in Nat, NEW shown \in Nat, NEW split \in Splits, Sent(gross, shown, split)
    PROVE  /\ FormOK(form') /\ form'.sale = 0 /\ form'.pay = 0
           /\ form'.gross = gross /\ form'.shown = shown /\ form'.units = TotalOn(cart, Good)
           /\ form'.discount = DiscountSent(gross, shown)
           /\ form'.fresh <=> Fresh
<1>1. TotalOn(cart, Good) \in Nat
  <2>1. \A k \in Good : cart[k] \in Nat
    BY DEF CartOK
  <2>. QED  BY <2>1, Goods, TotalNat
<1>2. DiscountSent(gross, shown) \in Nat /\ split \in Seq(Nat)
  BY NetIs, SaleAssumption
<1>3. form' = [gross |-> gross, discount |-> DiscountSent(gross, shown), split |-> split,
               shown |-> shown, fresh |-> Fresh, units |-> TotalOn(cart, Good),
               sale |-> 0, pay |-> 0]
  BY DEF Sent
<1>4. /\ form'.gross = gross /\ form'.shown = shown /\ form'.units = TotalOn(cart, Good)
      /\ form'.discount = DiscountSent(gross, shown) /\ form'.split = split
      /\ form'.sale = 0 /\ form'.pay = 0
      /\ DOMAIN form' = {"gross", "discount", "split", "shown", "fresh", "units", "sale", "pay"}
  BY <1>3
<1>5. form'.fresh = Fresh
  BY <1>3
<1>. QED  BY <1>1, <1>2, <1>4, <1>5 DEF FormOK

\* A submission sends what is shown.
LEMMA SubmitPromises ==
    ASSUME CartOK, QuoteOK, NEW t \in Terms, NEW price \in Tag, NEW split \in Splits, NEW owed,
           Submit(t, price, split, owed), ~(told' = told + 1 /\ UNCHANGED <<page, form>>)
    PROVE  /\ page' = "createSale" /\ UNCHANGED told
           /\ FormOK(form') /\ form'.sale = 0 /\ form'.pay = 0
           /\ Promised(form)'
<1>0. /\ t.kind \in {"NONE", "PERCENT", "FIXED"} /\ t.adj \in Int /\ price \in Nat
      /\ kind \in {"direct", "order"} /\ (kind = "direct" => CartIsPriced)
      /\ UNCHANGED <<kind, rights>>
      /\ TermsAreAllowed(t)
  BY SaleAssumption, Goods DEF Submit, Term, CartOK
<1>. DEFINE top == GrossShown(price)
<1>1. top \in Nat
  BY <1>0, GrossNat
<1>2. PICK d \in DiscountShown(top, t) :
        LET shown == Max0(GrossShown(price) - d + t.adj) IN
        CASE kind = "order" -> Sent(price, shown, split)
          [] kind = "direct" /\ QuoteCoversCart ->
                \E u \in UnitPrices(t.adj) : Sent(Worth(cart, u, DOMAIN u), shown, split)
          [] OTHER -> told' = told + 1 /\ UNCHANGED <<page, form>>
  BY DEF Submit
<1>. DEFINE shown == Max0(top - d + t.adj)
<1>3. d \in Nat /\ (t.kind = "NONE" => d = 0)
  BY <1>1, DiscountNat
<1>4. shown \in Nat
  BY <1>0, <1>1, <1>3 DEF Max0
<1>5. "discount" \notin rights => d = 0 /\ t.adj >= 0
  BY <1>0, <1>3 DEF TermsAreAllowed
<1>6. /\ shown >= top - d + t.adj
      /\ shown = 0 \/ shown = top - d + t.adj
  BY <1>0, <1>1, <1>3 DEF Max0
<1>7. CASE kind = "order"
  <2>1. Sent(price, shown, split)
    BY <1>2, <1>7
  <2>2. top = price
    BY <1>7 DEF GrossShown
  <2>. HIDE DEF top, shown
  <2>3. /\ FormOK(form') /\ form'.sale = 0 /\ form'.pay = 0
        /\ form'.gross = price /\ form'.shown = shown /\ form'.units = TotalOn(cart, Good)
        /\ form'.discount = DiscountSent(price, shown)
        /\ form'.fresh <=> Fresh
    BY <1>0, <1>4, <2>1, SentOK
  <2>4. page' = "createSale" /\ UNCHANGED told
    BY <2>1 DEF Sent
  <2>. DEFINE net == NetOf(form'.gross, form'.discount)
  <2>5. net <= shown /\ net \in Nat
    <3>1. CASE "discount" \in rights
      BY <1>0, <1>4, <2>3, <3>1, NetIs
    <3>2. CASE "discount" \notin rights
      <4>1. net = price /\ d = 0 /\ t.adj >= 0
        BY <1>0, <1>4, <1>5, <2>3, <3>2, NetIs
      <4>. HIDE DEF net
      <4>. QED  BY <1>0, <1>4, <1>6, <2>2, <4>1
    <3>. QED  BY <3>1, <3>2
  <2>6. form'.units \in Nat
    BY <2>3 DEF FormOK
  <2>. HIDE DEF net
  <2>7. 2 * (net - form'.shown) <= form'.units
    BY <1>4, <2>3, <2>5, <2>6
  <2>. QED  BY <1>0, <1>7, <2>3, <2>4, <2>7 DEF Promised, net
<1>8. CASE kind = "direct"
  <2>1. QuoteCoversCart
    BY <1>2, <1>8
  <2>2. PICK u \in UnitPrices(t.adj) : Sent(Worth(cart, u, DOMAIN u), shown, split)
    BY <1>2, <1>8, <2>1
  <2>. DEFINE base == Worth(cart, BasePrice, DOMAIN BasePrice)
              gross == Worth(cart, u, DOMAIN u)
              units == TotalOn(cart, Good)
  <2>3. /\ base \in Nat /\ gross \in Nat /\ units \in Nat
        /\ t.adj > 0 /\ base > 0 =>
              /\ 2 * gross <= 2 * (base + t.adj) + units
              /\ 2 * (base + t.adj) <= 2 * gross + units
        /\ ~(t.adj > 0 /\ base > 0) => gross = base
    BY <1>0, <1>8, <2>1, DirectGross
  <2>4. Fresh => base = top
    BY <1>0, <1>8, <2>1, LinesAddUp
  <2>5. Sent(gross, shown, split)
    BY <2>2
  <2>. HIDE DEF top, shown, base, gross, units
  <2>6. /\ FormOK(form') /\ form'.sale = 0 /\ form'.pay = 0
        /\ form'.gross = gross /\ form'.shown = shown /\ form'.units = units
        /\ form'.discount = DiscountSent(gross, shown)
        /\ form'.fresh <=> Fresh
    BY <1>4, <2>3, <2>5, SentOK DEF units
  <2>7. page' = "createSale" /\ UNCHANGED told
    BY <2>5 DEF Sent
  <2>. DEFINE net == NetOf(form'.gross, form'.discount)
  <2>8. /\ net \in Nat
        /\ "discount" \in rights => net <= shown /\ net \in {gross, shown}
        /\ "discount" \notin rights => net = gross
    BY <1>4, <2>3, <2>6, NetIs
  <2>. HIDE DEF net
  <2>9. Fresh \/ "discount" \in rights => 2 * (net - shown) <= units
    <3>1. CASE "discount" \in rights
      BY <1>4, <2>3, <2>8, <3>1
    <3>2. CASE "discount" \notin rights /\ Fresh
      <4>1. net = gross /\ base = top /\ d = 0 /\ t.adj >= 0
        BY <1>5, <2>4, <2>8, <3>2
      <4>2. shown >= base + t.adj
        BY <1>0, <1>1, <1>6, <4>1
      <4>3. CASE t.adj > 0 /\ base > 0
        BY <1>0, <1>4, <2>3, <4>1, <4>2, <4>3
      <4>4. CASE ~(t.adj > 0 /\ base > 0)
        BY <1>0, <1>4, <2>3, <4>1, <4>2, <4>4
      <4>. QED  BY <4>3, <4>4
    <3>. QED  BY <3>1, <3>2
  <2>10. ASSUME Fresh, gross > 0
         PROVE  2 * (shown - net) <= units
    <3>1. base = top
      BY <2>4, <2>10
    <3>2. shown = 0 \/ shown <= base + t.adj
      BY <1>0, <1>1, <1>3, <1>6, <3>1
    <3>3. CASE net = shown
      BY <1>4, <2>3, <2>8, <3>3
    <3>4. CASE net = gross
      <4>1. CASE t.adj > 0 /\ base > 0
        BY <1>0, <1>4, <2>3, <3>2, <3>4, <4>1
      <4>2. CASE ~(t.adj > 0 /\ base > 0)
        BY <1>0, <1>4, <2>3, <2>10, <3>2, <3>4, <4>2
      <4>. QED  BY <4>1, <4>2
    <3>. QED  BY <2>8, <3>3, <3>4
  <2>11. Promised(form)'
    BY <1>0, <1>8, <2>6, <2>9, <2>10 DEF Promised, net
  <2>. QED  BY <2>6, <2>7, <2>11
<1>. QED  BY <1>0, <1>7, <1>8

-----------------------------------------------------------------------------
(***************************************************************************)
(* The chain of calls.                                                     *)
(*                                                                         *)
(* The invariant says how far a chain is: the sale the form names is a     *)
(* draft until it is completed, and from then on its payments are the      *)
(* first ones typed.  For each submission that is under way or has left    *)
(* the page one more was counted than errors were told, and before its     *)
(* sale is made there are no more sales than errors.                       *)
(***************************************************************************)
SaleRow == [net : Nat, status : {"DRAFT", "COMPLETED", "ANNULLED"}]
PayRow == [sale : Nat, amount : Nat, status : {"DRAFT", "COMPLETED"}]

\* Payments are of sales that were completed.
RowsOK ==
    /\ sales \in Seq(SaleRow) /\ pays \in Seq(PayRow)
    /\ \A j \in DOMAIN pays :
          /\ pays[j].sale \in DOMAIN sales
          /\ sales[pays[j].sale].status # "DRAFT"
          /\ pays[j].amount > 0

\* An error is told of a submission that is over.
ProgressOK ==
    /\ page \in Call \cup {"filling", "left"}
    /\ tries \in 0 .. MaxTries /\ told \in 0 .. tries
    /\ Busy \/ page = "left" => told < tries

PaysOf(i) == {j \in DOMAIN pays : pays[j].sale = i}
Settled(i) == {j \in DOMAIN pays : pays[j].sale = i /\ pays[j].status = "COMPLETED"}

\* The page is left after the whole chain.
Ending == page = "left" /\ "complete" \in rights

\* The payments of the sale are the first ones typed, and have been completed,
\* save the one that is being completed.
PaidUp ==
    /\ form.sale \in DOMAIN sales /\ sales[form.sale].status # "DRAFT"
    /\ form.pay <= Len(form.split)
    /\ IsFiniteSet(PaysOf(form.sale)) /\ Cardinality(PaysOf(form.sale)) = form.pay
    /\ \A j \in PaysOf(form.sale) : \E n \in DOMAIN form.split : pays[j].amount = form.split[n]
    /\ PaidFor(form.sale) <= sales[form.sale].net
    /\ \A j \in PaysOf(form.sale) :
          pays[j].status = "COMPLETED" \/ (page = "completePayment" /\ j = Len(pays))

ChainOK ==
    /\ Busy \/ Ending => FormOK(form)
    /\ page = "createSale" => Promised(form) /\ form.pay = 0
    /\ page = "completeSale" =>
          form.sale \in DOMAIN sales /\ sales[form.sale].status = "DRAFT" /\ form.pay = 0
    /\ page \in {"createSalePayment", "completePayment"} \/ Ending => PaidUp
    /\ page = "createSalePayment" => form.pay < Len(form.split)
    /\ page = "completePayment" =>
          Len(pays) > 0 /\ pays[Len(pays)].sale = form.sale /\ pays[Len(pays)].status = "DRAFT"
    /\ Ending => form.pay = Len(form.split)

OnceOK ==
    /\ kind = "order" =>
          \A i, j \in DOMAIN sales : sales[i].status # "ANNULLED" /\ sales[j].status # "ANNULLED" => i = j
    /\ kind = "direct" =>
          /\ Len(sales) <= told + 1
          /\ page \in {"filling", "createSale"} => Len(sales) <= told

CounterInv == CartOK /\ QuoteOK /\ ProgressOK /\ RowsOK /\ ChainOK /\ OnceOK

\* What the page does by itself leaves the chain alone.
LEMMA ChainAlone ==
    ASSUME ProgressOK, RowsOK, ChainOK, OnceOK, UNCHANGED <<kind, rights, page, form, tries, told, sales, pays>>
    PROVE  ProgressOK' /\ RowsOK' /\ ChainOK' /\ OnceOK'
<1>1. ProgressOK' /\ RowsOK' /\ OnceOK'
  BY DEF ProgressOK, RowsOK, OnceOK, Busy
<1>2. PaidUp => PaidUp'
  BY DEF PaidUp, PaysOf, PaidFor
<1>3. Promised(form) => Promised(form)'
  BY DEF Promised
<1>4. ChainOK'
  BY <1>2, <1>3 DEF ChainOK, Ending, Busy
<1>. QED  BY <1>1, <1>4

\* What the calls do leaves the cart alone.
LEMMA CartAlone ==
    ASSUME CartOK, QuoteOK, UNCHANGED <<kind, pageVars, retail>>
    PROVE  CartOK' /\ QuoteOK'
<1>1. UNCHANGED <<kind, mode, cart, tag, quote, asked, retail>>
  BY DEF pageVars
<1>. QED  BY <1>1 DEF CartOK, QuoteOK

LEMMA FillKeeps ==
    ASSUME CounterInv, Fill
    PROVE  CounterInv'
<1>0. CartOK /\ QuoteOK /\ ProgressOK /\ RowsOK /\ ChainOK /\ OnceOK
  BY DEF CounterInv
<1>1. UNCHANGED <<kind, rights, page, form, tries, told, sales, pays>> /\ UNCHANGED retail
  BY DEF Fill, SetCustomQty, SetReadyQty, RemoveCustom, SwitchMode
<1>2. kind = "direct"
  BY DEF Fill, SetCustomQty, SetReadyQty, RemoveCustom, SwitchMode, Editing
<1>3. cart' \in [Good -> Nat] /\ tag' \in [Bouquet -> Tag \cup {None}]
  <2>1. CASE \E k \in Part : \E n \in 0 .. Most[k] : SetCustomQty(k, n)
    BY <1>0, <2>1, SaleAssumption, Goods DEF SetCustomQty, CartOK
  <2>2. CASE \E b \in Bouquet : \E n \in 0 .. Most[b], t \in Tag \cup {None} : SetReadyQty(b, n, t)
    BY <1>0, <2>2, SaleAssumption, Goods DEF SetReadyQty, CartOK
  <2>3. CASE RemoveCustom
    BY <1>0, <2>3 DEF RemoveCustom, CartOK
  <2>4. CASE \E m \in {"CUSTOM", "READY"} : SwitchMode(m)
    BY <1>0, <2>4 DEF SwitchMode, CartOK
  <2>. QED  BY <2>1, <2>2, <2>3, <2>4 DEF Fill
<1>4. quote' = quote \/ quote' = None
  BY DEF Fill, SetCustomQty, SetReadyQty, RemoveCustom, SwitchMode, AskAgain
<1>5. CartOK'
  BY <1>0, <1>1, <1>2, <1>3 DEF CartOK
<1>6. QuoteOK'
  BY <1>0, <1>4 DEF QuoteOK
<1>. QED  BY <1>0, <1>1, <1>5, <1>6, ChainAlone DEF CounterInv

LEMMA QuoteKeeps ==
    ASSUME CounterInv, QuoteArrives
    PROVE  CounterInv'
<1>0. CartOK /\ QuoteOK /\ ProgressOK /\ RowsOK /\ ChainOK /\ OnceOK
  BY DEF CounterInv
<1>1. UNCHANGED <<kind, rights, page, form, tries, told, sales, pays>> /\ UNCHANGED <<cart, tag, retail>>
  BY DEF QuoteArrives
<1>2. CartOK'
  BY <1>0, <1>1 DEF CartOK
<1>3. QuoteOK'
  <2>. DEFINE q == [cart |-> cart, unit |-> PricesInForce(Parts)]
  <2>1. CASE quote' = None
    BY <2>1 DEF QuoteOK
  <2>2. CASE quote' = q /\ \A k \in Parts : retail[k] # None
    <3>1. q.cart = cart /\ q.unit = [k \in Parts |-> retail[k]]
      BY DEF PricesInForce
    <3>2. \A k \in Parts : k \in Part /\ retail[k] \in Nat
      BY <1>0, <2>2 DEF Parts, CartOK
    <3>3. Parts = {k \in Part : q.cart[k] > 0} /\ q.cart \in [Good -> Nat]
      BY <1>0, <3>1 DEF Parts, CartOK
    <3>4. DOMAIN q.unit = Parts /\ \A k \in Parts : q.unit[k] \in Nat
      BY <3>1, <3>2
    <3>. HIDE DEF q
    <3>. QED  BY <2>2, <3>3, <3>4 DEF QuoteOK
  <2>3. quote' = None \/ (quote' = q /\ \A k \in Parts : retail[k] # None)
    <3>1. quote' \in {None, q} /\ \A k \in Parts : retail[k] = None => quote' = None
      BY DEF QuoteArrives
    <3>. HIDE DEF q
    <3>. QED  BY <3>1
  <2>. QED  BY <2>1, <2>2, <2>3
<1>. QED  BY <1>0, <1>1, <1>2, <1>3, ChainAlone DEF CounterInv

LEMMA UpsertKeeps ==
    ASSUME CounterInv, NEW k \in Part, NEW n \in Retail[k], UpsertRetailPrice(k, n)
    PROVE  CounterInv'
<1>0. CartOK /\ QuoteOK /\ ProgressOK /\ RowsOK /\ ChainOK /\ OnceOK
  BY DEF CounterInv
<1>1. UNCHANGED <<kind, rights, page, form, tries, told, sales, pays>> /\ UNCHANGED <<cart, tag, quote>>
  BY DEF UpsertRetailPrice, pageVars
<1>2. n \in Nat \cup {None}
  BY SaleAssumption
<1>3. CartOK'
  BY <1>0, <1>1, <1>2 DEF UpsertRetailPrice, CartOK
<1>4. QuoteOK'
  BY <1>0, <1>1 DEF QuoteOK
<1>. QED  BY <1>0, <1>1, <1>3, <1>4, ChainAlone DEF CounterInv

LEMMA SubmitKeeps ==
    ASSUME CounterInv, NEW t \in Terms, NEW price \in Tag, NEW split \in Splits, NEW owed,
           Submit(t, price, split, owed)
    PROVE  CounterInv'
<1>0. CartOK /\ QuoteOK /\ ProgressOK /\ RowsOK /\ ChainOK /\ OnceOK
  BY DEF CounterInv
<1>1. /\ UNCHANGED <<kind, rights, pageVars, retail, sales, pays>>
      /\ page = "filling" /\ tries < MaxTries /\ tries' = tries + 1
  BY DEF Submit
<1>2. tries \in 0 .. MaxTries /\ told \in 0 .. tries /\ MaxTries \in Nat
  BY <1>0, SaleAssumption DEF ProgressOK
<1>3. CartOK' /\ QuoteOK'
  BY <1>0, <1>1, CartAlone
<1>4. RowsOK'
  BY <1>0, <1>1 DEF RowsOK
<1>5. CASE told' = told + 1 /\ UNCHANGED <<page, form>>
  <2>1. ProgressOK'
    BY <1>1, <1>2, <1>5 DEF ProgressOK, Busy, Call
  <2>2. ChainOK'
    BY <1>1, <1>5 DEF ChainOK, Busy, Call, Ending
  <2>3. OnceOK'
    BY <1>0, <1>1, <1>2, <1>5 DEF OnceOK, RowsOK
  <2>. QED  BY <1>3, <1>4, <2>1, <2>2, <2>3 DEF CounterInv
<1>6. CASE ~(told' = told + 1 /\ UNCHANGED <<page, form>>)
  <2>1. /\ page' = "createSale" /\ UNCHANGED told
        /\ FormOK(form') /\ form'.pay = 0 /\ Promised(form)'
    BY <1>0, <1>6, SubmitPromises
  <2>2. ProgressOK'
    BY <1>1, <1>2, <2>1 DEF ProgressOK, Busy, Call
  <2>3. ChainOK'
    BY <1>1, <2>1 DEF ChainOK, Ending
  <2>4. OnceOK'
    BY <1>0, <1>1, <2>1 DEF OnceOK
  <2>. QED  BY <1>3, <1>4, <2>2, <2>3, <2>4 DEF CounterInv
<1>. QED  BY <1>5, <1>6

\* An error ends a submission.
LEMMA TellKeeps ==
    ASSUME ProgressOK, Busy, Tell, UNCHANGED <<rights, tries>>
    PROVE  ProgressOK' /\ ChainOK'
<1>1. page' = "filling" /\ told' = told + 1 /\ told \in 0 .. tries /\ told < tries /\ tries \in 0 .. MaxTries
  BY DEF Tell, ProgressOK
<1>2. MaxTries \in Nat
  BY SaleAssumption
<1>3. ProgressOK'
  BY <1>1, <1>2 DEF ProgressOK, Busy, Call
<1>4. ChainOK'
  BY <1>1 DEF ChainOK, Busy, Call, Ending
<1>. QED  BY <1>3, <1>4

\* The chain goes on, or the page is left.
LEMMA GoesOn ==
    ASSUME ProgressOK, Busy, UNCHANGED <<tries, told>>, page' \in Call \cup {"left"}
    PROVE  ProgressOK'
  BY DEF ProgressOK, Busy, Call

\* Sales appear, and their status changes.
LEMMA SalesMove ==
    ASSUME RowsOK, sales' \in Seq(SaleRow), UNCHANGED pays,
           \A i \in DOMAIN sales : /\ i \in DOMAIN sales'
                                   /\ sales[i].status # "DRAFT" => sales'[i].status # "DRAFT"
    PROVE  RowsOK'
  BY DEF RowsOK

LEMMA Marked ==
    ASSUME RowsOK, NEW i \in DOMAIN sales, NEW s \in {"COMPLETED", "ANNULLED"},
           sales' = [sales EXCEPT ![i].status = s]
    PROVE  /\ sales' \in Seq(SaleRow) /\ DOMAIN sales' = DOMAIN sales /\ Len(sales') = Len(sales)
           /\ sales'[i].status = s
           /\ \A j \in DOMAIN sales : sales'[j].net = sales[j].net
           /\ \A j \in DOMAIN sales : j # i => sales'[j] = sales[j]
<1>1. sales \in Seq(SaleRow) /\ sales[i] \in SaleRow
  BY DEF RowsOK
<1>. DEFINE x == [sales[i] EXCEPT !.status = s]
<1>2. x \in SaleRow /\ x.status = s /\ x.net = sales[i].net
  BY <1>1 DEF SaleRow
<1>3. sales' = [sales EXCEPT ![i] = x]
  OBVIOUS
<1>. HIDE DEF x
<1>. QED  BY <1>1, <1>2, <1>3

LEMMA Grown ==
    ASSUME RowsOK, NEW x \in SaleRow, sales' = Append(sales, x)
    PROVE  /\ sales' \in Seq(SaleRow) /\ Len(sales') = Len(sales) + 1 /\ Len(sales) \in Nat
           /\ DOMAIN sales' = DOMAIN sales \cup {Len(sales')}
           /\ Len(sales') \notin DOMAIN sales
           /\ sales'[Len(sales')] = x
           /\ \A j \in DOMAIN sales : sales'[j] = sales[j]
  BY DEF RowsOK

LEMMA CreateSaleKeeps ==
    ASSUME CounterInv, CreateSale
    PROVE  CounterInv'
<1>0. CartOK /\ QuoteOK /\ ProgressOK /\ RowsOK /\ ChainOK /\ OnceOK
  BY DEF CounterInv
<1>. DEFINE x == NewSale(NetOf(form.gross, form.discount))
<1>1. /\ page = "createSale" /\ Busy /\ FormOK(form) /\ OrderHasNoSale
      /\ sales' = Append(sales, x)
      /\ UNCHANGED <<kind, rights, pageVars, retail, tries, pays>>
  BY <1>0 DEF CreateSale, ChainOK, Busy, Call
<1>2. x \in SaleRow /\ x.status = "DRAFT"
  BY <1>1 DEF FormOK, NewSale, NetOf, SaleRow
<1>. HIDE DEF x
<1>3. /\ sales' \in Seq(SaleRow) /\ Len(sales') = Len(sales) + 1 /\ Len(sales) \in Nat
      /\ DOMAIN sales' = DOMAIN sales \cup {Len(sales')}
      /\ Len(sales') \notin DOMAIN sales
      /\ sales'[Len(sales')] = x
      /\ \A j \in DOMAIN sales : sales'[j] = sales[j]
  BY <1>0, <1>1, <1>2, Grown
<1>4. CartOK' /\ QuoteOK'
  BY <1>0, <1>1, CartAlone
<1>5. RowsOK'
  BY <1>0, <1>1, <1>3, SalesMove
<1>6. \/ /\ form' = [form EXCEPT !.sale = Len(sales')] /\ UNCHANGED told
         /\ \/ "complete" \in rights /\ page' = "completeSale"
            \/ "complete" \notin rights /\ page' = "left"
      \/ Tell
  BY DEF CreateSale, Answer, Leave
<1>7. ProgressOK' /\ ChainOK'
  <2>1. CASE Tell
    BY <1>0, <1>1, <2>1, TellKeeps
  <2>2. CASE /\ form' = [form EXCEPT !.sale = Len(sales')] /\ UNCHANGED told
             /\ "complete" \in rights /\ page' = "completeSale"
    <3>1. ProgressOK'
      BY <1>0, <1>1, <2>2, GoesOn DEF Call
    <3>2. FormOK(form') /\ form'.sale = Len(sales') /\ form'.pay = form.pay
      BY <1>1, <1>3, <2>2 DEF FormOK
    <3>3. form.pay = 0
      BY <1>0, <1>1 DEF ChainOK
    <3>. QED  BY <1>2, <1>3, <2>2, <3>1, <3>2, <3>3 DEF ChainOK, Ending
  <2>3. CASE /\ UNCHANGED told
             /\ "complete" \notin rights /\ page' = "left"
    <3>1. ProgressOK'
      BY <1>0, <1>1, <2>3, GoesOn
    <3>2. ChainOK'
      BY <1>1, <2>3 DEF ChainOK, Ending, Busy, Call
    <3>. QED  BY <3>1, <3>2
  <2>. QED  BY <1>6, <2>1, <2>2, <2>3
<1>8. OnceOK'
  <2>1. CASE kind = "order"
    <3>1. \A i \in DOMAIN sales : sales[i].status = "ANNULLED"
      BY <1>1, <2>1 DEF OrderHasNoSale
    <3>. QED  BY <1>1, <1>3, <2>1, <3>1 DEF OnceOK
  <2>2. CASE kind = "direct"
    <3>1. Len(sales) <= told /\ told \in Nat
      BY <1>0, <1>1, <2>2 DEF OnceOK, ProgressOK
    <3>2. CASE Tell
      BY <1>1, <1>3, <2>2, <3>1, <3>2 DEF OnceOK, Tell
    <3>3. CASE UNCHANGED told /\ page' \in {"completeSale", "left"}
      BY <1>1, <1>3, <2>2, <3>1, <3>3 DEF OnceOK
    <3>. QED  BY <1>6, <3>2, <3>3
  <2>. QED  BY <1>0, <2>1, <2>2 DEF CartOK
<1>. QED  BY <1>4, <1>5, <1>7, <1>8 DEF CounterInv

LEMMA CompleteSaleKeeps ==
    ASSUME CounterInv, CompleteSale
    PROVE  CounterInv'
<1>0. CartOK /\ QuoteOK /\ ProgressOK /\ RowsOK /\ ChainOK /\ OnceOK
  BY DEF CounterInv
<1>. DEFINE i == form.sale
<1>1. /\ page = "completeSale" /\ Busy /\ FormOK(form)
      /\ i \in DOMAIN sales /\ sales[i].status = "DRAFT" /\ form.pay = 0
      /\ sales' = [sales EXCEPT ![i].status = "COMPLETED"]
      /\ UNCHANGED <<kind, rights, pageVars, retail, tries, pays>>
  BY <1>0 DEF CompleteSale, ChainOK, Busy, Call
<1>2. i = form.sale
  OBVIOUS
<1>. HIDE DEF i
<1>3. /\ sales' \in Seq(SaleRow) /\ DOMAIN sales' = DOMAIN sales /\ Len(sales') = Len(sales)
      /\ sales'[i].status = "COMPLETED"
      /\ \A j \in DOMAIN sales : sales'[j].net = sales[j].net
      /\ \A j \in DOMAIN sales : j # i => sales'[j] = sales[j]
  BY <1>0, <1>1, Marked
<1>4. CartOK' /\ QuoteOK'
  BY <1>0, <1>1, CartAlone
<1>5. RowsOK'
  BY <1>0, <1>1, <1>3, SalesMove
<1>6. \/ /\ UNCHANGED <<form, told>>
         /\ \/ 0 < Len(form.split) /\ page' = "createSalePayment"
            \/ ~(0 < Len(form.split)) /\ page' = "left"
      \/ Tell
  BY DEF CompleteSale, Answer, NextPayment, Leave
<1>7. ASSUME UNCHANGED <<form, told>>, page' \in {"createSalePayment", "left"}
      PROVE  PaidUp'
  <2>1. \A j \in DOMAIN pays : pays[j].sale # i
    BY <1>0, <1>1 DEF RowsOK
  <2>2. PaysOf(form.sale)' = {}
    BY <1>1, <1>2, <1>7, <2>1 DEF PaysOf
  <2>3. PaidFor(form.sale)' = 0
    <3>1. {j \in DOMAIN pays : pays[j].sale = i /\ pays[j].status = "COMPLETED"} = {}
      BY <2>1
    <3>2. PaidFor(i) = 0
      BY <3>1, TotalZero DEF PaidFor
    <3>. QED  BY <1>1, <1>2, <1>7, <3>2 DEF PaidFor
  <2>4. IsFiniteSet({}) /\ Cardinality({}) = 0
    BY FS_EmptySet
  <2>5. sales'[i].net \in Nat /\ Len(form.split) \in Nat
    BY <1>1, <1>3 DEF SaleRow, FormOK
  <2>. QED  BY <1>1, <1>2, <1>3, <1>7, <2>2, <2>3, <2>4, <2>5 DEF PaidUp
<1>8. ProgressOK' /\ ChainOK'
  <2>1. CASE Tell
    BY <1>0, <1>1, <2>1, TellKeeps
  <2>2. CASE UNCHANGED <<form, told>> /\ 0 < Len(form.split) /\ page' = "createSalePayment"
    <3>1. ProgressOK'
      BY <1>0, <1>1, <2>2, GoesOn DEF Call
    <3>2. ChainOK'
      BY <1>1, <1>7, <2>2 DEF ChainOK, Ending
    <3>. QED  BY <3>1, <3>2
  <2>3. CASE UNCHANGED <<form, told>> /\ ~(0 < Len(form.split)) /\ page' = "left"
    <3>1. ProgressOK'
      BY <1>0, <1>1, <2>3, GoesOn
    <3>2. form.pay = Len(form.split)
      BY <1>1, <2>3 DEF FormOK
    <3>3. ChainOK'
      BY <1>1, <1>7, <2>3, <3>2 DEF ChainOK, Ending
    <3>. QED  BY <3>1, <3>3
  <2>. QED  BY <1>6, <2>1, <2>2, <2>3
<1>9. OnceOK'
  <2>1. ASSUME kind = "order", NEW j \in DOMAIN sales', NEW k \in DOMAIN sales',
               sales'[j].status # "ANNULLED", sales'[k].status # "ANNULLED"
        PROVE  j = k
    <3>1. \A m \in DOMAIN sales : sales'[m].status # "ANNULLED" => sales[m].status # "ANNULLED"
      BY <1>1, <1>3
    <3>. QED  BY <1>0, <1>3, <2>1, <3>1 DEF OnceOK
  <2>2. ASSUME kind = "direct"
        PROVE  /\ Len(sales') <= told' + 1
               /\ page' \in {"filling", "createSale"} => Len(sales') <= told'
    <3>1. Len(sales) <= told + 1 /\ told \in Nat /\ Len(sales) \in Nat
      BY <1>0, <2>2 DEF OnceOK, ProgressOK, RowsOK
    <3>2. CASE Tell
      BY <1>3, <3>1, <3>2 DEF Tell
    <3>3. CASE UNCHANGED told /\ page' \in {"createSalePayment", "left"}
      BY <1>3, <3>1, <3>3
    <3>. QED  BY <1>6, <3>2, <3>3
  <2>. QED  BY <1>1, <2>1, <2>2 DEF OnceOK
<1>. QED  BY <1>4, <1>5, <1>8, <1>9 DEF CounterInv

\* Payments come and are completed.
LEMMA PaysMove ==
    ASSUME CounterInv, UNCHANGED <<kind, rights, pageVars, retail, tries, sales>>,
           Tell \/ (UNCHANGED told /\ page \notin {"filling", "createSale"}
                                   /\ page' \notin {"filling", "createSale"})
    PROVE  CartOK' /\ QuoteOK' /\ OnceOK'
<1>1. CartOK /\ QuoteOK /\ OnceOK /\ told \in Nat /\ Len(sales) \in Nat
  BY DEF CounterInv, ProgressOK, RowsOK
<1>2. CartOK' /\ QuoteOK'
  BY <1>1, CartAlone
<1>3. kind' = kind /\ sales' = sales
  OBVIOUS
<1>4. kind = "direct" => /\ Len(sales') <= told' + 1
                         /\ page' \in {"filling", "createSale"} => Len(sales') <= told'
  <2>1. CASE Tell
    BY <1>1, <1>3, <2>1 DEF OnceOK, Tell
  <2>2. CASE UNCHANGED told /\ page' \notin {"filling", "createSale"}
    BY <1>1, <1>3, <2>2 DEF OnceOK
  <2>. QED  BY <2>1, <2>2
<1>5. OnceOK'
  BY <1>1, <1>3, <1>4 DEF OnceOK
<1>. QED  BY <1>2, <1>5

LEMMA CreatePaymentKeeps ==
    ASSUME CounterInv, CreateSalePayment
    PROVE  CounterInv'
<1>0. CartOK /\ QuoteOK /\ ProgressOK /\ RowsOK /\ ChainOK /\ OnceOK
  BY DEF CounterInv
<1>a. PICK i, amount, n : i = form.sale /\ amount = form.split[form.pay + 1] /\ n = Len(pays) + 1
  OBVIOUS
<1>. DEFINE x == NewPayment(i, amount)
<1>1. /\ page = "createSalePayment" /\ Busy /\ FormOK(form) /\ PaidUp /\ form.pay < Len(form.split)
      /\ amount > 0
      /\ pays' = Append(pays, x)
      /\ UNCHANGED <<kind, rights, pageVars, retail, tries, sales>>
  BY <1>0, <1>a DEF CreateSalePayment, ChainOK, Busy, Call, IsPositive
<1>2. \/ form' = [form EXCEPT !.pay = @ + 1] /\ page' = "completePayment" /\ UNCHANGED told
      \/ Tell
  BY DEF CreateSalePayment, Answer
<1>3. /\ form.split \in Seq(Nat) /\ form.pay \in Nat /\ form.pay + 1 \in DOMAIN form.split
      /\ Len(form.split) \in Nat
  BY <1>1 DEF FormOK
<1>4. i \in DOMAIN sales /\ sales[i].status # "DRAFT" /\ i \in Nat
  BY <1>1, <1>a DEF PaidUp, FormOK
<1>5. x \in PayRow /\ x.sale = i /\ x.amount = amount /\ x.status = "DRAFT"
  BY <1>3, <1>4, <1>a DEF NewPayment, PayRow
<1>. HIDE DEF x
<1>6. /\ pays \in Seq(PayRow) /\ pays' \in Seq(PayRow) /\ n \in Nat /\ Len(pays') = n
      /\ DOMAIN pays' = DOMAIN pays \cup {n} /\ n \notin DOMAIN pays
      /\ pays'[n] = x
      /\ \A j \in DOMAIN pays : pays'[j] = pays[j]
  BY <1>0, <1>1, <1>5, <1>a DEF RowsOK
<1>7. RowsOK'
  BY <1>0, <1>1, <1>4, <1>5, <1>6 DEF RowsOK
<1>8. CartOK' /\ QuoteOK' /\ OnceOK'
  BY <1>1, <1>2, PaysMove
<1>9. ProgressOK' /\ ChainOK'
  <2>1. CASE Tell
    BY <1>0, <1>1, <2>1, TellKeeps
  <2>2. CASE form' = [form EXCEPT !.pay = @ + 1] /\ page' = "completePayment" /\ UNCHANGED told
    <3>1. ProgressOK'
      BY <1>0, <1>1, <2>2, GoesOn DEF Call
    <3>2. /\ FormOK(form') /\ form'.sale = i /\ form'.pay = form.pay + 1 /\ form'.split = form.split
      BY <1>1, <1>a, <2>2 DEF FormOK
    <3>3. PaysOf(i)' = PaysOf(i) \cup {n} /\ n \notin PaysOf(i)
      BY <1>5, <1>6 DEF PaysOf
    <3>4. IsFiniteSet(PaysOf(i)) /\ Cardinality(PaysOf(i)) = form.pay
      BY <1>1, <1>a DEF PaidUp
    <3>5. IsFiniteSet(PaysOf(i)') /\ Cardinality(PaysOf(i)') = form.pay + 1
      BY <3>3, <3>4, FS_AddElement
    <3>6. PaidFor(i)' = PaidFor(i)
      <4>1. Settled(i)' = Settled(i)
        BY <1>5, <1>6 DEF Settled
      <4>. DEFINE f == [j \in DOMAIN pays |-> pays[j].amount]
                  g == [j \in DOMAIN pays' |-> pays'[j].amount]
      <4>2. \A j \in Settled(i) : f[j] = g[j]
        BY <1>6 DEF Settled
      <4>. HIDE DEF f, g
      <4>3. TotalOn(f, Settled(i)) = TotalOn(g, Settled(i))
        BY <4>2, TotalSame
      <4>. QED  BY <4>1, <4>3 DEF PaidFor, Settled, f, g
    <3>7. \A j \in PaysOf(i)' : \E m \in DOMAIN form.split : pays'[j].amount = form.split[m]
      BY <1>1, <1>3, <1>5, <1>6, <1>a, <3>3 DEF PaidUp, PaysOf
    <3>8. \A j \in PaysOf(i)' : pays'[j].status = "COMPLETED" \/ j = Len(pays')
      BY <1>1, <1>5, <1>6, <1>a, <3>3 DEF PaidUp, PaysOf
    <3>9. PaidFor(i) <= sales[i].net
      BY <1>1, <1>a DEF PaidUp
    <3>10. PaidUp'
      <4>1. PaysOf(form.sale)' = PaysOf(i)' /\ PaidFor(form.sale)' = PaidFor(i)'
        BY <3>2 DEF PaysOf, PaidFor
      <4>3. /\ form'.sale \in DOMAIN sales' /\ sales'[form'.sale].status # "DRAFT"
            /\ form'.pay <= Len(form'.split)
        BY <1>1, <1>3, <1>4, <3>2
      <4>4. /\ IsFiniteSet(PaysOf(form.sale))' /\ (Cardinality(PaysOf(form.sale)) = form.pay)'
        BY <3>2, <3>5, <4>1
      <4>5. PaidFor(form.sale)' <= sales'[form'.sale].net
        BY <1>1, <3>2, <3>6, <3>9, <4>1
      <4>6. \A j \in PaysOf(form.sale)' : \E m \in DOMAIN form'.split : pays'[j].amount = form'.split[m]
        BY <3>2, <3>7, <4>1
      <4>7. \A j \in PaysOf(form.sale)' :
                pays'[j].status = "COMPLETED" \/ (page' = "completePayment" /\ j = Len(pays'))
        BY <2>2, <3>8, <4>1
      <4>. QED  BY <4>3, <4>4, <4>5, <4>6, <4>7 DEF PaidUp
    <3>11. Len(pays') > 0 /\ pays'[Len(pays')].sale = i /\ pays'[Len(pays')].status = "DRAFT"
      BY <1>5, <1>6
    <3>. QED  BY <2>2, <3>1, <3>2, <3>10, <3>11 DEF ChainOK, Ending
  <2>. QED  BY <1>2, <2>1, <2>2
<1>. QED  BY <1>7, <1>8, <1>9 DEF CounterInv

LEMMA CompletePaymentKeeps ==
    ASSUME CounterInv, CompletePayment
    PROVE  CounterInv'
<1>0. CartOK /\ QuoteOK /\ ProgressOK /\ RowsOK /\ ChainOK /\ OnceOK
  BY DEF CounterInv
<1>a. PICK i, n : i = form.sale /\ n = Len(pays)
  OBVIOUS
<1>1. /\ page = "completePayment" /\ Busy /\ FormOK(form) /\ PaidUp
      /\ PaidFor(i) + pays[n].amount <= sales[i].net
      /\ n > 0 /\ pays[n].sale = i /\ pays[n].status = "DRAFT"
      /\ pays' = [pays EXCEPT ![n].status = "COMPLETED"]
      /\ UNCHANGED <<kind, rights, pageVars, retail, tries, sales>>
  BY <1>0, <1>a DEF CompletePayment, ChainOK, Busy, Call
<1>2. \/ /\ UNCHANGED <<form, told>>
         /\ \/ form.pay < Len(form.split) /\ page' = "createSalePayment"
            \/ ~(form.pay < Len(form.split)) /\ page' = "left"
      \/ Tell
  BY DEF CompletePayment, Answer, NextPayment, Leave
<1>3. form.split \in Seq(Nat) /\ form.pay \in Nat /\ Len(form.split) \in Nat
  BY <1>1 DEF FormOK
<1>4. pays \in Seq(PayRow) /\ n \in DOMAIN pays /\ pays[n] \in PayRow
  BY <1>0, <1>1, <1>a DEF RowsOK
<1>. DEFINE x == [pays[n] EXCEPT !.status = "COMPLETED"]
<1>6. x \in PayRow /\ x.sale = pays[n].sale /\ x.amount = pays[n].amount /\ x.status = "COMPLETED"
  BY <1>4 DEF PayRow
<1>7. pays' = [pays EXCEPT ![n] = x]
  BY <1>1
<1>. HIDE DEF x
<1>8. /\ pays' \in Seq(PayRow) /\ DOMAIN pays' = DOMAIN pays /\ Len(pays') = Len(pays)
      /\ pays'[n] = x
      /\ \A j \in DOMAIN pays : j # n => pays'[j] = pays[j]
  BY <1>4, <1>6, <1>7
<1>9. \A j \in DOMAIN pays : pays'[j].sale = pays[j].sale /\ pays'[j].amount = pays[j].amount
  BY <1>6, <1>8
<1>10. RowsOK'
  BY <1>0, <1>1, <1>8, <1>9 DEF RowsOK
<1>11. CartOK' /\ QuoteOK' /\ OnceOK'
  BY <1>1, <1>2, PaysMove
<1>12. PaysOf(i)' = PaysOf(i)
  BY <1>8, <1>9 DEF PaysOf
<1>13. PaidFor(i)' = PaidFor(i) + pays[n].amount
  <2>. DEFINE f == [j \in DOMAIN pays |-> pays[j].amount]
              g == [j \in DOMAIN pays' |-> pays'[j].amount]
  <2>1. Settled(i)' = Settled(i) \cup {n} /\ Settled(i) \cap {n} = {}
    BY <1>1, <1>4, <1>6, <1>8 DEF Settled
  <2>2. f = g
    BY <1>8, <1>9
  <2>3. IsFiniteSet(Settled(i)) /\ IsFiniteSet({n})
    <3>1. Settled(i) \subseteq PaysOf(i) /\ IsFiniteSet(PaysOf(i))
      BY <1>1, <1>a DEF Settled, PaysOf, PaidUp
    <3>. QED  BY <3>1, FS_Subset, FS_Singleton
  <2>4. \A j \in Settled(i) \cup {n} : f[j] \in Nat
    <3>1. \A j \in DOMAIN pays : pays[j] \in PayRow
      BY <1>4
    <3>2. \A j \in DOMAIN pays : pays[j].amount \in Nat
      BY <3>1 DEF PayRow
    <3>3. \A j \in Settled(i) \cup {n} : j \in DOMAIN pays
      BY <1>4 DEF Settled
    <3>. QED  BY <3>2, <3>3
  <2>5. f[n] = pays[n].amount /\ f[n] \in Nat
    BY <1>4, <2>4
  <2>6. PaidFor(i) = TotalOn(f, Settled(i)) /\ PaidFor(i)' = TotalOn(g, Settled(i)')
    BY DEF PaidFor, Settled
  <2>. HIDE DEF f, g
  <2>7. TotalOn(f, Settled(i) \cup {n}) = TotalOn(f, Settled(i)) + TotalOn(f, {n})
    BY <2>1, <2>3, <2>4, TotalSplit
  <2>8. TotalOn(f, {n}) = f[n]
    BY <2>5, TotalSingle
  <2>. QED  BY <2>1, <2>2, <2>5, <2>6, <2>7, <2>8
<1>15. ASSUME UNCHANGED form
       PROVE  PaidUp'
  <2>1. PaysOf(form.sale)' = PaysOf(i) /\ PaidFor(form.sale)' = PaidFor(i)'
    BY <1>12, <1>a, <1>15 DEF PaysOf, PaidFor
  <2>2. \A j \in PaysOf(i) : pays'[j].status = "COMPLETED"
    BY <1>1, <1>a, <1>6, <1>8 DEF PaidUp, PaysOf
  <2>3. \A j \in PaysOf(i) : \E m \in DOMAIN form.split : pays'[j].amount = form.split[m]
    BY <1>1, <1>9, <1>a DEF PaidUp, PaysOf
  <2>. QED  BY <1>1, <1>13, <1>a, <1>15, <2>1, <2>2, <2>3 DEF PaidUp
<1>16. ProgressOK' /\ ChainOK'
  <2>1. CASE Tell
    BY <1>0, <1>1, <2>1, TellKeeps
  <2>2. CASE UNCHANGED <<form, told>> /\ form.pay < Len(form.split) /\ page' = "createSalePayment"
    <3>1. ProgressOK'
      BY <1>0, <1>1, <2>2, GoesOn DEF Call
    <3>2. ChainOK'
      BY <1>1, <1>15, <2>2 DEF ChainOK, Ending
    <3>. QED  BY <3>1, <3>2
  <2>3. CASE UNCHANGED <<form, told>> /\ ~(form.pay < Len(form.split)) /\ page' = "left"
    <3>1. ProgressOK'
      BY <1>0, <1>1, <2>3, GoesOn
    <3>2. form.pay = Len(form.split)
      BY <1>1, <1>3, <2>3 DEF PaidUp
    <3>3. ChainOK'
      BY <1>1, <1>15, <2>3, <3>2 DEF ChainOK, Ending
    <3>. QED  BY <3>1, <3>3
  <2>. QED  BY <1>2, <2>1, <2>2, <2>3
<1>. QED  BY <1>10, <1>11, <1>16 DEF CounterInv

LEMMA FailKeeps ==
    ASSUME CounterInv, CallFails
    PROVE  CounterInv'
<1>0. CartOK /\ QuoteOK /\ ProgressOK /\ RowsOK /\ ChainOK /\ OnceOK
  BY DEF CounterInv
<1>1. Busy /\ Tell /\ UNCHANGED <<kind, rights, pageVars, retail, tries, sales, pays>>
  BY DEF CallFails
<1>2. ProgressOK' /\ ChainOK'
  BY <1>0, <1>1, TellKeeps
<1>3. CartOK' /\ QuoteOK' /\ OnceOK'
  BY <1>1, PaysMove
<1>4. RowsOK'
  BY <1>0, <1>1 DEF RowsOK
<1>. QED  BY <1>2, <1>3, <1>4 DEF CounterInv

\* The sale of somebody else is the order's first one.
LEMMA ElsewhereKeeps ==
    ASSUME CounterInv, SoldElsewhere
    PROVE  CounterInv'
<1>0. CartOK /\ QuoteOK /\ ProgressOK /\ RowsOK /\ ChainOK /\ OnceOK
  BY DEF CounterInv
<1>1. /\ kind = "order" /\ sales = <<>> /\ page \in {"filling", "createSale"}
      /\ UNCHANGED <<kind, rights, pageVars, retail, page, form, tries, told, pays>>
  BY DEF SoldElsewhere
<1>2. PICK n \in Tag : sales' = <<NewSale(n)>>
  BY DEF SoldElsewhere
<1>. DEFINE x == NewSale(n)
<1>3. x \in SaleRow
  BY Goods DEF NewSale, SaleRow
<1>. HIDE DEF x
<1>4. sales' = <<x>>
  BY <1>2 DEF x
<1>5. sales' \in Seq(SaleRow) /\ DOMAIN sales' = {1}
  BY <1>3, <1>4
<1>6. CartOK' /\ QuoteOK'
  BY <1>0, <1>1, CartAlone
<1>7. RowsOK'
  BY <1>0, <1>1, <1>5, SalesMove
<1>8. ProgressOK'
  BY <1>0, <1>1 DEF ProgressOK, Busy
<1>9. ChainOK'
  BY <1>0, <1>1 DEF ChainOK, Ending, Busy, Promised
<1>10. OnceOK'
  BY <1>1, <1>5 DEF OnceOK
<1>. QED  BY <1>6, <1>7, <1>8, <1>9, <1>10 DEF CounterInv

\* An annulled sale keeps its price and its payments.
LEMMA AnnulKeeps ==
    ASSUME CounterInv, NEW i \in DOMAIN sales, AnnulSale(i)
    PROVE  CounterInv'
<1>0. CartOK /\ QuoteOK /\ ProgressOK /\ RowsOK /\ ChainOK /\ OnceOK
  BY DEF CounterInv
<1>1. /\ sales[i].status = "COMPLETED" /\ sales' = [sales EXCEPT ![i].status = "ANNULLED"]
      /\ UNCHANGED <<kind, rights, pageVars, retail, page, form, tries, told, pays>>
  BY DEF AnnulSale
<1>2. /\ sales' \in Seq(SaleRow) /\ DOMAIN sales' = DOMAIN sales /\ Len(sales') = Len(sales)
      /\ sales'[i].status = "ANNULLED"
      /\ \A j \in DOMAIN sales : sales'[j].net = sales[j].net
      /\ \A j \in DOMAIN sales : j # i => sales'[j] = sales[j]
  BY <1>0, <1>1, Marked
<1>3. CartOK' /\ QuoteOK'
  BY <1>0, <1>1, CartAlone
<1>4. RowsOK'
  BY <1>0, <1>1, <1>2, SalesMove
<1>5. ProgressOK'
  BY <1>0, <1>1 DEF ProgressOK, Busy
<1>6. ChainOK'
  <2>1. ASSUME PaidUp
        PROVE  PaidUp'
    <3>1. PaysOf(form.sale)' = PaysOf(form.sale) /\ PaidFor(form.sale)' = PaidFor(form.sale)
      BY <1>1 DEF PaysOf, PaidFor
    <3>2. form.sale \in DOMAIN sales /\ sales'[form.sale].net = sales[form.sale].net
      BY <1>2, <2>1 DEF PaidUp
    <3>3. sales'[form.sale].status # "DRAFT"
      BY <1>2, <2>1, <3>2 DEF PaidUp
    <3>. QED  BY <1>1, <1>2, <2>1, <3>1, <3>2, <3>3 DEF PaidUp
  <2>2. page = "completeSale" => form.sale # i /\ form.sale \in DOMAIN sales
    BY <1>0, <1>1 DEF ChainOK
  <2>3. Promised(form)' <=> Promised(form)
    BY <1>1 DEF Promised
  <2>. QED  BY <1>0, <1>1, <1>2, <2>1, <2>2, <2>3 DEF ChainOK, Ending, Busy
<1>7. OnceOK'
  BY <1>0, <1>1, <1>2 DEF OnceOK
<1>. QED  BY <1>3, <1>4, <1>5, <1>6, <1>7 DEF CounterInv

LEMMA CounterStarts == CounterInit => CounterInv
<1>. SUFFICES ASSUME CounterInit PROVE CounterInv
  OBVIOUS
<1>1. CartOK
  <2>1. \A k \in Part : retail[k] \in Nat \cup {None}
    BY SaleAssumption DEF CounterInit
  <2>2. retail \in [Part -> Nat \cup {None}]
    BY <2>1 DEF CounterInit
  <2>. QED  BY <2>2 DEF CounterInit, CartOK
<1>2. QuoteOK
  BY DEF CounterInit, QuoteOK
<1>3. ProgressOK
  BY SaleAssumption DEF CounterInit, ProgressOK, Busy, Call
<1>4. sales = <<>> /\ pays = <<>> /\ page = "filling" /\ told = 0
  BY DEF CounterInit
<1>5. RowsOK
  BY <1>4 DEF RowsOK
<1>6. ChainOK
  BY <1>4 DEF ChainOK, Ending, Busy, Call
<1>7. OnceOK
  BY <1>4 DEF OnceOK
<1>. QED  BY <1>1, <1>2, <1>3, <1>5, <1>6, <1>7 DEF CounterInv

LEMMA CounterSteps == CounterInv /\ [CounterNext]_counterVars => CounterInv'
<1>. SUFFICES ASSUME CounterInv, [CounterNext]_counterVars PROVE CounterInv'
  OBVIOUS
<1>1. CASE Fill
  BY <1>1, FillKeeps
<1>2. CASE QuoteArrives
  BY <1>2, QuoteKeeps
<1>3. CASE \E k \in Part : \E n \in Retail[k] : UpsertRetailPrice(k, n)
  BY <1>3, UpsertKeeps
<1>4. CASE \E t \in Terms, price \in Tag, split \in Splits, owed \in {0, 1} :
              Submit(t, price, split, IF kind = "order" THEN owed ELSE 1)
  <2>1. PICK t \in Terms, price \in Tag, split \in Splits, owed \in {0, 1} :
                Submit(t, price, split, IF kind = "order" THEN owed ELSE 1)
    BY <1>4
  <2>. QED  BY <2>1, SubmitKeeps
<1>5. CASE CreateSale
  BY <1>5, CreateSaleKeeps
<1>6. CASE CompleteSale
  BY <1>6, CompleteSaleKeeps
<1>7. CASE CreateSalePayment
  BY <1>7, CreatePaymentKeeps
<1>8. CASE CompletePayment
  BY <1>8, CompletePaymentKeeps
<1>9. CASE CallFails
  BY <1>9, FailKeeps
<1>10. CASE SoldElsewhere
  BY <1>10, ElsewhereKeeps
<1>11. CASE \E i \in DOMAIN sales : AnnulSale(i)
  BY <1>11, AnnulKeeps
<1>12. CASE UNCHANGED counterVars
  <2>1. /\ UNCHANGED <<kind, rights, page, form, tries, told, sales, pays>>
        /\ UNCHANGED <<kind, pageVars, retail>>
    BY <1>12 DEF counterVars
  <2>. QED  BY <2>1, ChainAlone, CartAlone DEF CounterInv
<1>. QED
  BY <1>1, <1>2, <1>3, <1>4, <1>5, <1>6, <1>7, <1>8, <1>9, <1>10, <1>11, <1>12 DEF CounterNext, Served

LEMMA CounterIsInv == CounterSpec => []CounterInv
  BY CounterStarts, CounterSteps, PTL DEF CounterSpec

\* The page, the form and the documents have their shapes at every step of
\* every submission.  (page.tsx of the new sale, SalePrismaRepository)
THEOREM CounterTypeCorrect == CounterSpec => []CounterTypeOK
<1>1. CounterInv => CounterTypeOK
  <2>. SUFFICES ASSUME CounterInv PROVE CounterTypeOK
    OBVIOUS
  <2>0. CartOK /\ QuoteOK /\ ProgressOK /\ RowsOK
    BY DEF CounterInv
  <2>1. cart \in [Good -> Nat] /\ tag \in [Bouquet -> Tag \cup {None}]
    BY <2>0 DEF CartOK
  <2>2. quote = None \/ DOMAIN quote.unit \subseteq Part
    BY <2>0 DEF QuoteOK
  <2>3. page \in Call \cup {"filling", "left"} /\ tries \in 0 .. MaxTries /\ told \in 0 .. tries
    BY <2>0 DEF ProgressOK
  <2>4. \A i \in DOMAIN sales :
          sales[i].net \in Nat /\ sales[i].status \in {"DRAFT", "COMPLETED", "ANNULLED"}
    <3>1. \A i \in DOMAIN sales : sales[i] \in SaleRow
      BY <2>0 DEF RowsOK
    <3>. QED  BY <3>1 DEF SaleRow
  <2>5. \A j \in DOMAIN pays : sales[pays[j].sale].status # "DRAFT" /\ pays[j].amount > 0
    BY <2>0 DEF RowsOK
  <2>. QED  BY <2>1, <2>2, <2>3, <2>4, <2>5 DEF CounterTypeOK
<1>. QED  BY <1>1, CounterIsInv, PTL

\* Whoever leaves the page for the sale's own page leaves it sold and paid,
\* and however often a chain of calls breaks the cart is sold again only after
\* an error, the order once.  (onSubmit, findActiveByOrderId)
THEOREM CounterSoldOnceAndPaid == CounterSpec => []SoldOnceAndPaid
<1>1. CounterInv => LeftMeansSoldAndPaid
  <2>. SUFFICES ASSUME CounterInv, page = "left", "complete" \in rights
                PROVE  /\ sales[form.sale].status \in {"COMPLETED", "ANNULLED"}
                       /\ LET P == {j \in DOMAIN pays : pays[j].sale = form.sale} IN
                          /\ \A j \in P : pays[j].status = "COMPLETED"
                          /\ Cardinality(P) = Len(form.split)
                          /\ \A j \in P : \E n \in DOMAIN form.split : pays[j].amount = form.split[n]
                          /\ PaidFor(form.sale) <= sales[form.sale].net
    BY DEF LeftMeansSoldAndPaid
  <2>1. RowsOK /\ PaidUp /\ form.pay = Len(form.split)
    BY DEF CounterInv, ChainOK, Ending
  <2>2. form.sale \in DOMAIN sales /\ sales[form.sale].status # "DRAFT"
    BY <2>1 DEF PaidUp
  <2>3. sales[form.sale] \in SaleRow
    BY <2>1, <2>2 DEF RowsOK
  <2>4. sales[form.sale].status \in {"COMPLETED", "ANNULLED"}
    BY <2>2, <2>3 DEF SaleRow
  <2>5. \A j \in PaysOf(form.sale) : pays[j].status = "COMPLETED"
    BY <2>1 DEF PaidUp
  <2>. QED  BY <2>1, <2>4, <2>5 DEF PaidUp, PaysOf
<1>2. CounterInv => SoldOnce
  <2>. SUFFICES ASSUME CounterInv PROVE SoldOnce
    OBVIOUS
  <2>0. OnceOK
    BY DEF CounterInv
  <2>1. ASSUME kind = "order"
        PROVE  Cardinality({i \in DOMAIN sales : sales[i].status # "ANNULLED"}) <= 1
    <3>. DEFINE S == {i \in DOMAIN sales : sales[i].status # "ANNULLED"}
    <3>1. \A i, j \in S : i = j
      BY <2>0, <2>1 DEF OnceOK
    <3>. HIDE DEF S
    <3>2. CASE S = {}
      <4>1. Cardinality(S) = 0
        BY <3>2, FS_EmptySet
      <4>. QED  BY <4>1 DEF S
    <3>3. CASE S # {}
      <4>1. PICK i : i \in S
        BY <3>3
      <4>2. S = {i}
        BY <3>1, <4>1
      <4>3. Cardinality(S) = 1
        BY <4>2, FS_Singleton
      <4>. QED  BY <4>3 DEF S
    <3>. QED  BY <3>2, <3>3
  <2>. QED  BY <2>0, <2>1 DEF OnceOK, SoldOnce
<1>. QED  BY <1>1, <1>2, CounterIsInv, PTL DEF SoldOnceAndPaid

\* Whatever cart, prices, discount and adjustment: the price of a sale is the
\* net amount the page showed, up to half a cent for each piece.
\* (onSubmit, buildDirectLines, discountPayloadForSubmit, applyDiscount)
THEOREM AlwaysChargedAsShown == CounterSpec => ChargedAsShown
<1>. DEFINE A == page = "createSale" /\ page' # page /\ sales' # sales =>
        LET net == sales'[Len(sales')].net IN
        /\ form.fresh \/ "discount" \in rights => 2 * (net - form.shown) <= form.units
        /\ form.fresh /\ kind = "direct" /\ form.gross > 0 =>
                2 * (form.shown - net) <= form.units
<1>1. ASSUME CounterInv, [CounterNext]_counterVars
      PROVE  [A]_counterVars
  <2>. SUFFICES ASSUME page = "createSale", page' # page, sales' # sales
                PROVE  A
    OBVIOUS
  <2>1. CounterNext
    BY <1>1 DEF counterVars
  <2>2. CreateSale
    BY <2>1 DEF CounterNext, Fill, SetCustomQty, SetReadyQty, RemoveCustom, SwitchMode, QuoteArrives,
                UpsertRetailPrice, Submit, Served, CompleteSale, CreateSalePayment, CompletePayment,
                CallFails, SoldElsewhere, AnnulSale
  <2>3. RowsOK /\ FormOK(form) /\ Promised(form)
    BY <1>1 DEF CounterInv, ChainOK, Busy, Call
  <2>. DEFINE net == NetOf(form.gross, form.discount)
              x == NewSale(net)
  <2>4. sales' = Append(sales, x)
    BY <2>2 DEF CreateSale
  <2>5. x \in SaleRow /\ x.net = net
    BY <2>3 DEF FormOK, NewSale, NetOf, SaleRow
  <2>. HIDE DEF x
  <2>6. sales'[Len(sales')] = x
    BY <2>3, <2>4, <2>5, Grown
  <2>. QED  BY <2>3, <2>5, <2>6 DEF Promised
<1>2. CounterInv /\ [CounterNext]_counterVars => [A]_counterVars
  BY <1>1
<1>. QED  BY <1>2, CounterIsInv, PTL DEF CounterSpec, ChargedAsShown

=============================================================================
