---------------------------- MODULE SupplyProofs ----------------------------
(***************************************************************************)
(* Proofs about Supply and PostingRace, for any lines, receipts and        *)
(* quantities, items, documents, keys and requests at once.                *)
(*                                                                         *)
(* The bound on what comes in is not inductive by itself.  It needs to     *)
(* know that an editable supply has received nothing, hence that the       *)
(* status tells the truth; that recalculating the status overlooks no      *)
(* line, hence that a line without an order has no receipt items; and that *)
(* posting a receipt adds one checked item per line, hence that a receipt  *)
(* has at most one item per line and none before it exists.                *)
(*                                                                         *)
(* That overlapping posts keep step needs to know what a request has read  *)
(* of a document that others may post meanwhile: it had been posted, or    *)
(* the first item that both move makes the second wait, then fail.  It     *)
(* needs to know where the unit of a received batch is: in the batch, or   *)
(* in the one write-off that is not reversed.  And it needs to know that   *)
(* a request that has counted the receipts counts what will be there.      *)
(***************************************************************************)
EXTENDS SupplyPages, PostingRace, QuantitiesProofs, FiniteSetTheorems, TLAPS

Items == [Line -> Seq(Item)]

\* The rows of a line.
LEMMA Rows ==
    ASSUME NEW I \in Items, NEW l \in Line
    PROVE  /\ Len(I[l]) \in Nat
           /\ DOMAIN I[l] = 1 .. Len(I[l])
           /\ IsFiniteSet(DOMAIN I[l])
           /\ \A k \in DOMAIN I[l] :
                 /\ I[l][k] \in Item
                 /\ I[l][k].accepted \in Nat /\ I[l][k].used \in Nat /\ I[l][k].defective \in Nat
                 /\ I[l][k].receipt \in Receipt
<1>1. I[l] \in Seq(Item)
  BY DEF Items
<1>2. Len(I[l]) \in Nat /\ DOMAIN I[l] = 1 .. Len(I[l]) /\ \A k \in DOMAIN I[l] : I[l][k] \in Item
  BY <1>1
<1>3. IsFiniteSet(1 .. Len(I[l]))
  BY <1>2, FS_Interval
<1>4. \A x \in Item : x.accepted \in Nat /\ x.used \in Nat /\ x.defective \in Nat /\ x.receipt \in Receipt
  BY DEF Item
<1>. QED  BY <1>2, <1>3, <1>4

PostedRows(l, R, I) == Having("POSTED", l, R, I)
Accepted(l, I) == [k \in DOMAIN I[l] |-> I[l][k].accepted]

LEMMA SumIsTotal ==
    ASSUME NEW l, NEW R, NEW I
    PROVE  SumPosted(l, R, I) = TotalOn(Accepted(l, I), PostedRows(l, R, I))
  BY DEF SumPosted, Accepted, PostedRows

LEMMA PostedFinite ==
    ASSUME NEW I \in Items, NEW l \in Line, NEW R
    PROVE  /\ IsFiniteSet(PostedRows(l, R, I))
           /\ \A k \in PostedRows(l, R, I) : k \in DOMAIN I[l] /\ Accepted(l, I)[k] \in Nat
<1>1. PostedRows(l, R, I) \subseteq DOMAIN I[l]
  BY DEF PostedRows, Having
<1>2. \A k \in DOMAIN I[l] : Accepted(l, I)[k] \in Nat
  BY Rows DEF Accepted
<1>. QED  BY <1>1, <1>2, Rows, FS_Subset

LEMMA SumNat ==
    ASSUME NEW I \in Items, NEW l \in Line, NEW R
    PROVE  SumPosted(l, R, I) \in Nat
<1>1. IsFiniteSet(PostedRows(l, R, I)) /\ \A k \in PostedRows(l, R, I) : Accepted(l, I)[k] \in Nat
  BY PostedFinite
<1>2. TotalOn(Accepted(l, I), PostedRows(l, R, I)) \in Nat
  BY <1>1, TotalNat
<1>. QED  BY <1>2, SumIsTotal

\* The sum depends on the posted rows and on what they accepted.
LEMMA SumSame ==
    ASSUME NEW l, NEW R, NEW I, NEW Q, NEW J,
           PostedRows(l, R, I) = PostedRows(l, Q, J),
           \A k \in PostedRows(l, R, I) : I[l][k].accepted = J[l][k].accepted
    PROVE  SumPosted(l, R, I) = SumPosted(l, Q, J)
<1>1. \A k \in PostedRows(l, R, I) : Accepted(l, I)[k] = Accepted(l, J)[k]
  BY DEF Accepted, PostedRows, Having
<1>2. TotalOn(Accepted(l, I), PostedRows(l, R, I)) = TotalOn(Accepted(l, J), PostedRows(l, R, I))
  BY <1>1, TotalSame
<1>. QED  BY <1>2, SumIsTotal

\* With fewer posted rows there is no more.
LEMMA SumFewer ==
    ASSUME NEW I \in Items, NEW l \in Line, NEW R, NEW Q,
           PostedRows(l, Q, I) \subseteq PostedRows(l, R, I)
    PROVE  SumPosted(l, Q, I) <= SumPosted(l, R, I)
<1> DEFINE a == Accepted(l, I)
<1>1. IsFiniteSet(PostedRows(l, R, I)) /\ \A k \in PostedRows(l, R, I) : a[k] \in Nat /\ a[k] \in Nat
  BY PostedFinite
<1>2. \A k \in PostedRows(l, Q, I) : a[k] <= a[k]
  BY <1>1
<1>. HIDE DEF a
<1>3. TotalOn(a, PostedRows(l, Q, I)) <= TotalOn(a, PostedRows(l, R, I))
  BY <1>1, <1>2, TotalMono
<1>. QED  BY <1>3, SumIsTotal DEF a

\* One more posted row adds what it accepted.
LEMMA SumOneMore ==
    ASSUME NEW I \in Items, NEW J \in Items, NEW l \in Line, NEW R, NEW Q, NEW k \in DOMAIN J[l],
           k \notin PostedRows(l, R, I),
           PostedRows(l, Q, J) = PostedRows(l, R, I) \cup {k},
           \A j \in PostedRows(l, R, I) : I[l][j].accepted = J[l][j].accepted
    PROVE  SumPosted(l, Q, J) = SumPosted(l, R, I) + J[l][k].accepted
<1> DEFINE P == PostedRows(l, R, I)
<1> DEFINE a == Accepted(l, J)
<1>1. IsFiniteSet(P)
  BY PostedFinite
<1>2. IsFiniteSet({k}) /\ P \cap {k} = {}
  BY FS_Singleton
<1>3. \A j \in P \cup {k} : a[j] \in Nat
  <2>1. \A j \in PostedRows(l, Q, J) : a[j] \in Nat
    BY PostedFinite
  <2>. QED  BY <2>1
<1>4. a[k] = J[l][k].accepted /\ a[k] \in Nat
  BY <1>3 DEF Accepted
<1>5. \A j \in P : Accepted(l, I)[j] = a[j]
  BY DEF Accepted, PostedRows, Having
<1>. HIDE DEF P, a
<1>6. TotalOn(a, P \cup {k}) = TotalOn(a, P) + TotalOn(a, {k})
  BY <1>1, <1>2, <1>3, TotalSplit
<1>7. TotalOn(a, {k}) = a[k]
  BY <1>4, TotalSingle
<1>8. TotalOn(Accepted(l, I), P) = TotalOn(a, P)
  BY <1>5, TotalSame
<1>9. SumPosted(l, Q, J) = TotalOn(a, P \cup {k}) /\ SumPosted(l, R, I) = TotalOn(Accepted(l, I), P)
  BY SumIsTotal DEF P, a
<1>. QED  BY <1>4, <1>6, <1>7, <1>8, <1>9

\* A single posted row is the sum.
LEMMA SumSingle ==
    ASSUME NEW I \in Items, NEW l \in Line, NEW R, NEW k \in DOMAIN I[l], PostedRows(l, R, I) = {k}
    PROVE  SumPosted(l, R, I) = I[l][k].accepted
<1>1. Accepted(l, I)[k] = I[l][k].accepted /\ Accepted(l, I)[k] \in Nat
  BY Rows DEF Accepted
<1>2. TotalOn(Accepted(l, I), {k}) = Accepted(l, I)[k]
  BY <1>1, TotalSingle
<1>. QED  BY <1>1, <1>2, SumIsTotal

\* Nothing is posted of a line without rows.
LEMMA SumNone ==
    ASSUME NEW l, NEW R, NEW I, I[l] = <<>>
    PROVE  SumPosted(l, R, I) = 0
<1>1. \A k \in PostedRows(l, R, I) : Accepted(l, I)[k] = 0
  BY DEF PostedRows, Having
<1>2. TotalOn(Accepted(l, I), PostedRows(l, R, I)) = 0
  BY <1>1, TotalZero
<1>. QED  BY <1>2, SumIsTotal

\* An item of a line replaced by another.
WithItem(I, l, k, x) == [I EXCEPT ![l] = [I[l] EXCEPT ![k] = x]]

Replaces(J, I, l, k, x) ==
    /\ J \in Items
    /\ J[l][k] = x
    /\ \A m \in Line : DOMAIN J[m] = DOMAIN I[m]
    /\ \A m \in Line : \A j \in DOMAIN I[m] : m # l \/ j # k => J[m][j] = I[m][j]

LEMMA Replaced ==
    ASSUME NEW I \in Items, NEW l \in Line, NEW k \in DOMAIN I[l], NEW x \in Item
    PROVE  Replaces(WithItem(I, l, k, x), I, l, k, x)
<1> DEFINE J == WithItem(I, l, k, x)
<1>1. I[l] \in Seq(Item)
  BY DEF Items
<1>2. [I[l] EXCEPT ![k] = x] \in Seq(Item)
  BY <1>1
<1>3. J = [m \in Line |-> IF m = l THEN [I[l] EXCEPT ![k] = x] ELSE I[m]]
  BY DEF Items, WithItem
<1>4. J \in Items
  BY <1>2, <1>3 DEF Items
<1>5. J[l] = [I[l] EXCEPT ![k] = x] /\ \A m \in Line : m # l => J[m] = I[m]
  BY <1>3
<1>. HIDE DEF J
<1>6. Replaces(J, I, l, k, x)
  BY <1>4, <1>5 DEF Replaces
<1>. QED  BY <1>6 DEF J

\* The lines of L extended by an item each.
WithItems(I, L, y) == [m \in Line |-> IF m \in L THEN Append(I[m], y[m]) ELSE I[m]]

Extends(J, I, L, y) ==
    /\ J \in Items
    /\ \A m \in Line : m \notin L => J[m] = I[m]
    /\ \A m \in L : /\ DOMAIN J[m] = DOMAIN I[m] \cup {Len(I[m]) + 1}
                    /\ Len(I[m]) + 1 \notin DOMAIN I[m]
                    /\ J[m][Len(I[m]) + 1] = y[m]
                    /\ \A j \in DOMAIN I[m] : J[m][j] = I[m][j]

LEMMA Extended ==
    ASSUME NEW I \in Items, NEW L, L \subseteq Line, NEW y \in [Line -> Item]
    PROVE  Extends(WithItems(I, L, y), I, L, y)
<1> DEFINE J == WithItems(I, L, y)
<1>1. \A m \in Line : I[m] \in Seq(Item) /\ Append(I[m], y[m]) \in Seq(Item)
  BY DEF Items
<1>2. J \in Items
  BY <1>1 DEF Items, WithItems
<1>3. ASSUME NEW m \in L
      PROVE  /\ DOMAIN J[m] = DOMAIN I[m] \cup {Len(I[m]) + 1}
             /\ Len(I[m]) + 1 \notin DOMAIN I[m]
             /\ J[m][Len(I[m]) + 1] = y[m]
             /\ \A j \in DOMAIN I[m] : J[m][j] = I[m][j]
  <2>1. J[m] = Append(I[m], y[m]) /\ I[m] \in Seq(Item)
    BY <1>1 DEF WithItems
  <2>. QED  BY <2>1
<1>4. \A m \in Line : m \notin L => J[m] = I[m]
  BY DEF WithItems
<1>. HIDE DEF J
<1>5. Extends(J, I, L, y)
  BY <1>2, <1>3, <1>4 DEF Extends
<1>. QED  BY <1>5 DEF J

-----------------------------------------------------------------------------
(***************************************************************************)
(* Type correctness.                                                       *)
(***************************************************************************)
\* A status that is recalculated is a status.
LEMMA RecalculatedType ==
    ASSUME NEW o, NEW R, NEW I
    PROVE  Recalculated(o, R, I) \in {"SUBMITTED_TO_SUPPLIER", "PARTIALLY_RECEIVED", "RECEIVED"}
  BY DEF Recalculated

LEMMA TypeNext ==
    ASSUME TypeOK, [Next]_vars
    PROVE  TypeOK'
<1>0. Qty \subseteq Nat /\ items \in Items
  BY SupplyAssumption DEF TypeOK, Items
<1>1. CASE CreateSupply
  BY <1>1 DEF CreateSupply, CanCreate, TypeOK, SupplyStatus
<1>2. CASE SubmitSupply
  BY <1>2 DEF SubmitSupply, TypeOK, SupplyStatus
<1>3. CASE AnnulDraftSupply
  BY <1>3 DEF AnnulDraftSupply, TypeOK, SupplyStatus
<1>4. CASE MarkSupplyPaid
  BY <1>4 DEF MarkSupplyPaid, CanMarkPaid, TypeOK
<1>5. ASSUME NEW l \in Line, RemoveSupplyItem(l)
      PROVE  TypeOK'
  BY <1>5 DEF RemoveSupplyItem, CanRemove, TypeOK
<1>6. ASSUME NEW l \in Line, NEW n \in Qty, AddSupplyItem(l, n) \/ UpdateSupplyItem(l, n)
      PROVE  TypeOK'
  BY <1>0, <1>6 DEF AddSupplyItem, CanAdd, UpdateSupplyItem, CanUpdate, TypeOK
<1>7. ASSUME NEW l \in Line, NEW n \in Qty, CorrectPostedItem(l, n)
      PROVE  TypeOK'
  <2>1. PICK k \in DOMAIN items[l] : CanAdjust(items[l][k], n) /\ items' = [items EXCEPT ![l][k].accepted = n]
    BY <1>7 DEF CorrectPostedItem, CanCorrect, Having
  <2>. DEFINE x == [items[l][k] EXCEPT !.accepted = n]
  <2>2. items[l][k] \in Item /\ n \in Nat
    BY <1>0, <2>1, Rows
  <2>3. x \in Item /\ x.used <= x.accepted
    BY <2>1, <2>2 DEF Item, CanAdjust
  <2>4. items' = WithItem(items, l, k, x)
    BY <2>1 DEF WithItem
  <2>. HIDE DEF x
  <2>5. Replaces(items', items, l, k, x)
    BY <1>0, <2>3, <2>4, Replaced
  <2>6. \A m \in Line : \A j \in DOMAIN items'[m] : items'[m][j].used <= items'[m][j].accepted
    BY <2>3, <2>5 DEF TypeOK, Replaces
  <2>7. status' \in SupplyStatus
    BY <1>7, RecalculatedType DEF CorrectPostedItem, CanCorrect, Recalculate, SupplyStatus
  <2>8. ordered' \in [Line -> Nat] /\ corrected' \subseteq Line /\ UNCHANGED <<paid, receipt>>
    BY <1>7, <2>2 DEF CorrectPostedItem, CanCorrect, TypeOK
  <2>. QED  BY <2>5, <2>6, <2>7, <2>8 DEF TypeOK, Items, Replaces
<1>8. ASSUME NEW l \in Line, NEW k \in DOMAIN items[l], Issue(l, k) \/ GiveBack(l, k)
      PROVE  TypeOK'
  <2>1. items[l][k] \in Item /\ items[l][k].used \in Nat /\ items[l][k].accepted \in Nat
        /\ items[l][k].used <= items[l][k].accepted
    BY <1>0, Rows DEF TypeOK
  <2>2. PICK u \in Nat : u <= items[l][k].accepted /\ items' = [items EXCEPT ![l][k].used = u]
    <3>. DEFINE used == items[l][k].used
    <3>1. CASE Issue(l, k)
      <4>1. used + 1 \in Nat /\ used + 1 <= items[l][k].accepted
        BY <2>1, <3>1 DEF Issue
      <4>2. items' = [items EXCEPT ![l][k].used = used + 1]
        BY <3>1 DEF Issue
      <4>. HIDE DEF used
      <4>. QED  BY <4>1, <4>2
    <3>2. CASE GiveBack(l, k)
      <4>1. used - 1 \in Nat /\ used - 1 <= items[l][k].accepted
        BY <2>1, <3>2 DEF GiveBack
      <4>2. items' = [items EXCEPT ![l][k].used = used - 1]
        BY <3>2 DEF GiveBack
      <4>. HIDE DEF used
      <4>. QED  BY <4>1, <4>2
    <3>. QED  BY <1>8, <3>1, <3>2
  <2>. DEFINE x == [items[l][k] EXCEPT !.used = u]
  <2>3. x \in Item /\ x.used <= x.accepted
    BY <2>1, <2>2 DEF Item
  <2>4. items' = WithItem(items, l, k, x)
    BY <2>2 DEF WithItem
  <2>. HIDE DEF x
  <2>5. Replaces(items', items, l, k, x)
    BY <1>0, <2>3, <2>4, Replaced
  <2>6. \A m \in Line : \A j \in DOMAIN items'[m] : items'[m][j].used <= items'[m][j].accepted
    BY <2>3, <2>5 DEF TypeOK, Replaces
  <2>7. UNCHANGED <<status, paid, ordered, receipt, corrected>>
    BY <1>8 DEF Issue, GiveBack
  <2>. QED  BY <2>5, <2>6, <2>7 DEF TypeOK, Items, Replaces
<1>9. ASSUME NEW g \in Receipt, CreateGoodsReceipt(g)
      PROVE  TypeOK'
  BY <1>9 DEF CreateGoodsReceipt, TypeOK, ReceiptStatus
<1>10. ASSUME NEW g \in Receipt, NEW l \in Line, NEW a \in Qty, NEW d \in Qty, AddGoodsReceiptItem(g, l, a, d)
       PROVE  TypeOK'
  <2>. DEFINE y == [m \in Line |-> NewItem(g, a, d)]
  <2>1. y \in [Line -> Item] /\ \A m \in Line : y[m].used <= y[m].accepted
    BY <1>0 DEF NewItem, Item
  <2>2. items' = WithItems(items, {l}, y)
    BY <1>0, <1>10 DEF AddGoodsReceiptItem, CanAddItem, Items, WithItems
  <2>. HIDE DEF y
  <2>3. Extends(items', items, {l}, y)
    BY <1>0, <2>1, <2>2, Extended
  <2>4. \A m \in Line : \A j \in DOMAIN items'[m] : items'[m][j].used <= items'[m][j].accepted
    BY <1>0, <2>1, <2>3, Rows DEF TypeOK, Extends
  <2>5. UNCHANGED <<status, paid, ordered, receipt, corrected>>
    BY <1>10 DEF AddGoodsReceiptItem, CanAddItem
  <2>. QED  BY <2>3, <2>4, <2>5 DEF TypeOK, Items, Extends
<1>11. ASSUME NEW g \in Receipt, PostGoodsReceipt(g) \/ ReverseGoodsReceipt(g)
       PROVE  TypeOK'
  <2>1. status' \in SupplyStatus
    BY <1>11, RecalculatedType DEF PostGoodsReceipt, CanPost, ReverseGoodsReceipt, Recalculate, SupplyStatus
  <2>2. receipt' \in [Receipt -> ReceiptStatus] /\ UNCHANGED <<paid, ordered, items, corrected>>
    BY <1>11 DEF PostGoodsReceipt, CanPost, ReverseGoodsReceipt, TypeOK, ReceiptStatus
  <2>. QED  BY <2>1, <2>2 DEF TypeOK
<1>12. ASSUME NEW g \in Receipt, ReceiveFromSupply(g)
       PROVE  TypeOK'
  <2>. DEFINE y == [m \in Line |-> NewItem(g, ordered[m], 0)]
  <2>1. y \in [Line -> Item] /\ \A m \in Line : y[m].used <= y[m].accepted
    BY DEF NewItem, Item, TypeOK
  <2>2. items' = WithItems(items, Lines, y)
    BY <1>12 DEF ReceiveFromSupply, CanReceive, WithItems
  <2>3. Lines \subseteq Line
    BY DEF Lines
  <2>. HIDE DEF y
  <2>4. Extends(items', items, Lines, y)
    BY <1>0, <2>1, <2>2, <2>3, Extended
  <2>5. \A m \in Line : \A j \in DOMAIN items'[m] : items'[m][j].used <= items'[m][j].accepted
    <3>1. ASSUME NEW m \in Line, m \notin Lines
          PROVE  \A j \in DOMAIN items'[m] : items'[m][j].used <= items'[m][j].accepted
      BY <2>4, <3>1 DEF TypeOK, Extends
    <3>2. ASSUME NEW m \in Lines
          PROVE  \A j \in DOMAIN items'[m] : items'[m][j].used <= items'[m][j].accepted
      <4>1. m \in Line
        BY <2>3
      <4>2. /\ DOMAIN items'[m] = DOMAIN items[m] \cup {Len(items[m]) + 1}
            /\ items'[m][Len(items[m]) + 1] = y[m]
            /\ \A j \in DOMAIN items[m] : items'[m][j] = items[m][j]
        BY <2>4 DEF Extends
      <4>. QED  BY <2>1, <4>1, <4>2 DEF TypeOK
    <3>. QED  BY <3>1, <3>2
  <2>6. status' \in SupplyStatus
    BY <1>12, RecalculatedType DEF ReceiveFromSupply, CanReceive, Recalculate, SupplyStatus
  <2>7. receipt' \in [Receipt -> ReceiptStatus] /\ UNCHANGED <<paid, ordered, corrected>>
    BY <1>12 DEF ReceiveFromSupply, CanReceive, TypeOK, ReceiptStatus
  <2>. QED  BY <2>4, <2>5, <2>6, <2>7 DEF TypeOK, Items, Extends
<1>13. CASE UNCHANGED vars
  BY <1>13 DEF vars, TypeOK
<1>. QED
  BY <1>1, <1>2, <1>3, <1>4, <1>5, <1>6, <1>7, <1>8, <1>9, <1>10, <1>11, <1>12, <1>13 DEF Next

LEMMA TypeInit == Init => TypeOK
<1>. SUFFICES ASSUME Init PROVE TypeOK
  OBVIOUS
<1>1. <<>> \in Seq(Item)
  OBVIOUS
<1>2. items \in [Line -> Seq(Item)] /\ \A l \in Line : DOMAIN items[l] = {}
  BY <1>1 DEF Init
<1>3. ordered \in [Line -> Nat] /\ receipt \in [Receipt -> ReceiptStatus]
  BY DEF Init, ReceiptStatus
<1>4. status \in SupplyStatus /\ paid \in BOOLEAN /\ corrected \subseteq Line
  BY DEF Init, SupplyStatus
<1>. QED  BY <1>2, <1>3, <1>4 DEF TypeOK

\* A supply's records have their types, and no batch gives more than it holds,
\* whatever is issued, returned and corrected.
THEOREM TypeCorrect == Spec => []TypeOK
  BY TypeInit, TypeNext, PTL DEF Spec

-----------------------------------------------------------------------------
(***************************************************************************)
(* What is counted.                                                        *)
(***************************************************************************)
\* Items belong to receipts that exist.
ReceiptsFirst == \A l \in Line : \A k \in DOMAIN items[l] : receipt[items[l][k].receipt] # "NONE"

\* A receipt has one item per line.
OnePerReceipt ==
    \A l \in Line : \A j, k \in DOMAIN items[l] : items[l][j].receipt = items[l][k].receipt => j = k

\* A line without an order has no items.
OrderedFirst == \A l \in Line : ordered[l] = 0 => items[l] = <<>>

Structure == ReceiptsFirst /\ OnePerReceipt /\ OrderedFirst

\* The inductive invariant.
IInv == TypeOK /\ Structure /\ StatusTellsTruth /\ AnnulledHasNoStock /\ WithinOrder

\* The same records in different states, item by item, but for what is used.
SameBooks ==
    /\ \A l \in Line : DOMAIN items'[l] = DOMAIN items[l]
    /\ \A l \in Line : \A k \in DOMAIN items[l] :
          /\ items'[l][k].receipt = items[l][k].receipt
          /\ items'[l][k].accepted = items[l][k].accepted

\* A step that leaves the books alone leaves the sums alone.
LEMMA SameSums ==
    ASSUME TypeOK, SameBooks, UNCHANGED receipt
    PROVE  \A l \in Line : Usable(l)' = Usable(l)
<1>. SUFFICES ASSUME NEW l \in Line
              PROVE  SumPosted(l, receipt', items') = SumPosted(l, receipt, items)
  BY DEF Usable
<1>1. PostedRows(l, receipt, items) = PostedRows(l, receipt', items')
  BY DEF PostedRows, Having, SameBooks
<1>2. \A k \in PostedRows(l, receipt, items) : items[l][k].accepted = items'[l][k].accepted
  BY DEF PostedRows, Having, SameBooks
<1>. QED  BY <1>1, <1>2, SumSame

\* A recalculated status overlooks nothing.
LEMMA RecalculateTells ==
    ASSUME TypeOK', OrderedFirst', Recalculate
    PROVE  StatusTellsTruth' /\ AnnulledHasNoStock'
<1>. DEFINE u(l) == SumPosted(l, receipt', items')
<1>1. items' \in Items /\ ordered' \in [Line -> Nat]
  BY DEF TypeOK, Items
<1>2. \A l \in Line : u(l) \in Nat
  BY <1>1, SumNat
<1>3. \A l \in Line : ordered'[l] = 0 => u(l) = 0
  BY SumNone DEF OrderedFirst
<1>. DEFINE L == {l \in Line : ordered'[l] > 0}
<1>4. status' = IF \A l \in L : u(l) = 0 THEN "SUBMITTED_TO_SUPPLIER"
                ELSE IF \A l \in L : u(l) >= ordered'[l] THEN "RECEIVED"
                ELSE "PARTIALLY_RECEIVED"
  BY DEF Recalculate, Recalculated, Credited
<1>5. /\ \A l \in Line : Usable(l)' = u(l)
      /\ Lines' = L
  BY DEF Usable, Lines
<1>6. \A l \in Line : l \notin L => u(l) = 0
  BY <1>1, <1>3
<1>. HIDE DEF u
<1>7. CASE \A l \in L : u(l) = 0
  BY <1>4, <1>5, <1>6, <1>7 DEF StatusTellsTruth, AnnulledHasNoStock
<1>8. CASE (\E l \in L : u(l) # 0) /\ \A l \in L : u(l) >= ordered'[l]
  BY <1>4, <1>5, <1>8 DEF StatusTellsTruth, AnnulledHasNoStock
<1>9. CASE (\E l \in L : u(l) # 0) /\ \E l \in L : ~(u(l) >= ordered'[l])
  <2>1. status' = "PARTIALLY_RECEIVED"
    BY <1>4, <1>9
  <2>2. PICK l \in L : u(l) # 0
    BY <1>9
  <2>3. PICK m \in L : ~(u(m) >= ordered'[m])
    BY <1>9
  <2>4. u(l) > 0 /\ u(m) < ordered'[m]
    BY <1>1, <1>2, <2>2, <2>3
  <2>. QED  BY <1>5, <2>1, <2>2, <2>3, <2>4 DEF StatusTellsTruth, AnnulledHasNoStock
<1>. QED  BY <1>7, <1>8, <1>9

\* Nothing has come in of a supply that is open or annulled.
LEMMA OpenIsEmpty ==
    ASSUME IInv, status \in {"NONE", "DRAFT", "SUBMITTED_TO_SUPPLIER", "ANNULLED"}
    PROVE  \A l \in Line : Usable(l) = 0
  BY DEF IInv, StatusTellsTruth, AnnulledHasNoStock

-----------------------------------------------------------------------------
(***************************************************************************)
(* The steps.                                                              *)
(***************************************************************************)
\* The supply is edited while it is open.
LEMMA EditKeeps ==
    ASSUME IInv, TypeOK', NEW l \in Line,
           RemoveSupplyItem(l) \/ \E n \in Qty : AddSupplyItem(l, n) \/ UpdateSupplyItem(l, n)
    PROVE  IInv'
<1>1. /\ UNCHANGED <<status, receipt, items, corrected>>
      /\ status \in {"DRAFT", "SUBMITTED_TO_SUPPLIER"}
      /\ TypeOK
  BY DEF AddSupplyItem, CanAdd, UpdateSupplyItem, CanUpdate, RemoveSupplyItem, CanRemove, IsOpen, IInv
<1>2. \A m \in Line : Usable(m)' = 0
  <2>1. \A m \in Line : Usable(m)' = Usable(m)
    BY <1>1 DEF Usable
  <2>2. \A m \in Line : Usable(m) = 0
    BY <1>1, OpenIsEmpty
  <2>. QED  BY <2>1, <2>2
<1>3. StatusTellsTruth' /\ AnnulledHasNoStock'
  BY <1>1, <1>2 DEF StatusTellsTruth, AnnulledHasNoStock
<1>4. WithinOrder'
  BY <1>2 DEF WithinOrder, TypeOK
<1>5. OrderedFirst'
  <2>1. CASE \E n \in Qty : AddSupplyItem(l, n) \/ UpdateSupplyItem(l, n)
    <3>1. PICK n \in Qty : ordered' = [ordered EXCEPT ![l] = n] /\ n > 0
      BY <2>1 DEF AddSupplyItem, CanAdd, UpdateSupplyItem, CanUpdate
    <3>. QED  BY <1>1, <3>1, SupplyAssumption DEF IInv, Structure, OrderedFirst, TypeOK
  <2>2. CASE RemoveSupplyItem(l)
    BY <1>1, <2>2 DEF RemoveSupplyItem, CanRemove, IInv, Structure, OrderedFirst, TypeOK
  <2>. QED  BY <2>1, <2>2
<1>6. ReceiptsFirst' /\ OnePerReceipt'
  BY <1>1 DEF IInv, Structure, ReceiptsFirst, OnePerReceipt
<1>. QED  BY <1>3, <1>4, <1>5, <1>6 DEF IInv, Structure

\* The status changes, and what came in does not.
LEMMA MarkKeeps ==
    ASSUME IInv, TypeOK', CreateSupply \/ SubmitSupply \/ AnnulDraftSupply \/ MarkSupplyPaid \/ UNCHANGED vars
    PROVE  IInv'
<1>1. UNCHANGED <<ordered, receipt, items, corrected>>
  BY DEF CreateSupply, CanCreate, SubmitSupply, AnnulDraftSupply, MarkSupplyPaid, CanMarkPaid, vars
<1>2. \A m \in Line : Usable(m)' = Usable(m)
  BY <1>1 DEF Usable
<1>3. Structure' /\ WithinOrder'
  BY <1>1, <1>2 DEF IInv, Structure, ReceiptsFirst, OnePerReceipt, OrderedFirst, WithinOrder
<1>4. UNCHANGED status \/ CreateSupply \/ SubmitSupply \/ AnnulDraftSupply
  BY DEF MarkSupplyPaid, CanMarkPaid, vars
<1>5. StatusTellsTruth' /\ AnnulledHasNoStock'
  <2>1. CASE UNCHANGED status
    BY <1>1, <1>2, <2>1 DEF IInv, StatusTellsTruth, AnnulledHasNoStock, Lines
  <2>2. CASE CreateSupply \/ SubmitSupply \/ AnnulDraftSupply
    <3>1. /\ status \in {"NONE", "DRAFT", "SUBMITTED_TO_SUPPLIER", "ANNULLED"}
          /\ status' \in {"DRAFT", "SUBMITTED_TO_SUPPLIER", "ANNULLED"}
      BY <2>2 DEF CreateSupply, CanCreate, SubmitSupply, AnnulDraftSupply, IsOpen, CanAnnul
    <3>2. \A m \in Line : Usable(m)' = 0
      BY <1>2, <3>1, OpenIsEmpty
    <3>. QED  BY <3>1, <3>2 DEF StatusTellsTruth, AnnulledHasNoStock
  <2>. QED  BY <1>4, <2>1, <2>2
<1>. QED  BY <1>3, <1>5 DEF IInv

\* The goods are used up or given back.
LEMMA UseKeeps ==
    ASSUME IInv, TypeOK', NEW l \in Line, NEW k \in DOMAIN items[l], Issue(l, k) \/ GiveBack(l, k)
    PROVE  IInv'
<1>1. UNCHANGED <<status, paid, ordered, receipt, corrected>>
  BY DEF Issue, GiveBack
<1>2. PICK u : items' = [items EXCEPT ![l][k].used = u]
  BY DEF Issue, GiveBack
<1>3. TypeOK /\ items[l][k] \in Item
  BY DEF IInv, TypeOK
<1>4. SameBooks
  BY <1>2, <1>3 DEF SameBooks, TypeOK, Item
<1>5. \A m \in Line : Usable(m)' = Usable(m)
  BY <1>1, <1>3, <1>4, SameSums
<1>6. StatusTellsTruth' /\ AnnulledHasNoStock' /\ WithinOrder'
  BY <1>1, <1>5 DEF IInv, StatusTellsTruth, AnnulledHasNoStock, WithinOrder, Lines
<1>7. ReceiptsFirst' /\ OnePerReceipt'
  BY <1>1, <1>4 DEF IInv, Structure, ReceiptsFirst, OnePerReceipt, SameBooks
<1>8. OrderedFirst'
  BY <1>1, <1>2, <1>3 DEF IInv, Structure, OrderedFirst, TypeOK
<1>. QED  BY <1>6, <1>7, <1>8 DEF IInv, Structure

\* A receipt is created.
LEMMA CreateKeeps ==
    ASSUME IInv, TypeOK', NEW g \in Receipt, CreateGoodsReceipt(g)
    PROVE  IInv'
<1>1. /\ UNCHANGED <<status, ordered, items, corrected>>
      /\ receipt[g] = "NONE"
      /\ receipt' = [receipt EXCEPT ![g] = "DRAFT"]
      /\ TypeOK
  BY DEF CreateGoodsReceipt, IInv
<1>2. ASSUME NEW l \in Line
      PROVE  Usable(l)' = Usable(l)
  <2>1. \A k \in DOMAIN items[l] : items[l][k].receipt # g
    BY <1>1 DEF IInv, Structure, ReceiptsFirst
  <2>2. \A k \in DOMAIN items[l] : receipt'[items[l][k].receipt] = receipt[items[l][k].receipt]
    BY <1>1, <2>1 DEF TypeOK
  <2>3. PostedRows(l, receipt, items) = PostedRows(l, receipt', items')
    BY <1>1, <2>2 DEF PostedRows, Having
  <2>4. \A k \in PostedRows(l, receipt, items) : items[l][k].accepted = items'[l][k].accepted
    BY <1>1
  <2>5. SumPosted(l, receipt, items) = SumPosted(l, receipt', items')
    BY <2>3, <2>4, SumSame
  <2>. QED  BY <2>5 DEF Usable
<1>3. StatusTellsTruth' /\ AnnulledHasNoStock' /\ WithinOrder'
  BY <1>1, <1>2 DEF IInv, StatusTellsTruth, AnnulledHasNoStock, WithinOrder, Lines
<1>4. Structure'
  BY <1>1 DEF IInv, Structure, ReceiptsFirst, OnePerReceipt, OrderedFirst, TypeOK
<1>. QED  BY <1>3, <1>4 DEF IInv

\* An item is added to a draft.
LEMMA AddKeeps ==
    ASSUME IInv, TypeOK', NEW g \in Receipt, NEW l \in Line, NEW a \in Qty, NEW d \in Qty,
           AddGoodsReceiptItem(g, l, a, d)
    PROVE  IInv'
<1>1. /\ UNCHANGED <<status, ordered, receipt, corrected>>
      /\ receipt[g] = "DRAFT"
      /\ l \in Lines
      /\ \A k \in DOMAIN items[l] : items[l][k].receipt # g
      /\ TypeOK /\ items \in Items
  BY DEF AddGoodsReceiptItem, CanAddItem, IInv, TypeOK, Items
<1>. DEFINE y == [m \in Line |-> NewItem(g, a, d)]
<1>2. y \in [Line -> Item] /\ \A m \in Line : y[m].receipt = g
  BY SupplyAssumption DEF NewItem, Item
<1>3. items' = WithItems(items, {l}, y)
  BY <1>1 DEF AddGoodsReceiptItem, CanAddItem, Items, WithItems
<1>. HIDE DEF y
<1>4. Extends(items', items, {l}, y)
  BY <1>1, <1>2, <1>3, Extended
<1>5. /\ \A m \in Line : m # l => items'[m] = items[m]
      /\ DOMAIN items'[l] = DOMAIN items[l] \cup {Len(items[l]) + 1}
      /\ items'[l][Len(items[l]) + 1].receipt = g
      /\ \A j \in DOMAIN items[l] : items'[l][j] = items[l][j]
  BY <1>2, <1>4 DEF Extends
<1>6. ASSUME NEW m \in Line
      PROVE  Usable(m)' = Usable(m)
  <2>1. PostedRows(m, receipt, items) = PostedRows(m, receipt', items')
    BY <1>1, <1>5 DEF PostedRows, Having
  <2>2. \A k \in PostedRows(m, receipt, items) : items[m][k].accepted = items'[m][k].accepted
    BY <1>5 DEF PostedRows, Having
  <2>3. SumPosted(m, receipt, items) = SumPosted(m, receipt', items')
    BY <2>1, <2>2, SumSame
  <2>. QED  BY <2>3 DEF Usable
<1>7. StatusTellsTruth' /\ AnnulledHasNoStock' /\ WithinOrder'
  BY <1>1, <1>6 DEF IInv, StatusTellsTruth, AnnulledHasNoStock, WithinOrder, Lines
<1>8. ReceiptsFirst'
  BY <1>1, <1>5 DEF IInv, Structure, ReceiptsFirst
<1>9. OnePerReceipt'
  BY <1>1, <1>5 DEF IInv, Structure, OnePerReceipt
<1>10. OrderedFirst'
  BY <1>1, <1>5 DEF IInv, Structure, OrderedFirst, Lines
<1>. QED  BY <1>7, <1>8, <1>9, <1>10 DEF IInv, Structure

\* A receipt is reversed.
LEMMA ReverseKeeps ==
    ASSUME IInv, TypeOK', NEW g \in Receipt, ReverseGoodsReceipt(g)
    PROVE  IInv'
<1>1. /\ UNCHANGED <<ordered, items, corrected>>
      /\ receipt' = [receipt EXCEPT ![g] = "REVERSED"]
      /\ Recalculate
      /\ TypeOK /\ items \in Items
  BY DEF ReverseGoodsReceipt, IInv, TypeOK, Items
<1>2. ASSUME NEW l \in Line
      PROVE  Usable(l)' <= Usable(l) /\ Usable(l)' \in Nat /\ Usable(l) \in Nat
  <2>1. PostedRows(l, receipt', items) \subseteq PostedRows(l, receipt, items)
    BY <1>1 DEF PostedRows, Having, TypeOK
  <2>2. SumPosted(l, receipt', items) <= SumPosted(l, receipt, items)
    BY <1>1, <2>1, SumFewer
  <2>3. SumPosted(l, receipt', items) \in Nat /\ SumPosted(l, receipt, items) \in Nat
    BY <1>1, SumNat
  <2>. QED  BY <1>1, <2>2, <2>3 DEF Usable
<1>3. WithinOrder'
  <2>1. \A l \in Line : ordered[l] \in Nat
    BY <1>1 DEF TypeOK
  <2>. QED  BY <1>1, <1>2, <2>1 DEF IInv, WithinOrder
<1>4. Structure'
  BY <1>1 DEF IInv, Structure, ReceiptsFirst, OnePerReceipt, OrderedFirst, TypeOK
<1>5. StatusTellsTruth' /\ AnnulledHasNoStock'
  BY <1>1, <1>4, RecalculateTells DEF Structure
<1>. QED  BY <1>3, <1>4, <1>5 DEF IInv

\* A receipt is posted: each of its items was checked against the order.
LEMMA PostKeeps ==
    ASSUME IInv, TypeOK', NEW g \in Receipt, PostGoodsReceipt(g)
    PROVE  IInv'
<1>1. /\ UNCHANGED <<ordered, items, corrected>>
      /\ receipt[g] = "DRAFT"
      /\ receipt' = [receipt EXCEPT ![g] = "POSTED"]
      /\ Recalculate
      /\ TypeOK /\ items \in Items
  BY DEF PostGoodsReceipt, CanPost, IInv, TypeOK, Items
<1>2. ASSUME NEW l \in Line, NEW k \in DOMAIN items[l], items[l][k].receipt = g
      PROVE  Usable(l)' <= ordered[l]
  <2>1. <<l, k>> \in ItemsOf(g)
    BY <1>2 DEF ItemsOf
  <2>2. FitsOrder(l, Received(items[l][k]))
    BY <2>1 DEF PostGoodsReceipt, CanPost
  <2>3. /\ items[l][k].accepted \in Nat
        /\ items[l][k].defective \in Nat
        /\ ordered[l] \in Nat
        /\ SumPosted(l, receipt, items) \in Nat
    BY <1>1, Rows, SumNat DEF TypeOK
  <2>4. SumPosted(l, receipt, items) + items[l][k].accepted <= ordered[l]
    BY <2>2, <2>3 DEF FitsOrder, Received
  <2>5. \A j \in DOMAIN items[l] : items[l][j].receipt = g => j = k
    BY <1>2 DEF IInv, Structure, OnePerReceipt
  <2>6. k \notin PostedRows(l, receipt, items)
    BY <1>1, <1>2 DEF PostedRows, Having
  <2>7. PostedRows(l, receipt', items) = PostedRows(l, receipt, items) \cup {k}
    BY <1>1, <1>2, <2>5, Rows DEF PostedRows, Having, TypeOK
  <2>8. SumPosted(l, receipt', items) = SumPosted(l, receipt, items) + items[l][k].accepted
    <3>1. \A j \in PostedRows(l, receipt, items) : items[l][j].accepted = items[l][j].accepted
      OBVIOUS
    <3>2. items \in Items /\ k \in DOMAIN items[l]
      BY <1>1, <1>2
    <3>. QED  BY <2>6, <2>7, <3>1, <3>2, SumOneMore
  <2>. QED  BY <1>1, <2>4, <2>8 DEF Usable
<1>3. ASSUME NEW l \in Line, \A k \in DOMAIN items[l] : items[l][k].receipt # g
      PROVE  Usable(l)' = Usable(l)
  <2>1. PostedRows(l, receipt, items) = PostedRows(l, receipt', items)
    BY <1>1, <1>3, Rows DEF PostedRows, Having, TypeOK
  <2>2. SumPosted(l, receipt, items) = SumPosted(l, receipt', items)
    BY <2>1, SumSame
  <2>. QED  BY <1>1, <2>2 DEF Usable
<1>4. WithinOrder'
  BY <1>1, <1>2, <1>3 DEF IInv, WithinOrder
<1>5. Structure'
  BY <1>1 DEF IInv, Structure, ReceiptsFirst, OnePerReceipt, OrderedFirst, TypeOK
<1>6. StatusTellsTruth' /\ AnnulledHasNoStock'
  BY <1>1, <1>5, RecalculateTells DEF Structure
<1>. QED  BY <1>4, <1>5, <1>6 DEF IInv

\* Everything ordered is received at once.
LEMMA ReceiveKeeps ==
    ASSUME IInv, TypeOK', NEW g \in Receipt, ReceiveFromSupply(g)
    PROVE  IInv'
<1>1. /\ UNCHANGED <<ordered, corrected>>
      /\ receipt[g] = "NONE"
      /\ receipt' = [receipt EXCEPT ![g] = "POSTED"]
      /\ \A l \in Lines : FitsOrder(l, ordered[l])
      /\ Recalculate
      /\ TypeOK /\ items \in Items
  BY DEF ReceiveFromSupply, CanReceive, IInv, TypeOK, Items
<1>. DEFINE y == [m \in Line |-> NewItem(g, ordered[m], 0)]
<1>2. /\ y \in [Line -> Item]
      /\ \A m \in Line : y[m].receipt = g /\ y[m].accepted = ordered[m] /\ ordered[m] \in Nat
  BY <1>1 DEF NewItem, Item, TypeOK
<1>3. items' = WithItems(items, Lines, y)
  BY DEF ReceiveFromSupply, CanReceive, WithItems
<1>4. Lines \subseteq Line
  BY DEF Lines
<1>. HIDE DEF y
<1>5. Extends(items', items, Lines, y)
  BY <1>1, <1>2, <1>3, <1>4, Extended
<1>6. items' \in Items /\ \A m \in Line : m \notin Lines => items'[m] = items[m]
  BY <1>5 DEF Extends
<1>7. ASSUME NEW m \in Lines
      PROVE  /\ m \in Line
             /\ DOMAIN items'[m] = DOMAIN items[m] \cup {Len(items[m]) + 1}
             /\ Len(items[m]) + 1 \notin DOMAIN items[m]
             /\ items'[m][Len(items[m]) + 1].receipt = g
             /\ items'[m][Len(items[m]) + 1].accepted = ordered[m]
             /\ \A j \in DOMAIN items[m] : items'[m][j] = items[m][j]
  BY <1>2, <1>4, <1>5 DEF Extends
<1>8. ASSUME NEW m \in Line
      PROVE  \A k \in DOMAIN items[m] : /\ items[m][k].receipt # g
                                        /\ receipt'[items[m][k].receipt] = receipt[items[m][k].receipt]
  BY <1>1, Rows DEF IInv, Structure, ReceiptsFirst, TypeOK
<1>9. ASSUME NEW m \in Lines
      PROVE  Usable(m)' <= ordered[m]
  <2>. DEFINE k == Len(items[m]) + 1
  <2>1. k \in DOMAIN items'[m] /\ k \notin DOMAIN items[m] /\ DOMAIN items'[m] = DOMAIN items[m] \cup {k}
    BY <1>7
  <2>2. items'[m][k].receipt = g /\ items'[m][k].accepted = ordered[m]
        /\ \A j \in DOMAIN items[m] : items'[m][j] = items[m][j]
    BY <1>7
  <2>. HIDE DEF k
  <2>3. k \notin PostedRows(m, receipt, items)
    BY <2>1 DEF PostedRows, Having
  <2>4. PostedRows(m, receipt', items') = PostedRows(m, receipt, items) \cup {k}
    BY <1>1, <1>7, <1>8, <2>1, <2>2 DEF PostedRows, Having, TypeOK
  <2>5. \A j \in PostedRows(m, receipt, items) : items[m][j].accepted = items'[m][j].accepted
    BY <2>2 DEF PostedRows, Having
  <2>6. SumPosted(m, receipt', items') = SumPosted(m, receipt, items) + items'[m][k].accepted
    <3>1. items \in Items /\ items' \in Items /\ m \in Line
      BY <1>1, <1>6, <1>7
    <3>. QED  BY <2>1, <2>3, <2>4, <2>5, <3>1, SumOneMore
  <2>7. SumPosted(m, receipt, items) + ordered[m] <= ordered[m]
    BY <1>1 DEF FitsOrder
  <2>. QED  BY <2>2, <2>6, <2>7 DEF Usable
<1>10. ASSUME NEW m \in Line, m \notin Lines
       PROVE  Usable(m)' = Usable(m)
  <2>1. PostedRows(m, receipt, items) = PostedRows(m, receipt', items')
    BY <1>6, <1>8, <1>10 DEF PostedRows, Having
  <2>2. \A j \in PostedRows(m, receipt, items) : items[m][j].accepted = items'[m][j].accepted
    BY <1>6, <1>10
  <2>3. SumPosted(m, receipt, items) = SumPosted(m, receipt', items')
    BY <2>1, <2>2, SumSame
  <2>. QED  BY <2>3 DEF Usable
<1>11. WithinOrder'
  BY <1>1, <1>9, <1>10 DEF IInv, WithinOrder
<1>12. ReceiptsFirst'
  <2>1. receipt'[g] # "NONE"
    BY <1>1 DEF TypeOK
  <2>. QED  BY <1>6, <1>7, <1>8, <2>1 DEF IInv, Structure, ReceiptsFirst
<1>13. OnePerReceipt'
  <2>1. ASSUME NEW m \in Line, m \notin Lines
        PROVE  \A i, j \in DOMAIN items'[m] : items'[m][i].receipt = items'[m][j].receipt => i = j
    BY <1>6, <2>1 DEF IInv, Structure, OnePerReceipt
  <2>2. ASSUME NEW m \in Lines
        PROVE  \A i, j \in DOMAIN items'[m] : items'[m][i].receipt = items'[m][j].receipt => i = j
    BY <1>7, <1>8 DEF IInv, Structure, OnePerReceipt
  <2>. QED  BY <2>1, <2>2 DEF OnePerReceipt
<1>14. OrderedFirst'
  BY <1>1, <1>2, <1>6 DEF IInv, Structure, OrderedFirst, Lines
<1>15. StatusTellsTruth' /\ AnnulledHasNoStock'
  BY <1>1, <1>14, RecalculateTells
<1>. QED  BY <1>11, <1>12, <1>13, <1>14, <1>15 DEF IInv, Structure

\* The newest posted item of a line is corrected.
LEMMA CorrectKeeps ==
    ASSUME IInv, TypeOK', NEW l \in Line, NEW n \in Qty, CorrectPostedItem(l, n)
    PROVE  IInv'
<1>. DEFINE P == PostedRows(l, receipt, items)
<1>1. /\ UNCHANGED receipt
      /\ n \in Nat /\ n > 0
      /\ ordered' = [ordered EXCEPT ![l] = n]
      /\ corrected' = IF Cardinality(P) > 1 THEN corrected \cup {l} ELSE corrected
      /\ Recalculate
      /\ TypeOK /\ items \in Items
  BY SupplyAssumption DEF CorrectPostedItem, CanCorrect, IInv, TypeOK, Items, PostedRows
<1>2. PICK k \in P : items' = [items EXCEPT ![l][k].accepted = n]
  BY DEF CorrectPostedItem, CanCorrect, PostedRows
<1>3. P \subseteq DOMAIN items[l] /\ k \in DOMAIN items[l] /\ IsFiniteSet(P)
  BY <1>1, <1>2, PostedFinite DEF PostedRows, Having
<1>. DEFINE x == [items[l][k] EXCEPT !.accepted = n]
<1>4. items[l][k] \in Item
  BY <1>1, <1>3, Rows
<1>5. x \in Item /\ x.receipt = items[l][k].receipt /\ x.accepted = n
  BY <1>1, <1>4 DEF Item
<1>6. items' = WithItem(items, l, k, x)
  BY <1>2 DEF WithItem
<1>. HIDE DEF x
<1>7. Replaces(items', items, l, k, x)
  BY <1>1, <1>3, <1>5, <1>6, Replaced
<1>8. /\ items' \in Items
      /\ \A m \in Line : DOMAIN items'[m] = DOMAIN items[m]
      /\ items'[l][k].receipt = items[l][k].receipt
      /\ items'[l][k].accepted = n
      /\ \A m \in Line : \A j \in DOMAIN items[m] : m # l \/ j # k => items'[m][j] = items[m][j]
  BY <1>5, <1>7 DEF Replaces
<1>9. \A m \in Line : \A j \in DOMAIN items[m] : items'[m][j].receipt = items[m][j].receipt
  BY <1>8
<1>10. ASSUME NEW m \in Line
       PROVE  PostedRows(m, receipt', items') = PostedRows(m, receipt, items)
  BY <1>1, <1>8, <1>9 DEF PostedRows, Having
<1>11. ASSUME NEW m \in Line, m # l
       PROVE  Usable(m)' = Usable(m)
  <2>1. PostedRows(m, receipt, items) = PostedRows(m, receipt', items')
    BY <1>10
  <2>2. \A j \in PostedRows(m, receipt, items) : items[m][j].accepted = items'[m][j].accepted
    BY <1>8, <1>11 DEF PostedRows, Having
  <2>3. SumPosted(m, receipt, items) = SumPosted(m, receipt', items')
    BY <2>1, <2>2, SumSame
  <2>. QED  BY <2>3 DEF Usable
<1>12. ASSUME l \notin corrected'
       PROVE  Usable(l)' = ordered'[l]
  <2>1. Cardinality(P) \in Nat /\ ~(Cardinality(P) > 1)
    BY <1>1, <1>3, <1>12, FS_CardinalityType
  <2>2. P = {k}
    <3>1. IsFiniteSet({k}) /\ Cardinality({k}) = 1
      BY FS_Singleton
    <3>2. {k} \subseteq P
      BY <1>2
    <3>. HIDE DEF P
    <3>3. Cardinality({k}) <= Cardinality(P)
      BY <1>3, <3>2, FS_Subset
    <3>4. Cardinality({k}) = Cardinality(P)
      BY <2>1, <3>1, <3>3
    <3>. QED  BY <1>3, <3>2, <3>4, FS_Subset
  <2>3. PostedRows(l, receipt', items') = {k}
    BY <1>10, <2>2
  <2>4. items' \in Items /\ k \in DOMAIN items'[l]
    BY <1>3, <1>8
  <2>5. SumPosted(l, receipt', items') = items'[l][k].accepted
    BY <2>3, <2>4, SumSingle
  <2>. QED  BY <1>1, <1>8, <2>5 DEF Usable, TypeOK
<1>. HIDE DEF P
<1>13. WithinOrder'
  <2>1. ASSUME NEW m \in Line, m # l, m \notin corrected'
        PROVE  Usable(m)' <= ordered'[m]
    <3>1. m \notin corrected /\ ordered'[m] = ordered[m]
      BY <1>1, <2>1 DEF TypeOK
    <3>. QED  BY <1>11, <2>1, <3>1 DEF IInv, WithinOrder
  <2>2. l \notin corrected' => Usable(l)' <= ordered'[l]
    BY <1>1, <1>12 DEF TypeOK
  <2>. QED  BY <2>1, <2>2 DEF WithinOrder
<1>14. ReceiptsFirst' /\ OnePerReceipt'
  BY <1>1, <1>8, <1>9 DEF IInv, Structure, ReceiptsFirst, OnePerReceipt
<1>15. OrderedFirst'
  <2>1. ASSUME NEW m \in Line, ordered'[m] = 0
        PROVE  items'[m] = <<>>
    <3>1. m # l /\ ordered[m] = 0
      BY <1>1, <2>1 DEF TypeOK
    <3>2. items'[m] = items[m]
      BY <1>2, <3>1 DEF TypeOK
    <3>. QED  BY <3>1, <3>2 DEF IInv, Structure, OrderedFirst
  <2>. QED  BY <2>1 DEF OrderedFirst
<1>16. StatusTellsTruth' /\ AnnulledHasNoStock'
  BY <1>1, <1>15, RecalculateTells
<1>. QED  BY <1>13, <1>14, <1>15, <1>16 DEF IInv, Structure

-----------------------------------------------------------------------------
LEMMA IInvInit == Init => IInv
<1>. SUFFICES ASSUME Init PROVE IInv
  OBVIOUS
<1>1. TypeOK
  BY TypeInit
<1>2. \A l \in Line : items[l] = <<>> /\ Usable(l) = 0
  BY SumNone DEF Init, Usable
<1>3. Structure
  BY <1>2 DEF Structure, ReceiptsFirst, OnePerReceipt, OrderedFirst
<1>4. StatusTellsTruth /\ AnnulledHasNoStock
  BY <1>2 DEF Init, StatusTellsTruth, AnnulledHasNoStock
<1>5. WithinOrder
  BY <1>2 DEF Init, WithinOrder
<1>. QED  BY <1>1, <1>3, <1>4, <1>5 DEF IInv

LEMMA IInvNext ==
    ASSUME IInv, [Next]_vars
    PROVE  IInv'
<1>1. TypeOK'
  BY TypeNext DEF IInv
<1>2. CASE CreateSupply \/ SubmitSupply \/ AnnulDraftSupply \/ MarkSupplyPaid \/ UNCHANGED vars
  BY <1>1, <1>2, MarkKeeps
<1>3. ASSUME NEW l \in Line,
             RemoveSupplyItem(l) \/ \E n \in Qty : AddSupplyItem(l, n) \/ UpdateSupplyItem(l, n)
      PROVE  IInv'
  BY <1>1, <1>3, EditKeeps
<1>4. ASSUME NEW l \in Line, NEW n \in Qty, CorrectPostedItem(l, n)
      PROVE  IInv'
  BY <1>1, <1>4, CorrectKeeps
<1>5. ASSUME NEW l \in Line, NEW k \in DOMAIN items[l], Issue(l, k) \/ GiveBack(l, k)
      PROVE  IInv'
  BY <1>1, <1>5, UseKeeps
<1>6. ASSUME NEW g \in Receipt, CreateGoodsReceipt(g)
      PROVE  IInv'
  BY <1>1, <1>6, CreateKeeps
<1>7. ASSUME NEW g \in Receipt, NEW l \in Line, NEW a \in Qty, NEW d \in Qty, AddGoodsReceiptItem(g, l, a, d)
      PROVE  IInv'
  BY <1>1, <1>7, AddKeeps
<1>8. ASSUME NEW g \in Receipt, PostGoodsReceipt(g)
      PROVE  IInv'
  BY <1>1, <1>8, PostKeeps
<1>9. ASSUME NEW g \in Receipt, ReceiveFromSupply(g)
      PROVE  IInv'
  BY <1>1, <1>9, ReceiveKeeps
<1>10. ASSUME NEW g \in Receipt, ReverseGoodsReceipt(g)
       PROVE  IInv'
  BY <1>1, <1>10, ReverseKeeps
<1>. QED
  BY <1>2, <1>3, <1>4, <1>5, <1>6, <1>7, <1>8, <1>9, <1>10 DEF Next

\* What holds along every behaviour.
LEMMA Always == Spec => []IInv
  BY IInvInit, IInvNext, PTL DEF Spec

\* A supply's status tells what came in, however its receipts are posted,
\* reversed and corrected (recalculateSupplyStatus).
THEOREM StatusAlwaysTellsTruth == Spec => []StatusTellsTruth
<1>1. IInv => StatusTellsTruth
  BY DEF IInv
<1>. QED  BY <1>1, Always, PTL

\* What is in stock was ordered: annulling a supply never leaves goods of it
\* in the stock (annulDraftSupply), and no more comes in of a line than was
\* ordered, unless it was corrected across receipts (postDraftReceiptInTx,
\* receiveFromSupply, updateSupplyItem).
THEOREM AlwaysOrdered == Spec => []StockIsOrdered
<1>1. IInv => StockIsOrdered
  BY DEF IInv, StockIsOrdered
<1>. QED  BY <1>1, Always, PTL

-----------------------------------------------------------------------------
(***************************************************************************)
(* The pages.  That what they offer is done needs two more facts about the *)
(* receipts: an item brings something, as only then a correction finds a   *)
(* batch; and a supply with receipts was submitted.                        *)
(***************************************************************************)
\* Every receipt item brings goods, usable or not.
EachBringsSome == \A l \in Line : \A k \in DOMAIN items[l] : Received(items[l][k]) > 0

\* A supply that has receipts is past its draft.
ReceiptsAreSubmitted == (\E g \in Receipt : receipt[g] # "NONE") => status \notin {"NONE", "DRAFT"}

\* An item replaced by one that brings something.
LEMMA ReplacedBrings ==
    ASSUME NEW l \in Line, NEW k \in DOMAIN items[l], NEW x,
           EachBringsSome, Replaces(items', items, l, k, x), Received(x) > 0
    PROVE  EachBringsSome'
  BY DEF EachBringsSome, Replaces

\* Lines extended by items that bring something.
LEMMA ExtendedBrings ==
    ASSUME NEW L, NEW y, EachBringsSome, L \subseteq Line, Extends(items', items, L, y),
           \A m \in L : Received(y[m]) > 0
    PROVE  EachBringsSome'
<1>1. ASSUME NEW m \in Line, NEW j \in DOMAIN items'[m], m \notin L
      PROVE  Received(items'[m][j]) > 0
  BY <1>1 DEF EachBringsSome, Extends
<1>2. ASSUME NEW m \in L, NEW j \in DOMAIN items'[m]
      PROVE  Received(items'[m][j]) > 0
  <2>1. m \in Line
    OBVIOUS
  <2>2. /\ DOMAIN items'[m] = DOMAIN items[m] \cup {Len(items[m]) + 1}
        /\ items'[m][Len(items[m]) + 1] = y[m]
        /\ \A i \in DOMAIN items[m] : items'[m][i] = items[m][i]
    BY DEF Extends
  <2>. QED  BY <1>2, <2>1, <2>2 DEF EachBringsSome
<1>. QED  BY <1>1, <1>2 DEF EachBringsSome

LEMMA BringsNext ==
    ASSUME TypeOK, EachBringsSome, [Next]_vars
    PROVE  EachBringsSome'
<1>0. Qty \subseteq Nat /\ items \in Items
  BY SupplyAssumption DEF TypeOK, Items
<1>1. ASSUME UNCHANGED items
      PROVE  EachBringsSome'
  BY <1>1 DEF EachBringsSome
<1>2. CASE CreateSupply \/ SubmitSupply \/ AnnulDraftSupply \/ MarkSupplyPaid \/ UNCHANGED vars
  BY <1>1, <1>2 DEF CreateSupply, SubmitSupply, AnnulDraftSupply, MarkSupplyPaid, vars
<1>3. ASSUME NEW l \in Line,
             RemoveSupplyItem(l) \/ \E n \in Qty : AddSupplyItem(l, n) \/ UpdateSupplyItem(l, n)
      PROVE  EachBringsSome'
  BY <1>1, <1>3 DEF RemoveSupplyItem, AddSupplyItem, UpdateSupplyItem
<1>4. ASSUME NEW l \in Line, NEW n \in Qty, CorrectPostedItem(l, n)
      PROVE  EachBringsSome'
  <2>1. PICK k \in DOMAIN items[l] : CanCorrect(l, n, k) /\ items' = [items EXCEPT ![l][k].accepted = n]
    BY <1>4 DEF CorrectPostedItem
  <2>. DEFINE x == [items[l][k] EXCEPT !.accepted = n]
  <2>2. items[l][k] \in Item /\ n \in Nat /\ n > 0
    BY <1>0, <2>1, Rows DEF CanCorrect
  <2>3. x \in Item /\ x.accepted = n
    BY <2>2 DEF Item
  <2>4. x.defective \in Nat
    BY <2>3 DEF Item
  <2>5. Received(x) > 0
    BY <2>2, <2>3, <2>4 DEF Received
  <2>6. items' = WithItem(items, l, k, x)
    BY <2>1 DEF WithItem
  <2>. HIDE DEF x
  <2>7. Replaces(items', items, l, k, x)
    BY <1>0, <2>3, <2>6, Replaced
  <2>. QED  BY <2>5, <2>7, ReplacedBrings
<1>5. ASSUME NEW l \in Line, NEW k \in DOMAIN items[l], Issue(l, k) \/ GiveBack(l, k)
      PROVE  EachBringsSome'
  <2>1. items[l][k] \in Item /\ items[l][k].used \in Int
    BY <1>0, Rows
  <2>2. PICK u : items' = [items EXCEPT ![l][k].used = u]
    <3>1. CASE Issue(l, k)
      BY <3>1 DEF Issue
    <3>2. CASE GiveBack(l, k)
      BY <3>2 DEF GiveBack
    <3>. QED  BY <1>5, <3>1, <3>2
  <2>3. ASSUME NEW m \in Line, NEW j \in DOMAIN items'[m]
        PROVE  /\ j \in DOMAIN items[m]
               /\ items'[m][j].accepted = items[m][j].accepted
               /\ items'[m][j].defective = items[m][j].defective
    <3>1. items[m] \in Seq(Item) /\ items[l] \in Seq(Item)
      BY <1>0 DEF Items
    <3>2. CASE m = l /\ j = k
      BY <1>0, <2>1, <2>2, <2>3, <3>1, <3>2 DEF Items, Item
    <3>3. CASE ~(m = l /\ j = k)
      BY <1>0, <2>2, <2>3, <3>1, <3>3 DEF Items
    <3>. QED  BY <3>2, <3>3
  <2>. QED  BY <2>3 DEF EachBringsSome, Received
<1>6. ASSUME NEW g \in Receipt, CreateGoodsReceipt(g) \/ PostGoodsReceipt(g) \/ ReverseGoodsReceipt(g)
      PROVE  EachBringsSome'
  BY <1>1, <1>6 DEF CreateGoodsReceipt, PostGoodsReceipt, ReverseGoodsReceipt
<1>7. ASSUME NEW g \in Receipt, NEW l \in Line, NEW a \in Qty, NEW d \in Qty, AddGoodsReceiptItem(g, l, a, d)
      PROVE  EachBringsSome'
  <2>. DEFINE y == [m \in Line |-> NewItem(g, a, d)]
  <2>1. y \in [Line -> Item] /\ \A m \in Line : Received(y[m]) > 0
    BY <1>0, <1>7 DEF AddGoodsReceiptItem, CanAddItem, NewItem, Item, Received
  <2>2. items' = WithItems(items, {l}, y)
    BY <1>0, <1>7 DEF AddGoodsReceiptItem, Items, WithItems
  <2>. HIDE DEF y
  <2>3. Extends(items', items, {l}, y)
    BY <1>0, <2>1, <2>2, Extended
  <2>. QED  BY <2>1, <2>3, ExtendedBrings
<1>8. ASSUME NEW g \in Receipt, ReceiveFromSupply(g)
      PROVE  EachBringsSome'
  <2>. DEFINE y == [m \in Line |-> NewItem(g, ordered[m], 0)]
  <2>1. y \in [Line -> Item] /\ \A m \in Lines : Received(y[m]) > 0
    BY DEF NewItem, Item, Received, TypeOK, Lines
  <2>2. items' = WithItems(items, Lines, y)
    BY <1>8 DEF ReceiveFromSupply, WithItems
  <2>3. Lines \subseteq Line
    BY DEF Lines
  <2>. HIDE DEF y
  <2>4. Extends(items', items, Lines, y)
    BY <1>0, <2>1, <2>2, <2>3, Extended
  <2>. QED  BY <2>1, <2>3, <2>4, ExtendedBrings
<1>. QED
  BY <1>2, <1>3, <1>4, <1>5, <1>6, <1>7, <1>8 DEF Next

LEMMA SubmittedNext ==
    ASSUME TypeOK, ReceiptsAreSubmitted, [Next]_vars
    PROVE  ReceiptsAreSubmitted'
<1>1. ASSUME Recalculate
      PROVE  ReceiptsAreSubmitted'
  BY <1>1, RecalculatedType DEF Recalculate, ReceiptsAreSubmitted
<1>2. ASSUME UNCHANGED receipt, status' = status \/ status' \notin {"NONE", "DRAFT"}
      PROVE  ReceiptsAreSubmitted'
  BY <1>2 DEF ReceiptsAreSubmitted
<1>3. CASE CreateSupply
  BY <1>3 DEF CreateSupply, CanCreate, ReceiptsAreSubmitted
<1>4. CASE SubmitSupply \/ AnnulDraftSupply \/ MarkSupplyPaid \/ UNCHANGED vars
  BY <1>2, <1>4 DEF SubmitSupply, AnnulDraftSupply, MarkSupplyPaid, vars
<1>5. ASSUME NEW l \in Line,
             RemoveSupplyItem(l) \/ \E n \in Qty : AddSupplyItem(l, n) \/ UpdateSupplyItem(l, n)
      PROVE  ReceiptsAreSubmitted'
  BY <1>2, <1>5 DEF RemoveSupplyItem, AddSupplyItem, UpdateSupplyItem
<1>6. ASSUME NEW l \in Line, NEW n \in Qty, CorrectPostedItem(l, n)
      PROVE  ReceiptsAreSubmitted'
  BY <1>1, <1>6 DEF CorrectPostedItem
<1>7. ASSUME NEW l \in Line, NEW k \in DOMAIN items[l], Issue(l, k) \/ GiveBack(l, k)
      PROVE  ReceiptsAreSubmitted'
  BY <1>2, <1>7 DEF Issue, GiveBack
<1>8. ASSUME NEW g \in Receipt, CreateGoodsReceipt(g)
      PROVE  ReceiptsAreSubmitted'
  BY <1>8 DEF CreateGoodsReceipt, CanCreateReceipt, ReceiptsAreSubmitted
<1>9. ASSUME NEW g \in Receipt, NEW l \in Line, NEW a \in Qty, NEW d \in Qty, AddGoodsReceiptItem(g, l, a, d)
      PROVE  ReceiptsAreSubmitted'
  BY <1>2, <1>9 DEF AddGoodsReceiptItem
<1>10. ASSUME NEW g \in Receipt, PostGoodsReceipt(g) \/ ReceiveFromSupply(g) \/ ReverseGoodsReceipt(g)
       PROVE  ReceiptsAreSubmitted'
  BY <1>1, <1>10 DEF PostGoodsReceipt, ReceiveFromSupply, ReverseGoodsReceipt
<1>. QED
  BY <1>3, <1>4, <1>5, <1>6, <1>7, <1>8, <1>9, <1>10 DEF Next

PageInv == IInv /\ EachBringsSome /\ ReceiptsAreSubmitted

LEMMA PageAlways == Spec => []PageInv
<1>1. Init => PageInv
  <2>. SUFFICES ASSUME Init PROVE PageInv
    OBVIOUS
  <2>1. IInv
    BY IInvInit
  <2>2. \A l \in Line : items[l] = <<>>
    BY DEF Init
  <2>3. EachBringsSome
    BY <2>2 DEF EachBringsSome
  <2>4. ReceiptsAreSubmitted
    BY DEF Init, ReceiptsAreSubmitted
  <2>. QED  BY <2>1, <2>3, <2>4 DEF PageInv
<1>2. PageInv /\ [Next]_vars => PageInv'
  <2>. SUFFICES ASSUME PageInv, [Next]_vars PROVE PageInv'
    OBVIOUS
  <2>1. IInv /\ TypeOK /\ EachBringsSome /\ ReceiptsAreSubmitted
    BY DEF PageInv, IInv
  <2>2. IInv'
    BY <2>1, IInvNext
  <2>3. EachBringsSome'
    BY <2>1, BringsNext
  <2>4. ReceiptsAreSubmitted'
    BY <2>1, SubmittedNext
  <2>. QED  BY <2>2, <2>3, <2>4 DEF PageInv
<1>. QED  BY <1>1, <1>2, PTL DEF Spec

\* What is drafted of a line is a quantity.
LEMMA DraftNat ==
    ASSUME TypeOK, NEW l \in Line
    PROVE  SumDraft(l) \in Nat
<1>. DEFINE S == Having("DRAFT", l, receipt, items)
<1>. DEFINE f == [k \in DOMAIN items[l] |-> Received(items[l][k])]
<1>1. items \in Items
  BY DEF TypeOK, Items
<1>2. IsFiniteSet(DOMAIN items[l]) /\ S \subseteq DOMAIN items[l]
  BY <1>1, Rows DEF Having
<1>3. IsFiniteSet(S)
  BY <1>2, FS_Subset
<1>4. \A k \in S : f[k] \in Nat
  BY <1>1, <1>2, Rows DEF Received
<1>. HIDE DEF S, f
<1>5. TotalOn(f, S) \in Nat
  BY <1>3, <1>4, TotalNat
<1>. QED  BY <1>5 DEF SumDraft, S, f

\* A line that was received has a newest item.
LEMMA NewestIs ==
    ASSUME TypeOK, NEW l \in Line, Having("POSTED", l, receipt, items) # {}
    PROVE  \E k \in Having("POSTED", l, receipt, items) :
              /\ k \in DOMAIN items[l]
              /\ \A j \in Having("POSTED", l, receipt, items) : j <= k
              /\ Newest(l) = items[l][k]
<1>. DEFINE S == Having("POSTED", l, receipt, items)
<1>1. items \in Items
  BY DEF TypeOK, Items
<1>2. S \subseteq DOMAIN items[l] /\ DOMAIN items[l] \subseteq Nat /\ IsFiniteSet(DOMAIN items[l])
  BY <1>1, Rows DEF Having
<1>3. IsFiniteSet(S) /\ S \subseteq Nat /\ S # {}
  BY <1>2, FS_Subset
<1>4. Newest(l) = items[l][CHOOSE k \in S : \A j \in S : j <= k]
  BY DEF Newest
<1>. HIDE DEF S
<1>5. \E k \in S : \A j \in S : j <= k
  BY <1>3, GreatestElement
<1>. DEFINE k == CHOOSE k \in S : \A j \in S : j <= k
<1>6. k \in S /\ \A j \in S : j <= k
  BY <1>5
<1>. HIDE DEF k
<1>7. Newest(l) = items[l][k]
  BY <1>4 DEF k
<1>. QED  BY <1>2, <1>6, <1>7 DEF S

\* The edit of a line.
LEMMA EditTaken ==
    ASSUME PageInv, NEW l \in Lines, NEW n \in Entered, CanEditLines
    PROVE  \/ Posted /\ \/ Having("POSTED", l, receipt, items) = {}
                        \/ Newest(l).defective > 0
                        \/ Newest(l).used > n
           \/ PressSave(l, n)
<1>1. TypeOK /\ EachBringsSome /\ l \in Line /\ items \in Items
  BY DEF PageInv, IInv, TypeOK, Items, Lines
<1>2. n \in Nat /\ n > 0
  BY SupplyAssumption DEF Entered
<1>3. CASE Open
  BY <1>2, <1>3 DEF Open, PressSave, CanUpdate, IsOpen
<1>4. ASSUME Posted, Having("POSTED", l, receipt, items) # {},
             ~(Newest(l).defective > 0), ~(Newest(l).used > n)
      PROVE  PressSave(l, n)
  <2>1. PICK k \in Having("POSTED", l, receipt, items) :
              /\ k \in DOMAIN items[l]
              /\ \A j \in Having("POSTED", l, receipt, items) : j <= k
              /\ Newest(l) = items[l][k]
    BY <1>1, <1>4, NewestIs
  <2>2. items[l][k].accepted \in Nat /\ items[l][k].used \in Nat /\ items[l][k].defective \in Nat
    BY <1>1, <2>1, Rows
  <2>3. items[l][k].accepted + items[l][k].defective > 0
    BY <1>1, <2>1 DEF EachBringsSome, Received
  <2>4. CanAdjust(items[l][k], n)
    BY <1>2, <1>4, <2>1, <2>2, <2>3 DEF CanAdjust
  <2>5. CanCorrect(l, n, k)
    BY <1>2, <1>4, <2>1, <2>4 DEF CanCorrect, Posted
  <2>. QED  BY <2>1, <2>5 DEF PressSave
<1>. QED  BY <1>3, <1>4 DEF CanEditLines

\* An open supply is received whole, whatever was posted and reversed before.
LEMMA ReceiveTaken ==
    ASSUME PageInv, PageCanReceive
    PROVE  (\A g \in Receipt : receipt[g] # "NONE") \/ PressReceive
<1>1. TypeOK /\ IsOpen(status) /\ Lines # {} /\ Lines \subseteq Line
  BY DEF PageInv, IInv, PageCanReceive, Open, IsOpen, Lines
<1>2. \A l \in Line : SumPosted(l, receipt, items) = 0
  BY <1>1, OpenIsEmpty DEF PageInv, IsOpen, Usable
<1>3. \A l \in Lines : FitsOrder(l, ordered[l])
  BY <1>1, <1>2 DEF FitsOrder, TypeOK
<1>. QED  BY <1>1, <1>3 DEF PressReceive, PressSaveHeader, CanReceive

\* A line is added to a receipt.
LEMMA AddLineTaken ==
    ASSUME PageInv, NEW g \in Receipt, receipt[g] = "DRAFT", NEW l \in Lines,
           NEW a \in Qty, NEW d \in Qty,
           a + d \in 1 .. ordered[l] - Usable(l) - SumDraft(l),
           \A k \in DOMAIN items[l] : items[l][k].receipt # g
    PROVE  CanAddItem(g, l, a, d)
<1>1. TypeOK /\ items \in Items /\ l \in Line /\ ordered[l] \in Nat
  BY DEF PageInv, IInv, TypeOK, Items, Lines
<1>2. SumDraft(l) \in Nat
  BY <1>1, DraftNat
<1>3. Usable(l) \in Nat /\ SumPosted(l, receipt, items) = Usable(l)
  BY <1>1, SumNat DEF Usable
<1>4. a \in Nat /\ d \in Nat
  BY SupplyAssumption
<1>5. a + d > 0 /\ SumPosted(l, receipt, items) + SumDraft(l) + a + d <= ordered[l]
  BY <1>1, <1>2, <1>3, <1>4
<1>. QED  BY <1>5 DEF CanAddItem

\* A receipt is posted.
LEMMA PostTaken ==
    ASSUME PageInv, NEW g \in Receipt, receipt[g] = "DRAFT", ItemsOf(g) # {},
           status \notin {"RECEIVED", "ANNULLED"},
           \A h \in ItemsOf(g) : ~(Received(items[h[1]][h[2]]) > ordered[h[1]] - Usable(h[1]))
    PROVE  CanPost(g)
<1>1. TypeOK /\ ReceiptsAreSubmitted /\ items \in Items
  BY DEF PageInv, IInv, TypeOK, Items
<1>2. CanCreateReceipt(status)
  BY <1>1 DEF TypeOK, SupplyStatus, ReceiptsAreSubmitted, CanCreateReceipt
<1>3. ASSUME NEW h \in ItemsOf(g)
      PROVE  FitsOrder(h[1], Received(items[h[1]][h[2]]))
  <2>1. PICK l \in Line : \E k \in DOMAIN items[l] : h = <<l, k>>
    BY DEF ItemsOf
  <2>2. PICK k \in DOMAIN items[l] : h = <<l, k>>
    BY <2>1
  <2>3. Received(items[l][k]) \in Nat
    BY <1>1, Rows DEF Received
  <2>4. ordered[l] \in Nat /\ Usable(l) \in Nat /\ SumPosted(l, receipt, items) = Usable(l)
    BY <1>1, SumNat DEF TypeOK, Usable
  <2>5. h[1] = l /\ h[2] = k
    BY <2>2
  <2>6. ~(Received(items[l][k]) > ordered[l] - Usable(l))
    BY <2>5
  <2>7. SumPosted(l, receipt, items) + Received(items[l][k]) <= ordered[l]
    BY <2>3, <2>4, <2>6
  <2>. QED  BY <2>5, <2>7 DEF FitsOrder
<1>. QED  BY <1>2, <1>3 DEF CanPost

\* The kinds of offers.
LEMMA OfferKinds ==
    ASSUME NEW o \in Offers
    PROVE  \/ o.does = "create" /\ status = "NONE"
           \/ o.does = "edit" /\ CanEditLines /\ o.line \in Lines /\ o.quantity \in Entered
           \/ o.does = "remove" /\ Open /\ o.line \in Lines
           \/ o.does = "add" /\ Open /\ o.line \in Line /\ o.quantity \in Entered
           \/ o.does = "save header" /\ Open
           \/ o.does = "receive" /\ PageCanReceive
           \/ o.does = "annul" /\ Open
           \/ o.does = "mark paid" /\ PageCanMarkPaid
           \/ /\ o.does = "add to receipt" /\ o.receipt \in Receipt /\ receipt[o.receipt] = "DRAFT"
              /\ o.line \in Lines /\ o.accepted \in Qty /\ o.defective \in Qty
           \/ /\ o.does = "post receipt" /\ o.receipt \in Receipt /\ receipt[o.receipt] = "DRAFT"
              /\ ItemsOf(o.receipt) # {}
<1>0. \A x : Offer(x).does = x
  BY DEF Offer
<1>1. CASE o \in ListOffers
  BY <1>0, <1>1 DEF ListOffers
<1>2. CASE o \in EditOffers
  BY <1>2 DEF EditOffers
<1>3. CASE o \in RemoveOffers
  BY <1>3 DEF RemoveOffers
<1>4. CASE o \in AddOffers
  BY <1>4 DEF AddOffers
<1>5. CASE o \in HeaderOffers \cup ReceiveOffers \cup AnnulOffers \cup PaidOffers
  BY <1>0, <1>5 DEF HeaderOffers, ReceiveOffers, AnnulOffers, PaidOffers
<1>6. ASSUME NEW g \in Receipt, o \in ReceiptAddOffers(g)
      PROVE  /\ o.does = "add to receipt" /\ o.receipt = g /\ receipt[g] = "DRAFT"
             /\ o.line \in Lines /\ o.accepted \in Qty /\ o.defective \in Qty
  BY <1>6 DEF ReceiptAddOffers
<1>7. ASSUME NEW g \in Receipt, o \in ReceiptPostOffers(g)
      PROVE  o.does = "post receipt" /\ o.receipt = g /\ receipt[g] = "DRAFT" /\ ItemsOf(g) # {}
  BY <1>7 DEF ReceiptPostOffers
<1>. QED  BY <1>1, <1>2, <1>3, <1>4, <1>5, <1>6, <1>7 DEF Offers, SupplyOffers

LEMMA OfferTaken ==
    ASSUME PageInv, NEW o \in Offers
    PROVE  Unforeseen(o) \/ Taken(o)
<1>1. CASE o.does = "create" /\ status = "NONE"
  BY <1>1 DEF Taken, PressCreate, CanCreate
<1>2. CASE o.does = "edit" /\ CanEditLines /\ o.line \in Lines /\ o.quantity \in Entered
  <2>1. \/ Posted /\ \/ Having("POSTED", o.line, receipt, items) = {}
                     \/ Newest(o.line).defective > 0
                     \/ Newest(o.line).used > o.quantity
        \/ PressSave(o.line, o.quantity)
    BY <1>2, EditTaken
  <2>. QED  BY <1>2, <2>1 DEF Unforeseen, Taken
<1>3. CASE o.does = "remove" /\ Open /\ o.line \in Lines
  BY <1>3 DEF Unforeseen, Taken, PressRemove, CanRemove, IsOpen, Open
<1>4. CASE o.does = "add" /\ Open /\ o.line \in Line /\ o.quantity \in Entered
  <2>1. o.quantity > 0 /\ ordered[o.line] \in Nat
    <3>1. o.quantity \in Nat /\ o.quantity # 0
      BY <1>4, SupplyAssumption DEF Entered
    <3>2. ordered[o.line] \in Nat
      BY <1>4 DEF PageInv, IInv, TypeOK
    <3>. QED  BY <3>1, <3>2
  <2>2. o.line \notin Lines => ordered[o.line] = 0
    BY <1>4, <2>1 DEF Lines
  <2>3. o.line \in Lines \/ CanAdd(o.line, o.quantity)
    BY <1>4, <2>1, <2>2 DEF CanAdd, IsOpen, Open
  <2>. QED  BY <1>4, <2>3 DEF Unforeseen, Taken, PressAdd
<1>5. CASE o.does = "save header" /\ Open
  BY <1>5 DEF Taken, PressSaveHeader, IsOpen, Open
<1>6. CASE o.does = "receive" /\ PageCanReceive
  BY <1>6, ReceiveTaken DEF Unforeseen, Taken
<1>7. CASE o.does = "annul" /\ Open
  BY <1>7 DEF Taken, PressAnnul, CanAnnul, IsOpen, Open
<1>8. CASE o.does = "mark paid" /\ PageCanMarkPaid
  BY <1>8 DEF Taken, PressMarkPaid, CanMarkPaid, PageCanMarkPaid
<1>9. CASE /\ o.does = "add to receipt" /\ o.receipt \in Receipt /\ receipt[o.receipt] = "DRAFT"
           /\ o.line \in Lines /\ o.accepted \in Qty /\ o.defective \in Qty
  <2>1. \/ \E k \in DOMAIN items[o.line] : items[o.line][k].receipt = o.receipt
        \/ o.accepted + o.defective \notin 1 .. ordered[o.line] - Usable(o.line) - SumDraft(o.line)
        \/ PressAddLine(o)
    BY <1>9, AddLineTaken DEF PressAddLine
  <2>. QED  BY <1>9, <2>1 DEF Unforeseen, Taken
<1>10. CASE /\ o.does = "post receipt" /\ o.receipt \in Receipt /\ receipt[o.receipt] = "DRAFT"
            /\ ItemsOf(o.receipt) # {}
  <2>1. \/ status \in {"RECEIVED", "ANNULLED"}
        \/ \E h \in ItemsOf(o.receipt) : Received(items[h[1]][h[2]]) > ordered[h[1]] - Usable(h[1])
        \/ PressPost(o.receipt)
    BY <1>10, PostTaken DEF PressPost
  <2>. QED  BY <1>10, <2>1 DEF Unforeseen, Taken
<1>. QED
  BY <1>1, <1>2, <1>3, <1>4, <1>5, <1>6, <1>7, <1>8, <1>9, <1>10, OfferKinds

\* What the pages of a supply and its receipts offer, the server does, save
\* what they are not told of; and nothing that moves stock goes unasked (the
\* conditions of the buttons against the use cases, onSaveEdit against
\* updateSupplyItem).
THEOREM PagesAlwaysServe == Spec => []PagesServe
<1>1. PageInv => PagesServe
  <2>1. ASSUME PageInv
        PROVE  OffersAreTaken
    BY <2>1, OfferTaken DEF OffersAreTaken
  <2>2. StockMovesAreAsked
    BY DEF StockMovesAreAsked, Asks, CanCorrect, Posted
  <2>. QED  BY <2>1, <2>2 DEF PagesServe
<1>. QED  BY <1>1, PageAlways, PTL

-----------------------------------------------------------------------------
(***************************************************************************)
(* PostingRace.  The invariant says what is committed, what each request   *)
(* knows of it, and what two requests know of each other; about any        *)
(* request q (a record), documents P, batches L, balances H, movements M,  *)
(* keys K, and histories ast, ovt, apt.                                    *)
(***************************************************************************)
Done == {"POSTED", "REVERSED"}
Document == [status : {"NONE", "DRAFT", "POSTED", "REVERSED"}, items : SUBSET Good]
Movement == [paper : Doc, item : Good, of : Bin,
             type : {"RECEIPT", "RECEIPT_REVERSAL", "WRITE_OFF", "WRITE_OFF_REVERSAL"}]
KeyRow == [scope : {"goods-receipt-post", "goods-receipt-reverse", "write-off-post", "write-off-reverse"},
           key : Press, paper : Doc]
ReverseScope == {"goods-receipt-reverse", "write-off-reverse"}
Counts == {"SUBMITTED_TO_SUPPLIER", "PARTIALLY_RECEIVED", "RECEIVED"}

PostOp == {"receive", "postReceipt", "post"}
WorkOp == PostOp \cup ReverseOp
AddOp == {"addReceiptItem", "addItem"}

\* The movements of a document: out when it is posted, back when it is reversed.
Out(d) == IF d \in Paper THEN "RECEIPT" ELSE "WRITE_OFF"
Back(d) == IF d \in Paper THEN "RECEIPT_REVERSAL" ELSE "WRITE_OFF_REVERSAL"
TypeOf(q) == IF q.op \in PostOp THEN Out(q.paper) ELSE Back(q.paper)
Has(M, d, i, type) == \E m \in M : m.paper = d /\ m.item = i /\ m.type = type

\* The documents as q leaves them.
Leaves(q, P) ==
    [P EXCEPT ![q.paper].status = IF q.op \in ReverseOp THEN "REVERSED" ELSE "POSTED",
              ![q.paper].items = IF q.op = "receive" THEN q.items ELSE @]

-----------------------------------------------------------------------------
\* What is committed.

MovesFit(P, M) ==
    \A m \in M :
        /\ m.item = m.of[2] /\ m.item \in P[m.paper].items
        /\ m.type \in {Out(m.paper), Back(m.paper)}
        /\ P[m.paper].status \in Done
        /\ m.type = "RECEIPT" => m.of = <<m.paper, m.item>>
        /\ m.type = Back(m.paper) =>
              \E n \in M : n.paper = m.paper /\ n.item = m.item /\ n.type = Out(m.paper) /\ n.of = m.of

Single(M) == \A m, n \in M : m.paper = n.paper /\ m.item = n.item /\ m.type = n.type => m = n

Once(P, M, ast) ==
    \A d \in Doc : \A i \in P[d].items : <<d, i>> \notin ast =>
        /\ P[d].status \in Done => Has(M, d, i, Out(d))
        /\ Has(M, d, i, Back(d)) <=> P[d].status = "REVERSED"

KeysFit(P, K, ast) ==
    /\ \A k, l \in K : k.scope = l.scope /\ k.key = l.key => k = l
    /\ \A k \in K :
          /\ P[k.paper].status \in Done
          /\ k.scope \in ReverseScope =>
                P[k.paper].status = "REVERSED" \/ \A i \in Good : <<k.paper, i>> \in ast

\* The write-offs of batch h that are not reversed.
OpenOf(M, h) == {m \in M : m.type = "WRITE_OFF" /\ m.of = h /\ ~Has(M, m.paper, m.item, "WRITE_OFF_REVERSAL")}

\* The unit of a receipt is in its batch, or in one write-off.
Kept(L, M, h) ==
    LET received == Has(M, h[1], h[2], "RECEIPT")
        reversed == Has(M, h[1], h[2], "RECEIPT_REVERSAL")
    IN  /\ ~received => L[h] = 0 /\ \A m \in M : m.type = "WRITE_OFF" => m.of # h
        /\ received /\ reversed => L[h] = 0 /\ OpenOf(M, h) = {}
        /\ received /\ ~reversed =>
              \/ L[h] = 1 /\ OpenOf(M, h) = {}
              \/ L[h] = 0 /\ \E m \in M : OpenOf(M, h) = {m}

Conserved(L, H, M) ==
    /\ \A i \in Good : H[i] = TotalOn(L, BinsOf(i))
    /\ \A h \in Bin : h[1] \in Paper => Kept(L, M, h)

Follows(P, sup, ast, apt) == ~apt /\ ast = {} /\ sup # "DRAFT" => sup = Reckoned(P)

Stocked(P, L, H, M, K) ==
    /\ P \in [Doc -> Document] /\ L \in [Bin -> Nat] /\ H \in [Good -> Nat]
    /\ M \subseteq Movement /\ K \subseteq KeyRow

Committed(P, L, H, M, K, sup, ast, ovt, apt) ==
    /\ Stocked(P, L, H, M, K)
    /\ sup \in Counts \cup {"DRAFT"}
    /\ MovesFit(P, M)
    /\ Single(M)
    /\ Once(P, M, ast)
    /\ KeysFit(P, K, ast)
    /\ ~ovt => Conserved(L, H, M)
    /\ Follows(P, sup, ast, apt)

-----------------------------------------------------------------------------
\* What a request knows.

Shaped(q) ==
    /\ DOMAIN q = {"op", "pc", "paper", "key", "items", "found", "moves", "left", "hand",
                   "keeps", "opened", "status"}
    /\ q.op \in WorkOp \cup AddOp
    /\ q.pc \in {"open", "check", "key", "find", "lines", "count", "end", "add"}
    /\ q.pc = "add" <=> q.op \in AddOp
    /\ q.pc = "find" => q.op \in ReverseOp
    /\ q.paper \in Doc
    /\ q.paper \in Paper <=> q.op \in ReceiptOp \cup {"addReceiptItem"}
    /\ q.items \subseteq Good /\ q.key \in Press \cup {NoPress}
    /\ q.keeps => q.pc \in {"find", "lines", "end"} /\ q.key \in Press

\* Its document has been there as it has read it, and only grows.
Began(q, P, M) ==
    /\ q.op = "receive" => P[q.paper].status = "NONE" /\ q.items = Good
    /\ q.op \in {"postReceipt", "post"} =>
          /\ P[q.paper].status # "NONE" /\ q.items # {} /\ q.items \subseteq P[q.paper].items
          /\ P[q.paper].status \in Done => \E i \in q.items : Has(M, q.paper, i, Out(q.paper))
    /\ q.op \in ReverseOp => P[q.paper].status \in Done /\ q.items \subseteq P[q.paper].items

\* It has nothing to do.
LetOff(q, P, ast) ==
    /\ q.moves = {}
    /\ P[q.paper].status \in Done
    /\ q.op \in ReverseOp =>
          P[q.paper].status = "REVERSED" \/ \A i \in Good : <<q.paper, i>> \in ast

AllFound(q, ast) == \A i \in q.items : <<q.paper, i>> \in ast \/ \E h \in q.found : h[2] = i

Through(q, ast) ==
    IF q.op \in ReverseOp THEN DOMAIN q.hand = {h[2] : h \in q.found} /\ AllFound(q, ast)
    ELSE DOMAIN q.hand = q.items

Phase(q, P, ast) ==
    /\ q.pc \notin {"lines", "end"} => q.moves = {}
    /\ q.pc = "count" => LetOff(q, P, ast)
    /\ q.pc = "lines" /\ q.op \in ReverseOp => AllFound(q, ast)
    /\ q.pc = "end" => LetOff(q, P, ast) \/ Through(q, ast)

FoundFits(q, M) ==
    \A h \in q.found : \E m \in M : m.paper = q.paper /\ m.of = h /\ m.type = Out(q.paper)

\* What movement m of q does to its batch and its balance.
Adds(q, m, L, H) == q.left[m.of] = L[m.of] + 1 /\ q.hand[m.item] = H[m.item] + 1
Takes(q, m, L, H) == L[m.of] = q.left[m.of] + 1 /\ H[m.item] = q.hand[m.item] + 1

Effect(q, m, L, H, M, ovt) ==
    /\ q.op \in {"receive", "postReceipt"} =>
          /\ m.of = <<q.paper, m.item>> /\ m.item \in q.items
          /\ q.left[m.of] = 1 /\ q.hand[m.item] = H[m.item] + 1
    /\ q.op = "reverseReceipt" =>
          /\ m.of \in q.found
          /\ q.left[m.of] = 0 /\ H[m.item] = q.hand[m.item] + 1
          /\ ovt \/ L[m.of] = 1
    /\ q.op = "post" =>
          /\ m.item \in q.items /\ Takes(q, m, L, H)
          /\ ~Has(M, m.of[1], m.of[2], "RECEIPT_REVERSAL")
    /\ q.op = "reverse" => m.of \in q.found /\ Adds(q, m, L, H)

Moves(q, L, H, M, ovt) ==
    /\ DOMAIN q.left = {m.of : m \in q.moves}
    /\ DOMAIN q.hand = {m.item : m \in q.moves}
    /\ \A m \in q.moves :
          /\ m \in Movement /\ m.paper = q.paper /\ m.type = TypeOf(q) /\ m.item = m.of[2]
          /\ ~Has(M, m.paper, m.item, m.type)
          /\ q.left[m.of] \in Nat /\ q.hand[m.item] \in Nat
          /\ Effect(q, m, L, H, M, ovt)
    /\ \A m, n \in q.moves : m.item = n.item => m = n

KeepsNew(q, K) ==
    q.keeps /\ q.op \in ReceiptOp => \A k \in K : ~(k.scope = Scope[q.op] /\ k.key = q.key)

Counted(q, P, ast, apt) ==
    q.pc = "end" /\ q.op \in ReceiptOp =>
        /\ q.status \in Counts
        /\ ~apt /\ ast = {} /\ (q.op = "receive" \/ P[q.paper].items \subseteq q.items) =>
              q.status = Reckoned(Leaves(q, P))

Busy(q, P, L, H, M, K, ast, ovt, apt) ==
    /\ Shaped(q)
    /\ Began(q, P, M)
    /\ Phase(q, P, ast)
    /\ FoundFits(q, M)
    /\ Moves(q, L, H, M, ovt)
    /\ KeepsNew(q, K)
    /\ Counted(q, P, ast, apt)

Known(q, P, L, H, M, K, ast, ovt, apt) ==
    q = Unused \/ Busy(q, P, L, H, M, K, ast, ovt, apt)

\* What two requests know of each other.
Pair(q, t) ==
    /\ DOMAIN q.hand \cap DOMAIN t.hand = {}
    /\ q.op \in {"postReceipt", "post"} /\ t.op \in {"postReceipt", "post"} /\ q.paper = t.paper =>
          q.items \subseteq t.items \/ t.items \subseteq q.items
    /\ q.op = "receive" \/ t.op = "receive" => q.paper # t.paper
    /\ ~(/\ q.keeps /\ t.keeps /\ {q.op, t.op} \subseteq ReceiptOp
         /\ Scope[q.op] = Scope[t.op] /\ q.key = t.key)

PostingInv ==
    /\ Committed(paper, left, onHand, moved, keyed, supply, astray, overtaken, apart)
    /\ request = [r \in Slot |-> request[r]]
    /\ \A r \in Slot : Known(request[r], paper, left, onHand, moved, keyed, astray, overtaken, apart)
    /\ \A r, u \in Slot : r # u => Pair(request[r], request[u])

-----------------------------------------------------------------------------
\* Records and functions.

LEMMA UnusedParts ==
    /\ Unused.op = "none" /\ Unused.pc = "idle" /\ Unused.paper = Before /\ Unused.items = {}
    /\ Unused.found = {} /\ Unused.moves = {} /\ DOMAIN Unused.left = {} /\ DOMAIN Unused.hand = {}
    /\ ~Unused.keeps
    /\ DOMAIN Unused = {"op", "pc", "paper", "key", "items", "found", "moves", "left", "hand",
                        "keeps", "opened", "status"}
BY DEF Unused

Begin(op, d, key, its, at) ==
    [Unused EXCEPT !.op = op, !.paper = d, !.key = key, !.items = its, !.pc = at]

LEMMA BeginParts ==
    ASSUME NEW op, NEW d, NEW key, NEW its, NEW at
    PROVE  LET q == Begin(op, d, key, its, at)
           IN  /\ q.op = op /\ q.paper = d /\ q.key = key /\ q.items = its /\ q.pc = at
               /\ q.found = {} /\ q.moves = {} /\ DOMAIN q.left = {} /\ DOMAIN q.hand = {}
               /\ ~q.keeps
               /\ DOMAIN q = DOMAIN Unused
BY UnusedParts DEF Begin

LEMMA OverParts ==
    ASSUME NEW f, NEW g, NEW S, NEW T, DOMAIN f \subseteq S, \A x \in DOMAIN f : f[x] \in T, g \in [S -> T]
    PROVE  /\ f ++ g \in [S -> T]
           /\ \A x \in DOMAIN f : (f ++ g)[x] = f[x]
           /\ \A x \in S : x \notin DOMAIN f => (f ++ g)[x] = g[x]
<1>1. \A x \in DOMAIN f \cup DOMAIN g : (IF x \in DOMAIN f THEN f[x] ELSE g[x]) \in T
  OBVIOUS
<1>2. DOMAIN f \cup DOMAIN g = S
  OBVIOUS
<1>3. f ++ g \in [S -> T]
  BY <1>1, <1>2 DEF ++
<1> QED
  BY <1>2, <1>3 DEF ++

-----------------------------------------------------------------------------
\* The committed state, and requests that change nothing of it.

Agree(q, t) ==
    /\ DOMAIN q = DOMAIN t
    /\ q.op = t.op /\ q.paper = t.paper /\ q.key = t.key /\ q.items = t.items
    /\ q.moves = t.moves /\ q.left = t.left /\ q.hand = t.hand

LEMMA AgreeKnows ==
    ASSUME NEW q, NEW t, Agree(q, t), NEW P, NEW L, NEW H, NEW M, NEW ovt
    PROVE  /\ Began(t, P, M) => Began(q, P, M)
           /\ q.found = t.found /\ FoundFits(t, M) => FoundFits(q, M)
           /\ q.found = t.found /\ Moves(t, L, H, M, ovt) => Moves(q, L, H, M, ovt)
<1>1. q.op = t.op /\ q.paper = t.paper /\ q.items = t.items
      /\ q.moves = t.moves /\ q.left = t.left /\ q.hand = t.hand
  BY DEF Agree
<1>2. Began(t, P, M) => Began(q, P, M)
  BY <1>1 DEF Began
<1>3. q.found = t.found /\ FoundFits(t, M) => FoundFits(q, M)
  BY <1>1 DEF FoundFits
<1>4. ASSUME q.found = t.found, Moves(t, L, H, M, ovt)
      PROVE  Moves(q, L, H, M, ovt)
  <2>1. \A m : Effect(t, m, L, H, M, ovt) => Effect(q, m, L, H, M, ovt)
    BY <1>1, <1>4 DEF Effect, Adds, Takes
  <2>2. TypeOf(q) = TypeOf(t)
    BY <1>1 DEF TypeOf
  <2> QED
    BY <1>1, <1>4, <2>1, <2>2 DEF Moves
<1> QED
  BY <1>2, <1>3, <1>4

\* r becomes q, and nothing is committed.
Becomes(r, q) ==
    /\ request' = [request EXCEPT ![r] = q]
    /\ UNCHANGED <<paper, stock, supply, astray, apart>>

Apart(r, q) == \A u \in Slot \ {r} : Pair(q, request[u])

LEMMA PairTurns ==
    ASSUME NEW q, NEW t, Pair(q, t)
    PROVE  Pair(t, q)
BY DEF Pair

LEMMA PairAgrees ==
    ASSUME NEW q, NEW p, NEW t, Agree(q, p), Pair(p, t), q.keeps => p.keeps
    PROVE  Pair(q, t)
BY DEF Pair, Agree

LEMMA KnownOvertaken ==
    ASSUME NEW q, NEW P, NEW L, NEW H, NEW M, NEW K, NEW ast, NEW ovt, NEW now, NEW apt,
           Known(q, P, L, H, M, K, ast, ovt, apt), ovt => now
    PROVE  Known(q, P, L, H, M, K, ast, now, apt)
<1>1. \A m : Effect(q, m, L, H, M, ovt) => Effect(q, m, L, H, M, now)
  BY DEF Effect
<1>2. Moves(q, L, H, M, ovt) => Moves(q, L, H, M, now)
  BY <1>1 DEF Moves
<1> QED
  BY <1>2 DEF Known, Busy

KnownNow(q) == Known(q, paper, left, onHand, moved, keyed, astray, overtaken', apart)

LEMMA PrivatePosting ==
    ASSUME PostingInv, NEW r \in Slot, NEW q, Becomes(r, q), KnownNow(q), Apart(r, q), overtaken => overtaken'
    PROVE  PostingInv'
<1>1. request' = [u \in Slot |-> IF u = r THEN q ELSE request[u]]
  BY DEF PostingInv, Becomes
<1>2. request'[r] = q /\ \A u \in Slot \ {r} : request'[u] = request[u]
  BY <1>1
<1>3. /\ paper' = paper /\ left' = left /\ onHand' = onHand /\ moved' = moved /\ keyed' = keyed
      /\ supply' = supply /\ astray' = astray /\ apart' = apart
  BY DEF Becomes, stock
<1>4. Committed(paper, left, onHand, moved, keyed, supply, astray, overtaken', apart)
  BY DEF PostingInv, Committed
<1>5. ASSUME NEW u \in Slot PROVE KnownNow(request'[u])
  <2>1. CASE u = r
    BY <2>1, <1>2
  <2>2. CASE u # r
    <3>1. Known(request[u], paper, left, onHand, moved, keyed, astray, overtaken, apart)
      BY DEF PostingInv
    <3>2. KnownNow(request[u])
      BY <3>1, KnownOvertaken DEF KnownNow
    <3> QED
      BY <2>2, <1>2, <3>2
  <2> QED
    BY <2>1, <2>2
<1>6. ASSUME NEW u \in Slot, NEW v \in Slot, u # v PROVE Pair(request'[u], request'[v])
  <2>1. CASE u = r
    BY <1>2, <1>6, <2>1 DEF Apart
  <2>2. CASE v = r
    BY <1>2, <1>6, <2>2, PairTurns DEF Apart
  <2>3. CASE u # r /\ v # r
    BY <1>2, <1>6, <2>3 DEF PostingInv
  <2> QED
    BY <2>1, <2>2, <2>3
<1>7. request' = [u \in Slot |-> request'[u]]
  BY <1>1
<1> QED
  BY <1>3, <1>4, <1>5, <1>6, <1>7 DEF PostingInv, KnownNow

-----------------------------------------------------------------------------
\* A request begins.

IsNewHere(q) ==
    /\ Shaped(q) /\ q.pc \in {"open", "check", "key", "add"}
    /\ q.found = {} /\ q.moves = {} /\ DOMAIN q.left = {} /\ DOMAIN q.hand = {} /\ ~q.keeps

LEMMA NewKnown ==
    ASSUME NEW q, IsNewHere(q), Began(q, paper, moved)
    PROVE  KnownNow(q)
<1>1. Phase(q, paper, astray) /\ FoundFits(q, moved) /\ KeepsNew(q, keyed) /\ Counted(q, paper, astray, apart)
  BY DEF IsNewHere, Phase, FoundFits, KeepsNew, Counted
<1>2. Moves(q, left, onHand, moved, overtaken')
  BY DEF IsNewHere, Moves
<1> QED
  BY <1>1, <1>2 DEF IsNewHere, KnownNow, Known, Busy

LEMMA NewPair ==
    ASSUME NEW q, NEW t, NEW P, NEW L, NEW H, NEW M, NEW K, NEW ast, NEW ovt, NEW apt,
           IsNewHere(q), Known(t, P, L, H, M, K, ast, ovt, apt),
           q.op # "receive", P[q.paper].status # "NONE",
           q.op \in {"postReceipt", "post"} => q.items = P[q.paper].items
    PROVE  Pair(q, t)
<1>1. CASE t = Unused
  BY <1>1, UnusedParts DEF Pair, IsNewHere
<1>2. CASE Busy(t, P, L, H, M, K, ast, ovt, apt)
  BY <1>2 DEF Busy, Began, Pair, IsNewHere
<1> QED
  BY <1>1, <1>2 DEF Known

LEMMA StartKeeps ==
    ASSUME PostingInv, NEW r \in Slot, NEW op, NEW d, NEW key \in Press \cup {NoPress}, NEW its, NEW at,
           Start(r, op, d, key, its, at),
           op \in WorkOp \cup AddOp, at \in {"open", "check", "key", "add"}, at = "add" <=> op \in AddOp,
           d \in Doc, d \in Paper <=> op \in ReceiptOp \cup {"addReceiptItem"}, its \subseteq Good,
           Began(Begin(op, d, key, its, at), paper, moved),
           \A u \in Slot \ {r} : Pair(Begin(op, d, key, its, at), request[u])
    PROVE  PostingInv'
<1> DEFINE q == Begin(op, d, key, its, at)
<1>1. Becomes(r, q) /\ overtaken' = overtaken
  BY DEF Start, Begin, Becomes, history, stock
<1>2. IsNewHere(q)
  BY BeginParts, UnusedParts DEF IsNewHere, Shaped
<1>3. Apart(r, q) /\ Began(q, paper, moved)
  BY DEF Apart
<1> HIDE DEF q
<1>4. KnownNow(q)
  BY <1>2, <1>3, NewKnown
<1> QED
  BY <1>1, <1>3, <1>4, PrivatePosting

LEMMA StartReceivingKeeps ==
    ASSUME PostingInv, NEW r \in Slot, NEW g \in Paper, NEW key \in Press \cup {NoPress}, StartReceiving(r, g, key)
    PROVE  PostingInv'
<1> DEFINE at == IF supply = "DRAFT" THEN "open" ELSE "check"
           q == Begin("receive", g, key, Good, at)
<1>1. /\ Start(r, "receive", g, key, Good, at) /\ paper[g].status = "NONE"
      /\ \A u \in Slot : request[u].paper # g
  BY DEF StartReceiving
<1>2. at \in {"open", "check"}
  OBVIOUS
<1> HIDE DEF at
<1>3. q.op = "receive" /\ q.paper = g /\ q.items = Good /\ DOMAIN q.hand = {} /\ ~q.keeps
  BY BeginParts
<1> HIDE DEF q
<1>4. Began(q, paper, moved)
  BY <1>1, <1>3 DEF Began, ReverseOp
<1>5. \A u \in Slot \ {r} : Pair(q, request[u])
  BY <1>1, <1>3 DEF Pair
<1>6. g \in Doc /\ "receive" \in WorkOp \cup AddOp /\ "receive" \notin AddOp /\ "receive" \in ReceiptOp
  BY DEF Doc, WorkOp, PostOp, AddOp, ReceiptOp
<1> QED
  BY <1>1, <1>2, <1>4, <1>5, <1>6, StartKeeps DEF q

\* The other requests find their document.
LEMMA StartFoundKeeps ==
    ASSUME PostingInv, NEW r \in Slot, NEW op, NEW d \in Doc, NEW key \in Press \cup {NoPress}, NEW its, NEW at,
           Start(r, op, d, key, its, at),
           op \in (WorkOp \cup AddOp) \ {"receive"},
           at \in {"check", "key", "add"}, at = "add" <=> op \in AddOp,
           d \in Paper <=> op \in ReceiptOp \cup {"addReceiptItem"}, its \subseteq Good,
           paper[d].status # "NONE",
           op \in WorkOp => its = paper[d].items,
           op \in PostOp => its # {} /\ paper[d].status = "DRAFT",
           op \in ReverseOp => paper[d].status \in Done
    PROVE  PostingInv'
<1> DEFINE q == Begin(op, d, key, its, at)
<1>1. q.op = op /\ q.paper = d /\ q.items = its /\ IsNewHere(q)
  BY BeginParts, UnusedParts DEF IsNewHere, Shaped
<1> HIDE DEF q
<1>2. Began(q, paper, moved)
  BY <1>1 DEF Began, Done, WorkOp, PostOp
<1>3. ASSUME NEW u \in Slot \ {r} PROVE Pair(q, request[u])
  <2>1. Known(request[u], paper, left, onHand, moved, keyed, astray, overtaken, apart)
    BY DEF PostingInv
  <2> QED
    BY <1>1, <2>1, NewPair DEF WorkOp, PostOp
<1> QED
  BY <1>2, <1>3, StartKeeps DEF q

LEMMA StartsKeep ==
    ASSUME PostingInv, NEW r \in Slot, NEW d \in Doc, NEW key \in Press \cup {NoPress},
           \/ d \in Paper /\ (StartPosting(r, d, key) \/ StartReversing(r, d, key))
           \/ d \in Loss /\ (StartLoss(r, d, key) \/ StartReturn(r, d, key))
           \/ \E i \in Good : \/ d \in Paper /\ StartAdding(r, d, i)
                              \/ d \in Loss /\ StartAddingLoss(r, d, i)
    PROVE  PostingInv'
<1>1. paper[d].items \subseteq Good
  BY DEF PostingInv, Committed, Stocked, Document
<1>2. d \in Loss => d \notin Paper
  BY PostingAssumption
<1> USE DEF WorkOp, PostOp, ReverseOp, AddOp, ReceiptOp, Done
<1>3. CASE d \in Paper /\ StartPosting(r, d, key)
  <2>1. /\ Start(r, "postReceipt", d, key, paper[d].items, "check")
        /\ paper[d].status = "DRAFT" /\ paper[d].items # {}
    BY <1>3 DEF StartPosting
  <2> QED
    BY <1>1, <1>3, <2>1, StartFoundKeeps
<1>4. CASE d \in Paper /\ StartReversing(r, d, key)
  <2>1. Start(r, "reverseReceipt", d, key, paper[d].items, "key") /\ paper[d].status = "POSTED"
    BY <1>4 DEF StartReversing
  <2> QED
    BY <1>1, <1>4, <2>1, StartFoundKeeps
<1>5. CASE d \in Loss /\ StartLoss(r, d, key)
  <2>1. /\ Start(r, "post", d, key, paper[d].items, "key")
        /\ paper[d].status = "DRAFT" /\ paper[d].items # {}
    BY <1>5 DEF StartLoss
  <2> QED
    BY <1>1, <1>2, <1>5, <2>1, StartFoundKeeps
<1>6. CASE d \in Loss /\ StartReturn(r, d, key)
  <2>1. Start(r, "reverse", d, key, paper[d].items, "key") /\ paper[d].status = "POSTED"
    BY <1>6 DEF StartReturn
  <2> QED
    BY <1>1, <1>2, <1>6, <2>1, StartFoundKeeps
<1>7. ASSUME NEW i \in Good, d \in Paper, StartAdding(r, d, i) PROVE PostingInv'
  <2>1. Start(r, "addReceiptItem", d, NoPress, {i}, "add") /\ paper[d].status = "DRAFT" /\ {i} \subseteq Good
    BY <1>7 DEF StartAdding
  <2> QED
    BY <1>7, <2>1, StartFoundKeeps
<1>8. ASSUME NEW i \in Good, d \in Loss, StartAddingLoss(r, d, i) PROVE PostingInv'
  <2>1. Start(r, "addItem", d, NoPress, {i}, "add") /\ paper[d].status = "DRAFT" /\ {i} \subseteq Good
    BY <1>8 DEF StartAddingLoss
  <2> QED
    BY <1>2, <1>8, <2>1, StartFoundKeeps
<1> QED
  BY <1>3, <1>4, <1>5, <1>6, <1>7, <1>8

-----------------------------------------------------------------------------
\* A request goes on, or is given up.

LEMMA UnusedPair ==
    ASSUME NEW t, NEW P, NEW L, NEW H, NEW M, NEW K, NEW ast, NEW ovt, NEW apt,
           Known(t, P, L, H, M, K, ast, ovt, apt)
    PROVE  Pair(Unused, t)
<1>1. t.op = "receive" => t.paper # Before
  <2>1. CASE t = Unused
    BY <2>1, UnusedParts
  <2>2. CASE t # Unused
    BY <2>2, PostingAssumption DEF Known, Busy, Shaped, Doc
  <2> QED
    BY <2>1, <2>2
<1> QED
  BY <1>1, UnusedParts DEF Pair

LEMMA GivenUp ==
    ASSUME PostingInv, NEW r \in Slot, Fail(r)
    PROVE  PostingInv'
<1>1. Becomes(r, Unused) /\ overtaken' = overtaken
  BY DEF Fail, Becomes, history
<1>2. Apart(r, Unused)
  BY UnusedPair DEF PostingInv, Apart
<1>3. KnownNow(Unused)
  BY DEF KnownNow, Known
<1> QED
  BY <1>1, <1>2, <1>3, PrivatePosting

BusyNow(t) == Busy(t, paper, left, onHand, moved, keyed, astray, overtaken, apart)

LEMMA AtWork ==
    ASSUME PostingInv, NEW r \in Slot, request[r].pc # "idle"
    PROVE  BusyNow(request[r]) /\ \A u \in Slot \ {r} : Pair(request[r], request[u])
BY UnusedParts DEF PostingInv, Known, BusyNow

GoesOn(q, t) ==
    /\ Agree(q, t) /\ q.found = t.found
    /\ Shaped(q) /\ Phase(q, paper, astray) /\ KeepsNew(q, keyed) /\ Counted(q, paper, astray, apart)

LEMMA GoesOnKeeps ==
    ASSUME PostingInv, NEW r \in Slot, NEW q, NEW t, BusyNow(t), GoesOn(q, t),
           Becomes(r, q), Apart(r, q), overtaken' = overtaken
    PROVE  PostingInv'
<1>1. Began(q, paper, moved) /\ FoundFits(q, moved) /\ Moves(q, left, onHand, moved, overtaken)
  BY AgreeKnows DEF GoesOn, BusyNow, Busy
<1>2. KnownNow(q)
  BY <1>1 DEF GoesOn, KnownNow, Known, Busy
<1> QED
  BY <1>2, PrivatePosting

LEMMA SubmittedKeeps ==
    ASSUME PostingInv, NEW r \in Slot, Submitted(r)
    PROVE  PostingInv'
<1> DEFINE t == request[r]
           q == [t EXCEPT !.opened = TRUE, !.pc = "check"]
<1>1. t.pc = "open" /\ Becomes(r, q) /\ overtaken' = overtaken
  BY DEF Submitted, At, Becomes, history
<1>2. BusyNow(t) /\ \A u \in Slot \ {r} : Pair(t, request[u])
  BY <1>1, AtWork
<1> HIDE DEF t
<1>3. Agree(q, t) /\ q.found = t.found /\ q.pc = "check" /\ (q.keeps <=> t.keeps)
  BY <1>2 DEF BusyNow, Busy, Shaped, Agree
<1> HIDE DEF q
<1>4. Shaped(q) /\ ~q.keeps /\ q.moves = {}
  BY <1>1, <1>2, <1>3 DEF BusyNow, Busy, Shaped, Phase, Agree
<1>5. GoesOn(q, t)
  BY <1>3, <1>4 DEF GoesOn, Phase, KeepsNew, Counted
<1>6. Apart(r, q)
  BY <1>2, <1>3, PairAgrees DEF Apart
<1> QED
  BY <1>1, <1>2, <1>5, <1>6, GoesOnKeeps

LEMMA CheckKeeps ==
    ASSUME PostingInv, NEW r \in Slot, Check(r)
    PROVE  PostingInv'
<1> DEFINE t == request[r]
           q == [t EXCEPT !.pc = "key"]
<1>1. t.pc = "check" /\ Becomes(r, q) /\ overtaken' = overtaken
  BY DEF Check, At, Becomes, history
<1>2. BusyNow(t) /\ \A u \in Slot \ {r} : Pair(t, request[u])
  BY <1>1, AtWork
<1> HIDE DEF t
<1>3. Agree(q, t) /\ q.found = t.found /\ q.pc = "key" /\ (q.keeps <=> t.keeps)
  BY <1>2 DEF BusyNow, Busy, Shaped, Agree
<1> HIDE DEF q
<1>4. Shaped(q) /\ ~q.keeps /\ q.moves = {}
  BY <1>1, <1>2, <1>3 DEF BusyNow, Busy, Shaped, Phase, Agree
<1>5. GoesOn(q, t)
  BY <1>3, <1>4 DEF GoesOn, Phase, KeepsNew, Counted
<1>6. Apart(r, q)
  BY <1>2, <1>3, PairAgrees DEF Apart
<1> QED
  BY <1>1, <1>2, <1>5, <1>6, GoesOnKeeps

LEMMA Scopes ==
    /\ Scope["receive"] = "goods-receipt-post" /\ Scope["postReceipt"] = "goods-receipt-post"
    /\ Scope["reverseReceipt"] = "goods-receipt-reverse"
    /\ Scope["post"] = "write-off-post" /\ Scope["reverse"] = "write-off-reverse"
BY DEF Scope

LEMMA LookUpKeeps ==
    ASSUME PostingInv, NEW r \in Slot, LookUp(r)
    PROVE  PostingInv'
<1> DEFINE t == request[r]
           at == IF t.op \in ReverseOp THEN "find" ELSE "lines"
<1>1. t.pc = "key" /\ overtaken' = overtaken /\ UNCHANGED <<paper, stock, supply, astray, apart>>
  BY DEF LookUp, At, history
<1>2. BusyNow(t) /\ \A u \in Slot \ {r} : Pair(t, request[u])
  BY <1>1, AtWork
<1>3. Shaped(t) /\ ~t.keeps /\ t.moves = {} /\ t.op \in WorkOp
  BY <1>1, <1>2 DEF BusyNow, Busy, Shaped, Phase
<1>4. CASE /\ t.key = NoPress \/ MayKeep(r)
           /\ request' = [request EXCEPT ![r].keeps = t.key # NoPress, ![r].pc = at]
  <2> DEFINE q == [t EXCEPT !.keeps = t.key # NoPress, !.pc = at]
  <2>1. Becomes(r, q)
    BY <1>1, <1>4 DEF Becomes
  <2>2. \/ t.key = NoPress
        \/ /\ \A k \in keyed : ~(k.scope = Scope[t.op] /\ k.key = t.key)
           /\ t.op \in ReceiptOp => \A u \in Slot \ {r} :
                 ~(request[u].keeps /\ request[u].key = t.key /\ Scope[request[u].op] = Scope[t.op])
    BY <1>4 DEF MayKeep, Keyed, Awaited
  <2> HIDE DEF t
  <2>3. Agree(q, t) /\ q.found = t.found /\ q.pc = at /\ (q.keeps <=> t.key # NoPress)
    BY <1>3 DEF Shaped, Agree
  <2> HIDE DEF q
  <2>4. Shaped(q)
    BY <1>3, <2>3 DEF Shaped, Agree, WorkOp, AddOp, PostOp, ReverseOp
  <2>5. Phase(q, paper, astray) /\ Counted(q, paper, astray, apart)
    BY <1>3, <2>3 DEF Phase, Counted, Agree
  <2>6. KeepsNew(q, keyed)
    BY <2>2, <2>3 DEF KeepsNew, Agree
  <2>7. Apart(r, q)
    BY <1>2, <2>2, <2>3 DEF Apart, Pair, Agree
  <2> QED
    BY <1>1, <1>2, <2>1, <2>3, <2>4, <2>5, <2>6, <2>7, GoesOnKeeps DEF GoesOn
<1>5. CASE /\ \E k \in Keyed(r) : k.paper = t.paper
           /\ request' = [request EXCEPT ![r].pc = "count"]
  <2> DEFINE q == [t EXCEPT !.pc = "count"]
  <2>1. Becomes(r, q)
    BY <1>1, <1>5 DEF Becomes
  <2>2. PICK k \in keyed : k.scope = Scope[t.op] /\ k.paper = t.paper
    BY <1>5 DEF Keyed
  <2> HIDE DEF t
  <2>3. Agree(q, t) /\ q.found = t.found /\ q.pc = "count" /\ (q.keeps <=> t.keeps)
    BY <1>3 DEF Shaped, Agree
  <2> HIDE DEF q
  <2>4. Shaped(q)
    BY <1>3, <2>3 DEF Shaped, Agree, WorkOp, AddOp, PostOp, ReverseOp
  <2>5. t.op \in ReverseOp => k.scope \in ReverseScope
    BY <2>2, Scopes DEF ReverseOp, ReverseScope
  <2>6. LetOff(q, paper, astray)
    BY <1>3, <2>2, <2>3, <2>5 DEF LetOff, Agree, PostingInv, Committed, KeysFit
  <2>7. Phase(q, paper, astray) /\ Counted(q, paper, astray, apart) /\ KeepsNew(q, keyed)
    BY <1>3, <2>3, <2>6 DEF Phase, Counted, Agree, KeepsNew
  <2>8. Apart(r, q)
    BY <1>2, <2>3, PairAgrees DEF Apart
  <2> QED
    BY <1>1, <1>2, <2>1, <2>3, <2>4, <2>7, <2>8, GoesOnKeeps DEF GoesOn
<1> QED
  BY <1>4, <1>5 DEF LookUp

-----------------------------------------------------------------------------
\* What the reversal looks at, and the status it counts.

LEMMA BusyAt ==
    ASSUME PostingInv, NEW r \in Slot, request[r].pc # "idle"
    PROVE  LET t == request[r]
           IN  /\ Shaped(t) /\ Began(t, paper, moved) /\ Phase(t, paper, astray)
               /\ FoundFits(t, moved) /\ Moves(t, left, onHand, moved, overtaken)
               /\ KeepsNew(t, keyed) /\ Counted(t, paper, astray, apart)
BY AtWork DEF BusyNow, Busy

LEMMA LookAtKeeps ==
    ASSUME PostingInv, NEW r \in Slot, LookAt(r)
    PROVE  PostingInv'
<1> DEFINE t == request[r]
           d == t.paper
           bins == {<<d, i>> : i \in {i \in t.items : Stored(d, i, "RECEIPT") # {}}}
           taken == {m.of : m \in {m \in moved : m.paper = d /\ m.type = "WRITE_OFF"}}
           seen == IF t.op = "reverseReceipt" THEN bins ELSE taken
           q == [t EXCEPT !.pc = "lines", !.found = seen]
<1>1. t.pc = "find" /\ Becomes(r, q) /\ overtaken' = overtaken
  BY DEF LookAt, At, Becomes, history
<1>2. BusyNow(t) /\ \A u \in Slot \ {r} : Pair(t, request[u])
  BY <1>1, AtWork
<1>3. /\ Shaped(t) /\ t.moves = {} /\ t.op \in ReverseOp /\ Began(t, paper, moved)
      /\ Moves(t, left, onHand, moved, overtaken) /\ KeepsNew(t, keyed)
  BY <1>1, <1>2 DEF BusyNow, Busy, Shaped, Phase
<1>4. \A h \in seen : \E m \in moved : m.paper = d /\ m.of = h /\ m.type = Out(d)
  <2>1. CASE t.op = "reverseReceipt"
    <3>1. d \in Paper
      BY <1>3, <2>1 DEF Shaped, ReceiptOp
    <3>2. ASSUME NEW i \in t.items, Stored(d, i, "RECEIPT") # {}
          PROVE  \E m \in moved : m.paper = d /\ m.of = <<d, i>> /\ m.type = Out(d)
      <4>1. PICK m \in moved : m.paper = d /\ m.item = i /\ m.type = "RECEIPT"
        BY <3>2 DEF Stored
      <4>2. m.of = <<d, i>>
        BY <4>1 DEF PostingInv, Committed, MovesFit
      <4> QED
        BY <3>1, <4>1, <4>2 DEF Out
    <3> QED
      BY <2>1, <3>2
  <2>2. CASE t.op # "reverseReceipt"
    <3>1. d \notin Paper
      BY <1>3, <2>2 DEF Shaped, ReceiptOp, ReverseOp
    <3> QED
      BY <2>2, <3>1 DEF Out
  <2> QED
    BY <2>1, <2>2
<1>5. ASSUME NEW i \in t.items, <<d, i>> \notin astray PROVE \E h \in seen : h[2] = i
  <2>1. d \in Doc /\ i \in paper[d].items /\ paper[d].status \in Done
    BY <1>3 DEF Shaped, Began
  <2>2. PICK m \in moved : m.paper = d /\ m.item = i /\ m.type = Out(d)
    BY <1>5, <2>1 DEF PostingInv, Committed, Once, Has
  <2>3. m.of[2] = i
    BY <2>2 DEF PostingInv, Committed, MovesFit
  <2>4. CASE t.op = "reverseReceipt"
    <3>1. d \in Paper
      BY <1>3, <2>4 DEF Shaped, ReceiptOp
    <3>2. m \in Stored(d, i, "RECEIPT")
      BY <2>2, <3>1 DEF Stored, Out
    <3>3. <<d, i>> \in seen
      BY <2>4, <3>2
    <3> QED
      BY <3>3
  <2>5. CASE t.op # "reverseReceipt"
    <3>1. d \notin Paper
      BY <1>3, <2>5 DEF Shaped, ReceiptOp, ReverseOp
    <3>2. m.of \in seen
      BY <2>2, <2>5, <3>1 DEF Out
    <3> QED
      BY <2>3, <3>2
  <2> QED
    BY <2>4, <2>5
<1> HIDE DEF t, seen
<1>6. Agree(q, t) /\ q.found = seen /\ q.pc = "lines" /\ (q.keeps <=> t.keeps)
  BY <1>3 DEF Shaped, Agree
<1> HIDE DEF q
<1>7. Shaped(q)
  BY <1>3, <1>6 DEF Shaped, Agree, AddOp, ReverseOp
<1>8. Phase(q, paper, astray) /\ Counted(q, paper, astray, apart) /\ KeepsNew(q, keyed)
  BY <1>3, <1>5, <1>6 DEF Phase, Counted, Agree, KeepsNew, AllFound
<1>9. FoundFits(q, moved) /\ Began(q, paper, moved)
  <2>1. Began(q, paper, moved)
    BY <1>3, <1>6, AgreeKnows
  <2>2. q.paper = d
    BY <1>6 DEF Agree
  <2> QED
    BY <1>4, <1>6, <2>1, <2>2 DEF FoundFits
<1>10. Moves(q, left, onHand, moved, overtaken)
  BY <1>3, <1>6 DEF Moves, Agree
<1>11. Apart(r, q)
  BY <1>2, <1>6, PairAgrees DEF Apart
<1>12. KnownNow(q)
  BY <1>1, <1>7, <1>8, <1>9, <1>10 DEF KnownNow, Known, Busy
<1> QED
  BY <1>1, <1>11, <1>12, PrivatePosting

LEMMA CountKeeps ==
    ASSUME PostingInv, NEW r \in Slot, Count(r)
    PROVE  PostingInv'
<1> DEFINE t == request[r]
           found == IF t.op \in ReceiptOp THEN Reckoned(Reload(r)) ELSE "NONE"
           q == [t EXCEPT !.pc = "end", !.status = found]
<1>1. t.pc \in {"lines", "count"} /\ Becomes(r, q) /\ overtaken' = overtaken
  BY DEF Count, IsThrough, At, Becomes, history
<1>2. BusyNow(t) /\ \A u \in Slot \ {r} : Pair(t, request[u])
  BY <1>1, AtWork
<1>3. Shaped(t) /\ Phase(t, paper, astray) /\ KeepsNew(t, keyed)
  BY <1>2 DEF BusyNow, Busy
<1>4. LetOff(t, paper, astray) \/ Through(t, astray)
  BY <1>1, <1>3 DEF Count, IsThrough, At, Phase, Through
<1>5. found = IF t.op \in ReceiptOp THEN Reckoned(Leaves(t, paper)) ELSE "NONE"
  BY DEF Reload, Outcome, Leaves
<1> HIDE DEF t, found
<1>6. /\ Agree(q, t) /\ q.found = t.found /\ q.pc = "end" /\ (q.keeps <=> t.keeps)
      /\ q.status = found
  BY <1>3 DEF Shaped, Agree
<1> HIDE DEF q
<1>7. Shaped(q)
  BY <1>1, <1>3, <1>6 DEF Shaped, Agree, AddOp
<1>8. Phase(q, paper, astray) /\ KeepsNew(q, keyed)
  BY <1>3, <1>4, <1>6 DEF Phase, Agree, KeepsNew, LetOff, Through, AllFound
<1>9. Leaves(q, paper) = Leaves(t, paper)
  BY <1>6 DEF Leaves, Agree
<1>10. \A P : Reckoned(P) \in Counts
  BY DEF Reckoned, Counts
<1>11. Counted(q, paper, astray, apart)
  BY <1>5, <1>6, <1>9, <1>10 DEF Counted, Agree
<1>12. Apart(r, q)
  BY <1>2, <1>6, PairAgrees DEF Apart
<1> QED
  BY <1>1, <1>2, <1>6, <1>7, <1>8, <1>11, <1>12, GoesOnKeeps DEF GoesOn

-----------------------------------------------------------------------------
\* One item, under the lock of its balance.

Working(t, m, rest, v) ==
    [t EXCEPT !.moves = @ \cup {m}, !.left = With(@, m.of, rest), !.hand = With(@, m.item, v)]

LEMMA WorkingParts ==
    ASSUME NEW t, Shaped(t), NEW m, NEW rest, NEW v
    PROVE  LET q == Working(t, m, rest, v)
           IN  /\ DOMAIN q = DOMAIN t /\ q.op = t.op /\ q.pc = t.pc /\ q.paper = t.paper /\ q.key = t.key
               /\ q.items = t.items /\ q.found = t.found /\ (q.keeps <=> t.keeps)
               /\ q.moves = t.moves \cup {m}
               /\ q.left = With(t.left, m.of, rest) /\ q.hand = With(t.hand, m.item, v)
BY DEF Shaped, Working

\* The movement m that t makes: of an item it has not moved before.
Fresh(t, m, M) ==
    /\ m \in Movement /\ m.paper = t.paper /\ m.type = TypeOf(t) /\ m.item = m.of[2]
    /\ m.item \notin DOMAIN t.hand
    /\ ~Has(M, m.paper, m.item, m.type)

LEMMA WorkingMoves ==
    ASSUME NEW t, NEW m, NEW rest \in Nat, NEW v \in Nat, NEW L, NEW H, NEW M, NEW ovt, NEW now,
           Shaped(t), Moves(t, L, H, M, ovt), Fresh(t, m, M), ovt => now,
           Effect(Working(t, m, rest, v), m, L, H, M, now)
    PROVE  Moves(Working(t, m, rest, v), L, H, M, now)
<1> DEFINE q == Working(t, m, rest, v)
<1>1. /\ q.op = t.op /\ q.paper = t.paper /\ q.items = t.items /\ q.found = t.found
      /\ q.moves = t.moves \cup {m}
      /\ q.left = With(t.left, m.of, rest) /\ q.hand = With(t.hand, m.item, v)
  BY WorkingParts
<1>2. Effect(q, m, L, H, M, now)
  OBVIOUS
<1> HIDE DEF q
<1>3. /\ DOMAIN q.left = DOMAIN t.left \cup {m.of} /\ DOMAIN q.hand = DOMAIN t.hand \cup {m.item}
      /\ q.left[m.of] = rest /\ q.hand[m.item] = v
      /\ \A h \in DOMAIN t.left : h # m.of => q.left[h] = t.left[h]
      /\ \A i \in DOMAIN t.hand : i # m.item => q.hand[i] = t.hand[i]
  BY <1>1 DEF With
<1>4. ASSUME NEW n \in t.moves
      PROVE  /\ n.item \in DOMAIN t.hand /\ n.item # m.item /\ n.of # m.of
             /\ q.left[n.of] = t.left[n.of] /\ q.hand[n.item] = t.hand[n.item]
  BY <1>3 DEF Moves, Fresh
<1>5. TypeOf(q) = TypeOf(t)
  BY <1>1 DEF TypeOf
<1>6. ASSUME NEW n \in t.moves PROVE Effect(q, n, L, H, M, now)
  <2>1. Effect(t, n, L, H, M, ovt)
    BY DEF Moves
  <2> QED
    BY <1>1, <1>4, <2>1 DEF Effect, Adds, Takes
<1>7. ASSUME NEW n \in q.moves
      PROVE  /\ n \in Movement /\ n.paper = q.paper /\ n.type = TypeOf(q) /\ n.item = n.of[2]
             /\ ~Has(M, n.paper, n.item, n.type)
             /\ q.left[n.of] \in Nat /\ q.hand[n.item] \in Nat
             /\ Effect(q, n, L, H, M, now)
  <2>1. CASE n = m
    BY <1>1, <1>2, <1>3, <1>5, <2>1 DEF Fresh
  <2>2. CASE n \in t.moves
    BY <1>1, <1>4, <1>5, <1>6, <2>2 DEF Moves
  <2> QED
    BY <1>1, <2>1, <2>2
<1>8. \A n, o \in q.moves : n.item = o.item => n = o
  BY <1>1, <1>4 DEF Moves
<1>9. DOMAIN q.left = {n.of : n \in q.moves} /\ DOMAIN q.hand = {n.item : n \in q.moves}
  BY <1>1, <1>3 DEF Moves
<1>10. Moves(q, L, H, M, now)
  BY <1>7, <1>8, <1>9 DEF Moves
<1> QED
  BY <1>10 DEF q

LEMMA MoveUnitKeeps ==
    ASSUME PostingInv, NEW r \in Slot, NEW h \in Bin, NEW type, NEW n \in Int, NEW rest \in Nat,
           At(r, "lines"), MoveUnit(r, h, type, n, rest), overtaken => overtaken',
           type = TypeOf(request[r]),
           LET m == Move(request[r].paper, h[2], type, h)
           IN  Effect(Working(request[r], m, rest, onHand[h[2]] + n), m, left, onHand, moved, overtaken')
    PROVE  PostingInv'
<1> DEFINE t == request[r]
           m == Move(t.paper, h[2], type, h)
           v == onHand[h[2]] + n
           q == Working(t, m, rest, v)
<1>1. t.pc = "lines" /\ BusyNow(t) /\ \A u \in Slot \ {r} : Pair(t, request[u])
  BY AtWork DEF At
<1>2. Becomes(r, q)
  BY DEF MoveUnit, Becomes, Working, Move, stock
<1>3. /\ h[2] \notin DOMAIN t.hand /\ onHand[h[2]] + n >= 0
      /\ \A u \in Slot \ {r} : h[2] \notin DOMAIN request[u].hand
      /\ Stored(t.paper, h[2], type) = {}
  BY DEF MoveUnit, Unlocked, IsNew
<1>4. h[2] \in Good /\ v \in Nat
  <2>1. h[2] \in Good
    BY DEF Bin
  <2>2. onHand[h[2]] \in Nat
    BY <2>1 DEF PostingInv, Committed, Stocked
  <2> QED
    BY <1>3, <2>1, <2>2
<1>5. /\ Shaped(t) /\ Began(t, paper, moved) /\ Phase(t, paper, astray) /\ FoundFits(t, moved)
      /\ Moves(t, left, onHand, moved, overtaken) /\ KeepsNew(t, keyed)
  BY <1>1 DEF BusyNow, Busy
<1>6. m.paper = t.paper /\ m.item = h[2] /\ m.type = type /\ m.of = h
  BY DEF Move
<1>7. m \in Movement
  <2>1. t.paper \in Doc /\ type \in {"RECEIPT", "RECEIPT_REVERSAL", "WRITE_OFF", "WRITE_OFF_REVERSAL"}
    BY <1>5 DEF Shaped, TypeOf, Out, Back
  <2> QED
    BY <1>4, <2>1 DEF Movement, Move
<1>8. Effect(q, m, left, onHand, moved, overtaken')
  OBVIOUS
<1>9. type = TypeOf(t) /\ ~Has(moved, t.paper, h[2], type)
  BY <1>3 DEF Has, Stored
<1> HIDE DEF t, m, v
<1>10. Fresh(t, m, moved)
  BY <1>3, <1>6, <1>7, <1>9 DEF Fresh
<1>11. Moves(q, left, onHand, moved, overtaken')
  BY <1>4, <1>5, <1>8, <1>10, WorkingMoves
<1>12. /\ DOMAIN q = DOMAIN t /\ q.op = t.op /\ q.pc = t.pc /\ q.paper = t.paper /\ q.key = t.key
       /\ q.items = t.items /\ q.found = t.found /\ (q.keeps <=> t.keeps)
       /\ q.hand = With(t.hand, m.item, v)
  BY <1>5, WorkingParts
<1> HIDE DEF q
<1>13. DOMAIN q.hand = DOMAIN t.hand \cup {h[2]}
  BY <1>6, <1>12 DEF With
<1>14. Shaped(q) /\ Began(q, paper, moved)
  BY <1>5, <1>12 DEF Shaped, Began
<1>15. Phase(q, paper, astray) /\ FoundFits(q, moved) /\ KeepsNew(q, keyed) /\ Counted(q, paper, astray, apart)
  BY <1>1, <1>5, <1>12 DEF Phase, AllFound, FoundFits, KeepsNew, Counted
<1>16. KnownNow(q)
  BY <1>11, <1>14, <1>15 DEF KnownNow, Known, Busy
<1>17. Apart(r, q)
  BY <1>1, <1>3, <1>12, <1>13 DEF Apart, Pair
<1> QED
  BY <1>2, <1>16, <1>17, PrivatePosting

\* The batch and the balance as the line leaves them.
LEMMA WorkedOn ==
    ASSUME NEW t, NEW m, NEW rest, NEW v, Shaped(t)
    PROVE  LET q == Working(t, m, rest, v)
           IN  /\ q.left[m.of] = rest /\ q.hand[m.item] = v
               /\ q.op = t.op /\ q.paper = t.paper /\ q.items = t.items /\ q.found = t.found
<1>1. LET q == Working(t, m, rest, v)
      IN  /\ q.op = t.op /\ q.paper = t.paper /\ q.items = t.items /\ q.found = t.found
          /\ q.left = With(t.left, m.of, rest) /\ q.hand = With(t.hand, m.item, v)
  BY WorkingParts
<1> QED
  BY <1>1 DEF With

LEMMA LinesKeep ==
    ASSUME PostingInv, NEW r \in Slot, EnterLine(r) \/ ReverseLine(r) \/ TakeLine(r) \/ RestoreLine(r)
    PROVE  PostingInv'
<1> DEFINE t == request[r]
           d == t.paper
<1>1. At(r, "lines") /\ t.pc = "lines" /\ overtaken \in {overtaken}
  BY DEF EnterLine, ReverseLine, TakeLine, RestoreLine, At
<1>2. Shaped(t) /\ FoundFits(t, moved)
  BY <1>1, BusyAt
<1>3. left \in [Bin -> Nat] /\ onHand \in [Good -> Nat] /\ moved \subseteq Movement
  BY DEF PostingInv, Committed, Stocked
<1>4. \A h \in t.found : h \in Bin
  BY <1>2, <1>3 DEF FoundFits, Movement
<1>5. \A h \in Bin : h[2] \in Good /\ left[h] \in Nat /\ onHand[h[2]] \in Nat
  BY <1>3 DEF Bin
<1>6. ASSUME EnterLine(r) PROVE PostingInv'
  <2>1. PICK i \in t.items : MoveUnit(r, <<d, i>>, "RECEIPT", 1, 1)
    BY <1>6 DEF EnterLine
  <2>2. t.op \in {"receive", "postReceipt"} /\ overtaken' = overtaken
    BY <1>6 DEF EnterLine
  <2> DEFINE h == <<d, i>>
             m == Move(d, h[2], "RECEIPT", h)
  <2>3. d \in Paper /\ i \in Good /\ h \in Bin /\ h[2] = i
    BY <1>2, <2>2 DEF Shaped, ReceiptOp, Bin
  <2>4. TypeOf(t) = "RECEIPT"
    BY <2>2, <2>3 DEF TypeOf, PostOp, Out
  <2>5. m.of = h /\ m.item = i
    BY DEF Move
  <2> HIDE DEF m, t
  <2>6. Effect(Working(t, m, 1, onHand[h[2]] + 1), m, left, onHand, moved, overtaken')
    <3> DEFINE q == Working(t, m, 1, onHand[h[2]] + 1)
    <3>1. /\ q.left[m.of] = 1 /\ q.hand[m.item] = onHand[i] + 1
          /\ q.op = t.op /\ q.paper = d /\ q.items = t.items
      BY <1>2, WorkedOn DEF t
    <3> HIDE DEF q
    <3>2. Effect(q, m, left, onHand, moved, overtaken')
      BY <2>2, <2>5, <3>1 DEF Effect
    <3> QED
      BY <3>2 DEF q
  <2> QED
    BY <1>1, <2>1, <2>2, <2>3, <2>4, <2>6, MoveUnitKeeps DEF m, t
<1>7. ASSUME ReverseLine(r) PROVE PostingInv'
  <2>1. PICK h \in t.found : /\ MoveUnit(r, h, "RECEIPT_REVERSAL", -1, 0)
                             /\ overtaken' = (overtaken \/ left[h] # 1)
    BY <1>7 DEF ReverseLine
  <2>2. t.op = "reverseReceipt"
    BY <1>7 DEF ReverseLine
  <2> DEFINE m == Move(d, h[2], "RECEIPT_REVERSAL", h)
             v == onHand[h[2]] + (-1)
  <2>3. d \in Paper /\ h \in Bin /\ onHand[h[2]] \in Nat
    BY <1>2, <1>4, <1>5, <2>2 DEF Shaped, ReceiptOp
  <2>4. TypeOf(t) = "RECEIPT_REVERSAL"
    BY <2>2, <2>3 DEF TypeOf, PostOp, Back
  <2>5. m.of = h /\ m.item = h[2]
    BY DEF Move
  <2>6. (overtaken => overtaken') /\ (overtaken' \/ left[h] = 1)
    BY <2>1
  <2>7. onHand[h[2]] = v + 1
    BY <2>3
  <2> HIDE DEF m, t, v
  <2>8. Effect(Working(t, m, 0, v), m, left, onHand, moved, overtaken')
    <3> DEFINE q == Working(t, m, 0, v)
    <3>1. /\ q.left[m.of] = 0 /\ q.hand[m.item] = v
          /\ q.op = t.op /\ q.found = t.found
      BY <1>2, WorkedOn DEF t
    <3> HIDE DEF q
    <3>2. Effect(q, m, left, onHand, moved, overtaken')
      BY <2>2, <2>5, <2>6, <2>7, <3>1 DEF Effect
    <3> QED
      BY <3>2 DEF q
  <2> QED
    BY <1>1, <2>1, <2>3, <2>4, <2>6, <2>8, MoveUnitKeeps DEF m, t, v
<1>8. ASSUME TakeLine(r) PROVE PostingInv'
  <2>1. PICK i \in t.items : \E h \in Live(i) : MoveUnit(r, h, "WRITE_OFF", -1, left[h] - 1)
    BY <1>8 DEF TakeLine
  <2>2. PICK h \in Live(i) : MoveUnit(r, h, "WRITE_OFF", -1, left[h] - 1)
    BY <2>1
  <2>3. t.op = "post" /\ overtaken' = overtaken
    BY <1>8 DEF TakeLine
  <2> DEFINE m == Move(d, h[2], "WRITE_OFF", h)
             v == onHand[h[2]] + (-1)
             rest == left[h] - 1
  <2>4. h \in Bin /\ h[2] = i /\ left[h] > 0 /\ ~Has(moved, h[1], h[2], "RECEIPT_REVERSAL")
    BY DEF Live, BinsOf, IsReversed, Stored, Has
  <2>5. d \notin Paper
    BY <1>2, <2>3 DEF Shaped, ReceiptOp
  <2>6. TypeOf(t) = "WRITE_OFF"
    BY <2>3, <2>5 DEF TypeOf, PostOp, Out
  <2>7. m.of = h /\ m.item = h[2]
    BY DEF Move
  <2>8. rest \in Nat /\ left[h] = rest + 1 /\ onHand[h[2]] = v + 1
    BY <1>5, <2>4
  <2> HIDE DEF m, t, v, rest
  <2>9. Effect(Working(t, m, rest, v), m, left, onHand, moved, overtaken')
    <3> DEFINE q == Working(t, m, rest, v)
    <3>1. /\ q.left[m.of] = rest /\ q.hand[m.item] = v
          /\ q.op = t.op /\ q.items = t.items
      BY <1>2, WorkedOn DEF t
    <3> HIDE DEF q
    <3>2. Effect(q, m, left, onHand, moved, overtaken')
      BY <2>3, <2>4, <2>7, <2>8, <3>1 DEF Effect, Takes
    <3> QED
      BY <3>2 DEF q
  <2> QED
    BY <1>1, <2>2, <2>3, <2>4, <2>6, <2>8, <2>9, MoveUnitKeeps DEF m, t, v, rest
<1>9. ASSUME RestoreLine(r) PROVE PostingInv'
  <2>1. PICK h \in t.found : MoveUnit(r, h, "WRITE_OFF_REVERSAL", 1, left[h] + 1)
    BY <1>9 DEF RestoreLine
  <2>2. t.op = "reverse" /\ overtaken' = overtaken
    BY <1>9 DEF RestoreLine
  <2> DEFINE m == Move(d, h[2], "WRITE_OFF_REVERSAL", h)
             v == onHand[h[2]] + 1
             rest == left[h] + 1
  <2>3. h \in Bin /\ left[h] \in Nat /\ onHand[h[2]] \in Nat /\ rest \in Nat
    BY <1>4, <1>5
  <2>4. d \notin Paper
    BY <1>2, <2>2 DEF Shaped, ReceiptOp
  <2>5. TypeOf(t) = "WRITE_OFF_REVERSAL"
    BY <2>2, <2>4 DEF TypeOf, PostOp, Back
  <2>6. m.of = h /\ m.item = h[2]
    BY DEF Move
  <2> HIDE DEF m, t
  <2>7. Effect(Working(t, m, rest, v), m, left, onHand, moved, overtaken')
    <3> DEFINE q == Working(t, m, rest, v)
    <3>1. /\ q.left[m.of] = rest /\ q.hand[m.item] = v
          /\ q.op = t.op /\ q.found = t.found
      BY <1>2, WorkedOn DEF t
    <3> HIDE DEF q
    <3>2. Effect(q, m, left, onHand, moved, overtaken')
      BY <2>2, <2>6, <3>1 DEF Effect, Adds
    <3> QED
      BY <3>2 DEF q
  <2> QED
    BY <1>1, <2>1, <2>2, <2>3, <2>5, <2>7, MoveUnitKeeps DEF m, t
<1> QED
  BY <1>6, <1>7, <1>8, <1>9

-----------------------------------------------------------------------------
\* Documents are created and written up.

Counting(P, g, i) == P[g].status = "POSTED" /\ i \in P[g].items

LEMMA ReckonedSame ==
    ASSUME NEW P, NEW N, \A g \in Paper : \A i \in Good : Counting(P, g, i) <=> Counting(N, g, i)
    PROVE  Reckoned(N) = Reckoned(P)
<1>1. \A i \in Good : PostedWith(N, i) = PostedWith(P, i)
  <2> SUFFICES ASSUME NEW i \in Good
               PROVE  {g \in Paper : N[g].status = "POSTED" /\ i \in N[g].items}
                    = {g \in Paper : P[g].status = "POSTED" /\ i \in P[g].items}
    BY DEF PostedWith
  <2> QED
    BY DEF Counting
<1> QED
  BY <1>1 DEF Reckoned

\* The documents as a request leaves them, one by one.
LEMMA LeavesParts ==
    ASSUME NEW P \in [Doc -> Document], NEW q, q.paper \in Doc
    PROVE  /\ \A d \in Doc \ {q.paper} : Leaves(q, P)[d] = P[d]
           /\ Leaves(q, P)[q.paper].status = IF q.op \in ReverseOp THEN "REVERSED" ELSE "POSTED"
           /\ Leaves(q, P)[q.paper].items = IF q.op = "receive" THEN q.items ELSE P[q.paper].items
<1>1. DOMAIN P = Doc /\ DOMAIN P[q.paper] = {"status", "items"}
  BY DEF Document
<1> QED
  BY <1>1 DEF Leaves

\* Documents that count the same for the supply, as others leave them too.
LEMMA LeavesSame ==
    ASSUME NEW P \in [Doc -> Document], NEW N \in [Doc -> Document], NEW q, q.paper \in Doc,
           N[q.paper].items = P[q.paper].items,
           \A g \in Paper : \A i \in Good : Counting(P, g, i) <=> Counting(N, g, i)
    PROVE  Reckoned(Leaves(q, N)) = Reckoned(Leaves(q, P))
<1>1. ASSUME NEW g \in Paper, NEW i \in Good
      PROVE  Counting(Leaves(q, P), g, i) <=> Counting(Leaves(q, N), g, i)
  <2>1. g \in Doc
    BY DEF Doc
  <2>2. CASE g = q.paper
    BY <2>2, LeavesParts DEF Counting
  <2>3. CASE g # q.paper
    <3>1. Leaves(q, P)[g] = P[g] /\ Leaves(q, N)[g] = N[g]
      BY <2>1, <2>3, LeavesParts
    <3>2. Counting(P, g, i) <=> Counting(N, g, i)
      OBVIOUS
    <3> QED
      BY <3>1, <3>2 DEF Counting
  <2> QED
    BY <2>2, <2>3
<1> QED
  BY <1>1, ReckonedSame

\* Document d is a DRAFT now.
Drafts(P, N, d) ==
    /\ P \in [Doc -> Document] /\ N \in [Doc -> Document]
    /\ P[d].status = "NONE" /\ N[d].status = "DRAFT" /\ N[d].items = P[d].items
    /\ \A e \in Doc \ {d} : N[e] = P[e]

LEMMA DraftCounts ==
    ASSUME NEW P, NEW N, NEW d \in Doc, Drafts(P, N, d)
    PROVE  /\ \A g \in Paper : \A i \in Good : Counting(P, g, i) <=> Counting(N, g, i)
           /\ \A e \in Doc : N[e].items = P[e].items /\ (P[e].status \in Done => N[e] = P[e])
BY DEF Drafts, Counting, Doc, Done

LEMMA DraftCommitted ==
    ASSUME NEW P, NEW N, NEW d \in Doc, Drafts(P, N, d),
           NEW L, NEW H, NEW M, NEW K, NEW sup, NEW ast, NEW ovt, NEW apt,
           Committed(P, L, H, M, K, sup, ast, ovt, apt)
    PROVE  Committed(N, L, H, M, K, sup, ast, ovt, apt)
<1>1. /\ M \subseteq Movement /\ K \subseteq KeyRow /\ N \in [Doc -> Document]
      /\ \A m \in M : m.paper \in Doc
      /\ \A k \in K : k.paper \in Doc
  BY DEF Committed, Stocked, Drafts, Movement, KeyRow
<1>2. \A e \in Doc : N[e].items = P[e].items /\ (P[e].status \in Done => N[e] = P[e])
  BY DraftCounts
<1>3. MovesFit(N, M)
  BY <1>1, <1>2 DEF Committed, MovesFit
<1>4. KeysFit(N, K, ast)
  BY <1>1, <1>2 DEF Committed, KeysFit
<1>5. Once(N, M, ast)
  <2>1. \A e \in Doc : (N[e].status \in Done <=> P[e].status \in Done)
                       /\ (N[e].status = "REVERSED" <=> P[e].status = "REVERSED")
    BY DEF Drafts, Done
  <2> QED
    BY <1>2, <2>1 DEF Committed, Once
<1>6. Reckoned(N) = Reckoned(P)
  BY DraftCounts, ReckonedSame
<1>7. Follows(N, sup, ast, apt)
  BY <1>6 DEF Committed, Follows
<1>8. Stocked(N, L, H, M, K)
  BY <1>1 DEF Committed, Stocked
<1> QED
  BY <1>3, <1>4, <1>5, <1>7, <1>8 DEF Committed

LEMMA DraftKnown ==
    ASSUME NEW P, NEW N, NEW d \in Doc, Drafts(P, N, d),
           NEW q, NEW L, NEW H, NEW M, NEW K, NEW ast, NEW ovt, NEW apt,
           Known(q, P, L, H, M, K, ast, ovt, apt), q.op = "receive" => q.paper # d
    PROVE  Known(q, N, L, H, M, K, ast, ovt, apt)
<1> SUFFICES ASSUME Busy(q, P, L, H, M, K, ast, ovt, apt)
             PROVE  Busy(q, N, L, H, M, K, ast, ovt, apt)
  BY DEF Known
<1>1. Shaped(q) /\ Began(q, P, M) /\ Phase(q, P, ast) /\ Counted(q, P, ast, apt) /\ q.paper \in Doc
  BY DEF Busy, Shaped
<1>2. q.op \in WorkOp => N[q.paper] = P[q.paper]
  BY <1>1 DEF Began, WorkOp, PostOp, Drafts, Done
<1>3. Began(q, N, M)
  BY <1>1, <1>2 DEF Began, WorkOp, PostOp
<1>4. LetOff(q, P, ast) => LetOff(q, N, ast)
  BY <1>1, DraftCounts DEF LetOff
<1>5. Phase(q, N, ast)
  BY <1>1, <1>4 DEF Phase
<1>6. Reckoned(Leaves(q, N)) = Reckoned(Leaves(q, P)) /\ N[q.paper].items = P[q.paper].items
  <2>1. N[q.paper].items = P[q.paper].items /\ P \in [Doc -> Document] /\ N \in [Doc -> Document]
    BY <1>1, DraftCounts DEF Drafts
  <2>2. \A g \in Paper : \A i \in Good : Counting(P, g, i) <=> Counting(N, g, i)
    BY DraftCounts
  <2> QED
    BY <1>1, <2>1, <2>2, LeavesSame
<1>7. Counted(q, N, ast, apt)
  BY <1>1, <1>6 DEF Counted
<1> QED
  BY <1>3, <1>5, <1>7 DEF Busy

LEMMA CreateDrafts ==
    ASSUME PostingInv, NEW d \in Doc, paper[d].status = "NONE",
           \A u \in Slot : request[u].op = "receive" => request[u].paper # d,
           paper' = [paper EXCEPT ![d].status = "DRAFT"],
           UNCHANGED <<stock, supply, request, history>>
    PROVE  PostingInv'
<1>1. paper \in [Doc -> Document]
  BY DEF PostingInv, Committed, Stocked
<1>2. Drafts(paper, paper', d)
  <2>1. paper[d] \in Document
    BY <1>1
  <2>2. [paper[d] EXCEPT !.status = "DRAFT"] \in Document
    BY <2>1 DEF Document
  <2>3. paper' = [e \in Doc |-> IF e = d THEN [paper[d] EXCEPT !.status = "DRAFT"] ELSE paper[e]]
    BY <1>1
  <2>4. paper' \in [Doc -> Document]
    BY <1>1, <2>2, <2>3
  <2>5. paper'[d].status = "DRAFT" /\ paper'[d].items = paper[d].items
    BY <2>1, <2>3 DEF Document
  <2> QED
    BY <1>1, <2>3, <2>4, <2>5 DEF Drafts
<1>3. /\ left' = left /\ onHand' = onHand /\ moved' = moved /\ keyed' = keyed /\ supply' = supply
      /\ request' = request /\ astray' = astray /\ overtaken' = overtaken /\ apart' = apart
  BY DEF stock, history
<1>4. Committed(paper', left, onHand, moved, keyed, supply, astray, overtaken, apart)
  BY <1>2, DraftCommitted DEF PostingInv
<1>5. \A u \in Slot : Known(request[u], paper', left, onHand, moved, keyed, astray, overtaken, apart)
  BY <1>2, DraftKnown DEF PostingInv
<1> QED
  BY <1>3, <1>4, <1>5 DEF PostingInv

LEMMA CreatesKeep ==
    ASSUME PostingInv, NEW d, (d \in Paper /\ CreateReceipt(d)) \/ (d \in Loss /\ Create(d))
    PROVE  PostingInv'
<1>1. CASE d \in Paper /\ CreateReceipt(d)
  BY <1>1, CreateDrafts DEF CreateReceipt, Doc
<1>2. CASE d \in Loss /\ Create(d)
  <2>1. ASSUME NEW u \in Slot, request[u].op = "receive" PROVE request[u].paper # d
    <3>1. Shaped(request[u])
      BY <2>1, UnusedParts DEF PostingInv, Known, Busy
    <3> QED
      BY <1>2, <2>1, <3>1, PostingAssumption DEF Shaped, ReceiptOp
  <2> QED
    BY <1>2, <2>1, CreateDrafts DEF Create, Doc
<1> QED
  BY <1>1, <1>2

-----------------------------------------------------------------------------
\* An item comes in.

\* Document d has more items now, which ast does not know unless d is a DRAFT.
Grows(P, N, d, ast, now) ==
    /\ P \in [Doc -> Document] /\ N \in [Doc -> Document]
    /\ N[d].status = P[d].status /\ P[d].items \subseteq N[d].items
    /\ \E i \in N[d].items : i \notin P[d].items
    /\ \A e \in Doc \ {d} : N[e] = P[e]
    /\ ast \subseteq now
    /\ P[d].status # "DRAFT" => \A i \in N[d].items \ P[d].items : <<d, i>> \in now

LEMMA GrowsParts ==
    ASSUME NEW P, NEW N, NEW d \in Doc, NEW ast, NEW now, Grows(P, N, d, ast, now)
    PROVE  /\ \A e \in Doc : N[e].status = P[e].status /\ P[e].items \subseteq N[e].items
           /\ now = {} => P[d].status = "DRAFT" /\ ast = {}
BY DEF Grows

LEMMA GrowsCounts ==
    ASSUME NEW P, NEW N, NEW d \in Doc, NEW ast, NEW now, Grows(P, N, d, ast, now), now = {}
    PROVE  \A g \in Paper : \A i \in Good : Counting(P, g, i) <=> Counting(N, g, i)
<1>1. P[d].status = "DRAFT"
  BY GrowsParts
<1> QED
  BY <1>1 DEF Grows, Counting, Doc

LEMMA GrowsCommitted ==
    ASSUME NEW P, NEW N, NEW d \in Doc, NEW ast, NEW now, Grows(P, N, d, ast, now),
           NEW L, NEW H, NEW M, NEW K, NEW sup, NEW ovt, NEW apt,
           Committed(P, L, H, M, K, sup, ast, ovt, apt)
    PROVE  Committed(N, L, H, M, K, sup, now, ovt, apt)
<1>1. /\ M \subseteq Movement /\ K \subseteq KeyRow /\ N \in [Doc -> Document]
      /\ \A m \in M : m.paper \in Doc
      /\ \A k \in K : k.paper \in Doc
  BY DEF Committed, Stocked, Grows, Movement, KeyRow
<1>2. \A e \in Doc : N[e].status = P[e].status /\ P[e].items \subseteq N[e].items
  BY GrowsParts
<1>3. ast \subseteq now
  BY DEF Grows
<1>4. MovesFit(N, M)
  <2>1. MovesFit(P, M)
    BY DEF Committed
  <2> QED
    BY <1>1, <1>2, <2>1 DEF MovesFit
<1>5. KeysFit(N, K, now)
  BY <1>1, <1>2, <1>3 DEF Committed, KeysFit
<1>6. Once(N, M, now)
  <2> SUFFICES ASSUME NEW e \in Doc, NEW i \in N[e].items, <<e, i>> \notin now
               PROVE  /\ N[e].status \in Done => Has(M, e, i, Out(e))
                      /\ Has(M, e, i, Back(e)) <=> N[e].status = "REVERSED"
    BY DEF Once
  <2>1. CASE i \in P[e].items
    BY <1>2, <1>3, <2>1 DEF Committed, Once
  <2>2. CASE i \notin P[e].items
    <3>1. N[e].status = "DRAFT" /\ e = d
      BY <1>2, <2>2 DEF Grows
    <3>2. ~Has(M, e, i, Back(e))
      BY <1>2, <3>1 DEF Has, Committed, MovesFit, Done
    <3> QED
      BY <3>1, <3>2 DEF Done
  <2> QED
    BY <2>1, <2>2
<1>7. Follows(N, sup, now, apt)
  <2> SUFFICES ASSUME now = {}, ~apt, sup # "DRAFT" PROVE sup = Reckoned(N)
    BY DEF Follows
  <2>1. sup = Reckoned(P)
    BY GrowsParts DEF Committed, Follows
  <2> QED
    BY <2>1, GrowsCounts, ReckonedSame
<1>8. Stocked(N, L, H, M, K)
  BY <1>1 DEF Committed, Stocked
<1> QED
  BY <1>4, <1>5, <1>6, <1>7, <1>8 DEF Committed

LEMMA AllFoundGrows ==
    ASSUME NEW q, NEW ast, NEW now, ast \subseteq now, AllFound(q, ast)
    PROVE  AllFound(q, now)
BY DEF AllFound

LEMMA GrowsKnown ==
    ASSUME NEW P, NEW N, NEW d \in Doc, NEW ast, NEW now, Grows(P, N, d, ast, now),
           NEW q, NEW L, NEW H, NEW M, NEW K, NEW ovt, NEW apt,
           Known(q, P, L, H, M, K, ast, ovt, apt)
    PROVE  Known(q, N, L, H, M, K, now, ovt, apt)
<1> SUFFICES ASSUME Busy(q, P, L, H, M, K, ast, ovt, apt)
             PROVE  Busy(q, N, L, H, M, K, now, ovt, apt)
  BY DEF Known
<1>1. Shaped(q) /\ Began(q, P, M) /\ Phase(q, P, ast) /\ Counted(q, P, ast, apt) /\ q.paper \in Doc
  BY DEF Busy, Shaped
<1>2. N[q.paper].status = P[q.paper].status /\ P[q.paper].items \subseteq N[q.paper].items
  BY <1>1, GrowsParts
<1>3. Began(q, N, M)
  BY <1>1, <1>2 DEF Began
<1>4. ast \subseteq now
  BY DEF Grows
<1>5. LetOff(q, P, ast) => LetOff(q, N, now)
  BY <1>2, <1>4 DEF LetOff
<1>6. Phase(q, N, now)
  BY <1>1, <1>4, <1>5, AllFoundGrows DEF Phase, Through
<1>7. Counted(q, N, now, apt)
  <2> SUFFICES ASSUME q.pc = "end", q.op \in ReceiptOp, now = {}, ~apt,
                      q.op = "receive" \/ N[q.paper].items \subseteq q.items
               PROVE  q.status = Reckoned(Leaves(q, N))
    BY <1>1 DEF Counted
  <2>1. P[d].status = "DRAFT" /\ ast = {}
    BY GrowsParts
  <2>2. q.paper # d
    <3> SUFFICES ASSUME q.paper = d PROVE FALSE
      OBVIOUS
    <3>1. q.op # "receive" /\ q.op \notin ReverseOp
      BY <1>1, <2>1 DEF Began, Done
    <3>2. q.items \subseteq P[d].items
      BY <1>1, <3>1 DEF Began, ReceiptOp, ReverseOp
    <3> QED
      BY <3>1, <3>2 DEF Grows
  <2>3. N[q.paper] = P[q.paper] /\ P \in [Doc -> Document] /\ N \in [Doc -> Document]
    BY <1>1, <2>2 DEF Grows
  <2>4. Reckoned(Leaves(q, N)) = Reckoned(Leaves(q, P))
    BY <1>1, <2>3, GrowsCounts, LeavesSame
  <2> QED
    BY <1>1, <2>1, <2>3, <2>4 DEF Counted
<1> QED
  BY <1>3, <1>6, <1>7 DEF Busy

\* r is through, and what it has written is there.
LEMMA Ended ==
    ASSUME PostingInv, NEW r \in Slot, request' = [request EXCEPT ![r] = Unused],
           Committed(paper, left, onHand, moved, keyed, supply, astray, overtaken, apart)',
           \A u \in Slot \ {r} :
              Known(request[u], paper', left', onHand', moved', keyed', astray', overtaken', apart')
    PROVE  PostingInv'
<1>1. request' = [u \in Slot |-> IF u = r THEN Unused ELSE request[u]]
  BY DEF PostingInv
<1>2. request'[r] = Unused /\ \A u \in Slot \ {r} : request'[u] = request[u]
  BY <1>1
<1>3. \A u \in Slot :
         Known(request'[u], paper', left', onHand', moved', keyed', astray', overtaken', apart')
  BY <1>2 DEF Known
<1>4. \A u \in Slot \ {r} : Pair(Unused, request[u]) /\ Pair(request[u], Unused)
  BY UnusedPair, PairTurns DEF PostingInv
<1>5. \A u, v \in Slot : u # v => Pair(request'[u], request'[v])
  BY <1>2, <1>4 DEF PostingInv
<1>6. request' = [u \in Slot |-> request'[u]]
  BY <1>1
<1> QED
  BY <1>3, <1>5, <1>6 DEF PostingInv

LEMMA AddedKeeps ==
    ASSUME PostingInv, NEW r \in Slot, Added(r)
    PROVE  PostingInv'
<1> DEFINE t == request[r]
           d == t.paper
           more == t.items \ paper[d].items
<1>1. /\ more # {} /\ paper' = [paper EXCEPT ![d].items = @ \cup more]
      /\ astray' = IF paper[d].status = "DRAFT" THEN astray ELSE astray \cup ({d} \X more)
      /\ request' = [request EXCEPT ![r] = Unused] /\ t.pc = "add"
      /\ left' = left /\ onHand' = onHand /\ moved' = moved /\ keyed' = keyed
      /\ supply' = supply /\ overtaken' = overtaken /\ apart' = apart
  BY DEF Added, At, stock
<1>2. Shaped(t) /\ paper \in [Doc -> Document]
  BY <1>1, BusyAt DEF PostingInv, Committed, Stocked
<1>3. d \in Doc /\ t.items \subseteq Good
  BY <1>2 DEF Shaped
<1>4. Grows(paper, paper', d, astray, astray')
  <2>1. paper[d] \in Document
    BY <1>2, <1>3
  <2>2. [paper[d] EXCEPT !.items = @ \cup more] \in Document
    BY <1>3, <2>1 DEF Document
  <2>3. paper' = [e \in Doc |-> IF e = d THEN [paper[d] EXCEPT !.items = @ \cup more] ELSE paper[e]]
    BY <1>1, <1>2
  <2>4. paper' \in [Doc -> Document]
    BY <1>2, <2>2, <2>3
  <2>5. paper'[d].status = paper[d].status /\ paper'[d].items = paper[d].items \cup more
    BY <1>3, <2>1, <2>3 DEF Document
  <2>6. \A e \in Doc \ {d} : paper'[e] = paper[e]
    BY <2>3
  <2> QED
    BY <1>1, <1>2, <2>4, <2>5, <2>6 DEF Grows
<1> HIDE DEF d
<1>5. Committed(paper', left, onHand, moved, keyed, supply, astray', overtaken, apart)
  BY <1>3, <1>4, GrowsCommitted DEF PostingInv
<1>6. \A u \in Slot \ {r} : Known(request[u], paper', left, onHand, moved, keyed, astray', overtaken, apart)
  BY <1>3, <1>4, GrowsKnown DEF PostingInv
<1> QED
  BY <1>1, <1>5, <1>6, Ended

-----------------------------------------------------------------------------
\* A request commits.

\* What it commits, and what it knows then.
LEMMA FinishFacts ==
    ASSUME PostingInv, NEW r \in Slot, Finish(r)
    PROVE  LET t == request[r]
           IN  /\ t.pc = "end" /\ t.op \in WorkOp /\ t.paper \in Doc /\ t.items \subseteq Good
               /\ Shaped(t) /\ Began(t, paper, moved)
               /\ LetOff(t, paper, astray) \/ Through(t, astray)
               /\ FoundFits(t, moved) /\ Moves(t, left, onHand, moved, overtaken)
               /\ KeepsNew(t, keyed) /\ Counted(t, paper, astray, apart)
               /\ paper' = Leaves(t, paper)
               /\ left' = t.left ++ left /\ onHand' = t.hand ++ onHand
               /\ moved' = moved \cup t.moves
               /\ overtaken' = overtaken
               /\ request' = [request EXCEPT ![r] = Unused]
<1> DEFINE t == request[r]
<1>1. t.pc = "end"
  BY DEF Finish, At
<1>2. /\ Shaped(t) /\ Began(t, paper, moved) /\ Phase(t, paper, astray)
      /\ FoundFits(t, moved) /\ Moves(t, left, onHand, moved, overtaken)
      /\ KeepsNew(t, keyed) /\ Counted(t, paper, astray, apart)
  BY <1>1, BusyAt
<1>3. t.op \in WorkOp /\ t.paper \in Doc /\ t.items \subseteq Good
  BY <1>1, <1>2 DEF Shaped
<1>4. LetOff(t, paper, astray) \/ Through(t, astray)
  BY <1>1, <1>2 DEF Phase
<1>5. paper' = Leaves(t, paper)
  BY DEF Finish, Outcome, Leaves
<1>6. /\ left' = t.left ++ left /\ onHand' = t.hand ++ onHand /\ moved' = moved \cup t.moves
      /\ overtaken' = overtaken /\ request' = [request EXCEPT ![r] = Unused]
  BY DEF Finish
<1> QED
  BY <1>1, <1>2, <1>3, <1>4, <1>5, <1>6

\* What is known of the committed state, and what of the types.
LEMMA Kinds ==
    ASSUME NEW d \in Doc
    PROVE  /\ Out(d) # Back(d)
           /\ d \in Paper => Out(d) = "RECEIPT" /\ Back(d) = "RECEIPT_REVERSAL"
           /\ d \notin Paper => Out(d) = "WRITE_OFF" /\ Back(d) = "WRITE_OFF_REVERSAL"
BY DEF Out, Back

LEMMA HasMore ==
    ASSUME NEW M, NEW S, NEW d, NEW i, NEW type
    PROVE  Has(M \cup S, d, i, type) <=> Has(M, d, i, type) \/ Has(S, d, i, type)
BY DEF Has

LEMMA HasOwn ==
    ASSUME NEW q, NEW L, NEW H, NEW M, NEW ovt, Moves(q, L, H, M, ovt), NEW d, NEW i, NEW type
    PROVE  /\ Has(q.moves, d, i, type) <=> d = q.paper /\ type = TypeOf(q) /\ i \in DOMAIN q.hand
           /\ i \in DOMAIN q.hand => ~Has(M, q.paper, i, TypeOf(q))
BY DEF Moves, Has

\* The documents afterwards.
LEMMA FinishPapers ==
    ASSUME PostingInv, NEW r \in Slot, Finish(r)
    PROVE  LET t == request[r]
               d == t.paper
           IN  /\ paper' \in [Doc -> Document]
               /\ \A e \in Doc \ {d} : paper'[e] = paper[e]
               /\ paper'[d].status = IF t.op \in ReverseOp THEN "REVERSED" ELSE "POSTED"
               /\ paper'[d].items = IF t.op = "receive" THEN t.items ELSE paper[d].items
               /\ paper'[d].status \in Done
               /\ paper[d].status \in Done => paper'[d].items = paper[d].items
<1> DEFINE t == request[r]
           d == t.paper
<1>1. /\ paper' = Leaves(t, paper) /\ d \in Doc /\ t.items \subseteq Good /\ Began(t, paper, moved)
      /\ paper \in [Doc -> Document]
  BY FinishFacts DEF PostingInv, Committed, Stocked
<1> HIDE DEF t
<1>2. /\ \A e \in Doc \ {d} : Leaves(t, paper)[e] = paper[e]
      /\ Leaves(t, paper)[d].status = IF t.op \in ReverseOp THEN "REVERSED" ELSE "POSTED"
      /\ Leaves(t, paper)[d].items = IF t.op = "receive" THEN t.items ELSE paper[d].items
  BY <1>1, LeavesParts
<1>3. Leaves(t, paper) \in [Doc -> Document]
  <2>1. paper[d] \in Document
    BY <1>1
  <2>2. [[paper[d] EXCEPT !.status = IF t.op \in ReverseOp THEN "REVERSED" ELSE "POSTED"]
           EXCEPT !.items = IF t.op = "receive" THEN t.items ELSE paper[d].items] \in Document
    BY <1>1, <2>1 DEF Document
  <2>3. Leaves(t, paper) = [e \in Doc |-> IF e = d
           THEN [[paper[d] EXCEPT !.status = IF t.op \in ReverseOp THEN "REVERSED" ELSE "POSTED"]
                    EXCEPT !.items = IF t.op = "receive" THEN t.items ELSE paper[d].items]
           ELSE paper[e]]
    BY <1>1, <2>1 DEF Leaves, Document
  <2> QED
    BY <1>1, <2>2, <2>3
<1>4. paper[d].status \in Done => t.op # "receive"
  BY <1>1 DEF Began, Done
<1> QED
  BY <1>1, <1>2, <1>3, <1>4 DEF t, Done

\* A post that has moved all its items is the first of its document.
LEMMA ThroughFirst ==
    ASSUME PostingInv, NEW r \in Slot, Finish(r), Through(request[r], astray), request[r].op \in PostOp
    PROVE  paper[request[r].paper].status \notin Done
<1> DEFINE t == request[r]
<1>1. Began(t, paper, moved) /\ Moves(t, left, onHand, moved, overtaken)
  BY FinishFacts
<1>2. DOMAIN t.hand = t.items /\ TypeOf(t) = Out(t.paper)
  BY DEF Through, PostOp, ReverseOp, TypeOf
<1>3. CASE t.op = "receive"
  BY <1>1, <1>3 DEF Began, Done
<1>4. CASE t.op # "receive"
  <2>1. ASSUME paper[t.paper].status \in Done PROVE FALSE
    <3>1. PICK i \in t.items : Has(moved, t.paper, i, Out(t.paper))
      BY <1>1, <1>4, <2>1 DEF Began, PostOp
    <3>2. i \in DOMAIN t.hand /\ Has(moved, t.paper, i, TypeOf(t))
      BY <1>2, <3>1
    <3> HIDE DEF t
    <3> QED
      BY <1>1, <3>2, HasOwn
  <2> QED
    BY <2>1
<1> QED
  BY <1>3, <1>4

LEMMA FinishMovesFit ==
    ASSUME PostingInv, NEW r \in Slot, Finish(r)
    PROVE  MovesFit(paper', moved')
<1> DEFINE t == request[r]
           d == t.paper
<1>1. /\ t.op \in WorkOp /\ d \in Doc /\ Shaped(t) /\ Began(t, paper, moved) /\ FoundFits(t, moved)
      /\ Moves(t, left, onHand, moved, overtaken) /\ moved' = moved \cup t.moves
  BY FinishFacts
<1>2. /\ \A e \in Doc \ {d} : paper'[e] = paper[e]
      /\ paper'[d].items = IF t.op = "receive" THEN t.items ELSE paper[d].items
      /\ paper'[d].status \in Done
      /\ paper[d].status \in Done => paper'[d].items = paper[d].items
  BY FinishPapers
<1>3. MovesFit(paper, moved) /\ \A m \in moved : m.paper \in Doc
  BY DEF PostingInv, Committed, Stocked, Movement
<1> HIDE DEF t
<1>4. ASSUME NEW m \in moved
      PROVE  /\ m.item = m.of[2] /\ m.item \in paper'[m.paper].items
             /\ m.type \in {Out(m.paper), Back(m.paper)} /\ paper'[m.paper].status \in Done
             /\ m.type = "RECEIPT" => m.of = <<m.paper, m.item>>
             /\ m.type = Back(m.paper) =>
                   \E n \in moved' : n.paper = m.paper /\ n.item = m.item /\ n.type = Out(m.paper) /\ n.of = m.of
  BY <1>1, <1>2, <1>3 DEF MovesFit
<1>5. ASSUME NEW m \in t.moves
      PROVE  /\ m.item = m.of[2] /\ m.item \in paper'[m.paper].items
             /\ m.type \in {Out(m.paper), Back(m.paper)} /\ paper'[m.paper].status \in Done
             /\ m.type = "RECEIPT" => m.of = <<m.paper, m.item>>
             /\ m.type = Back(m.paper) =>
                   \E n \in moved' : n.paper = m.paper /\ n.item = m.item /\ n.type = Out(m.paper) /\ n.of = m.of
  <2>1. m.paper = d /\ m.type = TypeOf(t) /\ m.item = m.of[2] /\ Effect(t, m, left, onHand, moved, overtaken)
    BY <1>1 DEF Moves
  <2>2. CASE t.op \in PostOp
    <3>1. m.item \in t.items
      BY <2>1, <2>2 DEF Effect, PostOp
    <3>2. t.op # "receive" => t.items \subseteq paper[d].items
      BY <1>1, <2>2 DEF Began, PostOp
    <3>3. m.type = Out(d)
      BY <2>1, <2>2 DEF TypeOf
    <3>4. m.type = "RECEIPT" => m.of = <<d, m.item>>
      BY <1>1, <2>1, <2>2, <3>3, Kinds DEF Shaped, Effect, PostOp, ReceiptOp
    <3> QED
      BY <1>1, <1>2, <2>1, <3>1, <3>2, <3>3, <3>4, Kinds
  <2>3. CASE t.op \in ReverseOp
    <3>1. m.of \in t.found
      BY <2>1, <2>3 DEF Effect, ReverseOp
    <3>2. PICK n \in moved : n.paper = d /\ n.of = m.of /\ n.type = Out(d)
      BY <1>1, <3>1 DEF FoundFits
    <3>3. n.item = m.item /\ n.item \in paper[d].items /\ paper[d].status \in Done
      BY <1>3, <2>1, <3>2 DEF MovesFit
    <3>4. m.type = Back(d) /\ m.type # "RECEIPT"
      BY <1>1, <2>1, <2>3, Kinds DEF TypeOf, PostOp, ReverseOp
    <3> QED
      BY <1>1, <1>2, <2>1, <3>2, <3>3, <3>4
  <2> QED
    BY <1>1, <2>2, <2>3 DEF WorkOp
<1> QED
  BY <1>1, <1>4, <1>5 DEF MovesFit

LEMMA FinishSingle ==
    ASSUME PostingInv, NEW r \in Slot, Finish(r)
    PROVE  Single(moved')
<1> DEFINE t == request[r]
<1>1. Moves(t, left, onHand, moved, overtaken) /\ moved' = moved \cup t.moves
  BY FinishFacts
<1>2. Single(moved)
  BY DEF PostingInv, Committed
<1> HIDE DEF t
<1>3. \A m, n \in t.moves : m.item = n.item => m = n
  BY <1>1 DEF Moves
<1>4. \A m \in t.moves, n \in moved : ~(m.paper = n.paper /\ m.item = n.item /\ m.type = n.type)
  BY <1>1 DEF Moves, Has
<1> QED
  BY <1>1, <1>2, <1>3, <1>4 DEF Single

\* What has gone astray afterwards.
LEMMA FinishAstray ==
    ASSUME PostingInv, NEW r \in Slot, Finish(r)
    PROVE  LET t == request[r]
               d == t.paper
           IN  /\ astray \subseteq astray'
               /\ \A i \in Good : i \in paper'[d].items /\ i \notin t.items => <<d, i>> \in astray'
               /\ t.moves = {} /\ t.op \notin ReverseOp /\ paper[d].status = "REVERSED" =>
                     \A i \in Good : <<d, i>> \in astray'
<1> DEFINE t == request[r]
           d == t.paper
           lost == IF t.moves = {} /\ t.op \notin ReverseOp /\ paper[d].status = "REVERSED"
                   THEN Good ELSE paper'[d].items \ t.items
<1>1. astray' = astray \cup ({d} \X lost)
  BY DEF Finish
<1> QED
  BY <1>1

LEMMA FinishOnce ==
    ASSUME PostingInv, NEW r \in Slot, Finish(r)
    PROVE  Once(paper', moved', astray')
<1> DEFINE t == request[r]
           d == t.paper
<1>1. /\ t.op \in WorkOp /\ d \in Doc /\ Began(t, paper, moved) /\ FoundFits(t, moved)
      /\ Moves(t, left, onHand, moved, overtaken) /\ moved' = moved \cup t.moves
      /\ LetOff(t, paper, astray) \/ Through(t, astray)
  BY FinishFacts
<1>2. /\ paper' \in [Doc -> Document]
      /\ \A e \in Doc \ {d} : paper'[e] = paper[e]
      /\ paper'[d].status = IF t.op \in ReverseOp THEN "REVERSED" ELSE "POSTED"
      /\ paper'[d].items = IF t.op = "receive" THEN t.items ELSE paper[d].items
      /\ paper[d].status \in Done => paper'[d].items = paper[d].items
  BY FinishPapers
<1>3. /\ astray \subseteq astray'
      /\ \A i \in Good : i \in paper'[d].items /\ i \notin t.items => <<d, i>> \in astray'
      /\ t.moves = {} /\ t.op \notin ReverseOp /\ paper[d].status = "REVERSED" =>
            \A i \in Good : <<d, i>> \in astray'
  BY FinishAstray
<1>4. Once(paper, moved, astray) /\ MovesFit(paper, moved)
  BY DEF PostingInv, Committed
<1>5. LetOff(t, paper, astray) \/ (Through(t, astray) /\ (t.op \in PostOp => paper[d].status \notin Done))
  BY <1>1, ThroughFirst
<1> HIDE DEF t
<1> SUFFICES ASSUME NEW e \in Doc, NEW i \in paper'[e].items, <<e, i>> \notin astray'
             PROVE  /\ paper'[e].status \in Done => Has(moved', e, i, Out(e))
                    /\ Has(moved', e, i, Back(e)) <=> paper'[e].status = "REVERSED"
  BY DEF Once
<1>6. i \in Good /\ <<e, i>> \notin astray
  BY <1>2, <1>3 DEF Document
<1>7. \A type : /\ Has(moved', e, i, type) <=> Has(moved, e, i, type) \/ Has(t.moves, e, i, type)
                /\ Has(t.moves, e, i, type) <=> e = d /\ type = TypeOf(t) /\ i \in DOMAIN t.hand
  BY <1>1, HasMore, HasOwn
<1>8. CASE e # d
  BY <1>2, <1>4, <1>6, <1>7, <1>8 DEF Once
<1>9. CASE e = d /\ t.op \in PostOp
  <2>1. i \in t.items /\ paper'[d].status = "POSTED" /\ TypeOf(t) = Out(d) /\ t.op \notin ReverseOp
    BY <1>2, <1>3, <1>6, <1>9 DEF PostOp, ReverseOp, TypeOf
  <2>2. CASE LetOff(t, paper, astray)
    <3>1. t.moves = {} /\ paper[d].status \in Done
      BY <2>2 DEF LetOff
    <3>2. paper[d].status = "POSTED"
      BY <1>3, <1>6, <1>9, <2>1, <3>1 DEF Done
    <3>3. i \in paper[d].items
      BY <1>2, <1>9, <3>1
    <3>4. Has(moved, d, i, Out(d)) /\ ~Has(moved, d, i, Back(d))
      BY <1>1, <1>4, <1>6, <1>9, <3>1, <3>2, <3>3 DEF Once
    <3> QED
      BY <1>1, <1>7, <1>9, <2>1, <3>4, Kinds
  <2>3. CASE Through(t, astray) /\ paper[d].status \notin Done
    <3>1. i \in DOMAIN t.hand
      BY <2>1, <2>3 DEF Through
    <3>2. ~Has(moved, d, i, Back(d))
      BY <1>4, <2>3 DEF MovesFit, Has
    <3> QED
      BY <1>1, <1>7, <1>9, <2>1, <3>1, <3>2, Kinds
  <2> QED
    BY <1>5, <1>9, <2>2, <2>3
<1>10. CASE e = d /\ t.op \in ReverseOp
  <2>1. paper[d].status \in Done /\ paper'[d].status = "REVERSED" /\ TypeOf(t) = Back(d)
    BY <1>1, <1>2, <1>10 DEF Began, TypeOf, PostOp, ReverseOp
  <2>2. i \in paper[d].items /\ i \in t.items
    BY <1>2, <1>3, <1>6, <1>10, <2>1
  <2>3. Has(moved, d, i, Out(d)) /\ (Has(moved, d, i, Back(d)) <=> paper[d].status = "REVERSED")
    BY <1>1, <1>4, <1>6, <1>10, <2>1, <2>2 DEF Once
  <2>4. CASE LetOff(t, paper, astray)
    <3>1. paper[d].status = "REVERSED"
      BY <1>6, <1>10, <2>4 DEF LetOff
    <3> QED
      BY <1>7, <1>10, <2>1, <2>3, <3>1
  <2>5. CASE Through(t, astray)
    <3>1. PICK h \in t.found : h[2] = i
      BY <1>6, <1>10, <2>2, <2>5 DEF Through, AllFound
    <3>2. i \in DOMAIN t.hand
      BY <1>10, <2>5, <3>1 DEF Through
    <3> QED
      BY <1>7, <1>10, <2>1, <2>3, <3>2
  <2> QED
    BY <1>5, <2>4, <2>5
<1> QED
  BY <1>1, <1>8, <1>9, <1>10 DEF WorkOp

\* The key that it keeps.
OwnKey(t) == [scope |-> Scope[t.op], key |-> t.key, paper |-> t.paper]

LEMMA FinishKeys ==
    ASSUME PostingInv, NEW r \in Slot, Finish(r)
    PROVE  KeysFit(paper', keyed', astray') /\ keyed' \subseteq KeyRow
<1> DEFINE t == request[r]
           d == t.paper
<1>1. /\ t.op \in WorkOp /\ d \in Doc /\ Shaped(t) /\ Began(t, paper, moved) /\ KeepsNew(t, keyed)
      /\ LetOff(t, paper, astray) \/ Through(t, astray)
  BY FinishFacts
<1>2. /\ \A e \in Doc \ {d} : paper'[e] = paper[e]
      /\ paper'[d].status = IF t.op \in ReverseOp THEN "REVERSED" ELSE "POSTED"
      /\ paper'[d].status \in Done
  BY FinishPapers
<1>3. /\ astray \subseteq astray'
      /\ t.moves = {} /\ t.op \notin ReverseOp /\ paper[d].status = "REVERSED" =>
            \A i \in Good : <<d, i>> \in astray'
  BY FinishAstray
<1>4. KeysFit(paper, keyed, astray) /\ keyed \subseteq KeyRow
  BY DEF PostingInv, Committed, Stocked
<1>5. (t.keeps /\ keyed' = keyed \cup {OwnKey(t)}) \/ (~t.keeps /\ keyed' = keyed)
  BY DEF Finish, OwnKey
<1>6. t.keeps => \A k \in keyed : ~(k.scope = Scope[t.op] /\ k.key = t.key)
  BY <1>1 DEF Finish, KeepsNew, Keyed
<1>7. t.op \in PostOp /\ ~LetOff(t, paper, astray) => paper[d].status \notin Done
  BY <1>1, ThroughFirst
<1> HIDE DEF t
<1>8. /\ OwnKey(t).scope = Scope[t.op] /\ OwnKey(t).key = t.key /\ OwnKey(t).paper = d
      /\ t.keeps => OwnKey(t) \in KeyRow
      /\ t.op \notin ReverseOp => OwnKey(t).scope \notin ReverseScope
  <2>1. /\ Scope[t.op] \in {"goods-receipt-post", "goods-receipt-reverse", "write-off-post", "write-off-reverse"}
        /\ t.op \notin ReverseOp => Scope[t.op] \notin ReverseScope
    BY <1>1, Scopes DEF WorkOp, PostOp, ReverseOp, ReverseScope
  <2>2. t.keeps => t.key \in Press
    BY <1>1 DEF Shaped
  <2> QED
    BY <1>1, <2>1, <2>2 DEF OwnKey, KeyRow
<1>9. keyed' \subseteq KeyRow
  BY <1>4, <1>5, <1>8
<1>10. \A k, l \in keyed' : k.scope = l.scope /\ k.key = l.key => k = l
  BY <1>4, <1>5, <1>6, <1>8 DEF KeysFit
<1>11. ASSUME NEW k \in keyed
       PROVE  /\ paper'[k.paper].status \in Done
              /\ k.scope \in ReverseScope =>
                    paper'[k.paper].status = "REVERSED" \/ \A i \in Good : <<k.paper, i>> \in astray'
  <2>1. /\ k.paper \in Doc /\ paper[k.paper].status \in Done
        /\ k.scope \in ReverseScope =>
              paper[k.paper].status = "REVERSED" \/ \A i \in Good : <<k.paper, i>> \in astray
    BY <1>4 DEF KeysFit, KeyRow
  <2>2. CASE k.paper # d
    BY <1>2, <1>3, <2>1, <2>2
  <2>3. CASE k.paper = d /\ t.op \in ReverseOp
    BY <1>2, <2>3
  <2>4. CASE k.paper = d /\ t.op \notin ReverseOp
    <3>1. t.moves = {}
      BY <1>1, <1>7, <2>1, <2>4 DEF WorkOp, LetOff
    <3> QED
      BY <1>2, <1>3, <2>1, <2>4, <3>1
  <2> QED
    BY <2>2, <2>3, <2>4
<1>12. ASSUME NEW k \in keyed'
       PROVE  /\ paper'[k.paper].status \in Done
              /\ k.scope \in ReverseScope =>
                    paper'[k.paper].status = "REVERSED" \/ \A i \in Good : <<k.paper, i>> \in astray'
  <2>1. CASE k \in keyed
    BY <1>11, <2>1
  <2>2. CASE k \notin keyed
    <3>1. k = OwnKey(t)
      BY <1>5, <2>2
    <3> QED
      BY <1>2, <1>8, <3>1
  <2> QED
    BY <2>1, <2>2
<1> QED
  BY <1>9, <1>10, <1>12 DEF KeysFit

-----------------------------------------------------------------------------
\* The stock afterwards.

LEMMA FinishStock ==
    ASSUME PostingInv, NEW r \in Slot, Finish(r)
    PROVE  LET t == request[r]
           IN  /\ left' \in [Bin -> Nat] /\ onHand' \in [Good -> Nat] /\ moved' \subseteq Movement
               /\ \A m \in t.moves : left'[m.of] = t.left[m.of] /\ onHand'[m.item] = t.hand[m.item]
               /\ \A h \in Bin : (\A m \in t.moves : m.of # h) => left'[h] = left[h]
               /\ \A i \in Good : (\A m \in t.moves : m.item # i) => onHand'[i] = onHand[i]
<1> DEFINE t == request[r]
<1>1. /\ Moves(t, left, onHand, moved, overtaken) /\ moved' = moved \cup t.moves
      /\ left' = t.left ++ left /\ onHand' = t.hand ++ onHand
  BY FinishFacts
<1>2. left \in [Bin -> Nat] /\ onHand \in [Good -> Nat] /\ moved \subseteq Movement
  BY DEF PostingInv, Committed, Stocked
<1> HIDE DEF t
<1>3. /\ DOMAIN t.left = {m.of : m \in t.moves} /\ DOMAIN t.hand = {m.item : m \in t.moves}
      /\ \A m \in t.moves : m \in Movement /\ t.left[m.of] \in Nat /\ t.hand[m.item] \in Nat
  BY <1>1 DEF Moves
<1>4. \A m \in t.moves : m.of \in Bin /\ m.item \in Good
  BY <1>3 DEF Movement
<1>5. /\ DOMAIN t.left \subseteq Bin /\ \A h \in DOMAIN t.left : t.left[h] \in Nat
      /\ DOMAIN t.hand \subseteq Good /\ \A i \in DOMAIN t.hand : t.hand[i] \in Nat
  BY <1>3, <1>4
<1> DEFINE batches == t.left
           balances == t.hand
<1>6. /\ batches ++ left \in [Bin -> Nat]
      /\ \A h \in DOMAIN batches : (batches ++ left)[h] = batches[h]
      /\ \A h \in Bin : h \notin DOMAIN batches => (batches ++ left)[h] = left[h]
  <2>1. DOMAIN batches \subseteq Bin /\ \A h \in DOMAIN batches : batches[h] \in Nat
    BY <1>5
  <2> HIDE DEF batches
  <2> QED
    BY <1>2, <2>1, OverParts
<1>7. /\ balances ++ onHand \in [Good -> Nat]
      /\ \A i \in DOMAIN balances : (balances ++ onHand)[i] = balances[i]
      /\ \A i \in Good : i \notin DOMAIN balances => (balances ++ onHand)[i] = onHand[i]
  <2>1. DOMAIN balances \subseteq Good /\ \A i \in DOMAIN balances : balances[i] \in Nat
    BY <1>5
  <2> HIDE DEF balances
  <2>2. onHand \in [Good -> Nat]
    BY <1>2
  <2>3. balances ++ onHand \in [Good -> Nat]
    BY <2>1, <2>2, OverParts
  <2>4. \A i \in DOMAIN balances : (balances ++ onHand)[i] = balances[i]
    BY <2>1, <2>2, OverParts
  <2>5. \A i \in Good : i \notin DOMAIN balances => (balances ++ onHand)[i] = onHand[i]
    BY <2>1, <2>2, OverParts
  <2> QED
    BY <2>3, <2>4, <2>5
<1>8. moved' \subseteq Movement
  BY <1>1, <1>2, <1>3
<1>9. /\ \A m \in t.moves : left'[m.of] = t.left[m.of] /\ onHand'[m.item] = t.hand[m.item]
      /\ \A h \in Bin : (\A m \in t.moves : m.of # h) => left'[h] = left[h]
      /\ \A i \in Good : (\A m \in t.moves : m.item # i) => onHand'[i] = onHand[i]
  BY <1>1, <1>3, <1>6, <1>7
<1> QED
  BY <1>1, <1>6, <1>7, <1>8, <1>9 DEF t

\* A batch that is given back or reversed is the one that was taken or received.
LEMMA FoundOf ==
    ASSUME NEW t, NEW M, NEW P, FoundFits(t, M), MovesFit(P, M), t.paper \in Doc, NEW h \in t.found
    PROVE  \E n \in M : /\ n.paper = t.paper /\ n.of = h /\ n.type = Out(t.paper) /\ n.item = h[2]
                        /\ t.paper \in Paper => h = <<t.paper, h[2]>>
<1>1. PICK n \in M : n.paper = t.paper /\ n.of = h /\ n.type = Out(t.paper)
  BY DEF FoundFits
<1>2. n.item = h[2] /\ (n.type = "RECEIPT" => n.of = <<n.paper, n.item>>)
  BY <1>1 DEF MovesFit
<1> QED
  BY <1>1, <1>2, Kinds

LEMMA BinsFinite ==
    ASSUME NEW i \in Good
    PROVE  IsFiniteSet(BinsOf(i)) /\ BinsOf(i) \subseteq Bin
<1>1. IsFiniteSet(Paper \cup {Before}) /\ IsFiniteSet({i})
  BY PostingAssumption, FS_Singleton, FS_Union
<1>2. IsFiniteSet((Paper \cup {Before}) \X {i})
  BY <1>1, FS_Product
<1>3. BinsOf(i) \subseteq (Paper \cup {Before}) \X {i} /\ BinsOf(i) \subseteq Bin
  BY DEF BinsOf, Bin
<1> QED
  BY <1>2, <1>3, FS_Subset

\* A movement changes the balance by what it changes its batch by.
LEMMA Balanced ==
    ASSUME NEW t, NEW m, NEW L \in [Bin -> Nat], NEW H, NEW M,
           t.op \in WorkOp, m \in t.moves, Moves(t, L, H, M, FALSE),
           H[m.item] \in Nat,
           t.op \in {"receive", "postReceipt"} => t.paper \in Paper /\ Kept(L, M, m.of)
    PROVE  t.hand[m.item] + L[m.of] = H[m.item] + t.left[m.of]
<1>1. /\ Effect(t, m, L, H, M, FALSE) /\ t.left[m.of] \in Nat /\ t.hand[m.item] \in Nat
      /\ m \in Movement /\ m.type = TypeOf(t) /\ m.paper = t.paper /\ ~Has(M, m.paper, m.item, m.type)
  BY DEF Moves
<1>2. L[m.of] \in Nat
  BY <1>1 DEF Movement
<1>3. CASE t.op \in {"receive", "postReceipt"}
  <2>1. m.of = <<t.paper, m.item>> /\ t.left[m.of] = 1 /\ t.hand[m.item] = H[m.item] + 1
    BY <1>1, <1>3 DEF Effect
  <2>2. ~Has(M, m.of[1], m.of[2], "RECEIPT")
    BY <1>1, <1>3, <2>1 DEF TypeOf, PostOp, Out
  <2>3. L[m.of] = 0
    BY <1>3, <2>2 DEF Kept
  <2> QED
    BY <2>1, <2>3
<1>4. CASE t.op = "reverseReceipt"
  BY <1>1, <1>2, <1>4 DEF Effect
<1>5. CASE t.op = "post"
  BY <1>1, <1>2, <1>5 DEF Effect, Takes
<1>6. CASE t.op = "reverse"
  BY <1>1, <1>2, <1>6 DEF Effect, Adds
<1> QED
  BY <1>3, <1>4, <1>5, <1>6 DEF WorkOp, PostOp, ReverseOp

LEMMA FinishBooks ==
    ASSUME PostingInv, NEW r \in Slot, Finish(r), ~overtaken, NEW i \in Good
    PROVE  onHand'[i] = TotalOn(left', BinsOf(i))
<1> DEFINE t == request[r]
           B == BinsOf(i)
<1>1. /\ Moves(t, left, onHand, moved, overtaken) /\ t.op \in WorkOp /\ Shaped(t)
  BY FinishFacts
<1>2. /\ left' \in [Bin -> Nat] /\ onHand' \in [Good -> Nat]
      /\ \A m \in t.moves : left'[m.of] = t.left[m.of] /\ onHand'[m.item] = t.hand[m.item]
      /\ \A h \in Bin : (\A m \in t.moves : m.of # h) => left'[h] = left[h]
      /\ \A j \in Good : (\A m \in t.moves : m.item # j) => onHand'[j] = onHand[j]
  BY FinishStock
<1>3. /\ left \in [Bin -> Nat] /\ onHand \in [Good -> Nat] /\ onHand[i] = TotalOn(left, B)
      /\ \A h \in Bin : h[1] \in Paper => Kept(left, moved, h)
  BY DEF PostingInv, Committed, Stocked, Conserved
<1>4. Moves(t, left, onHand, moved, FALSE)
  BY <1>1, KnownOvertaken DEF Moves, Effect
<1> HIDE DEF t
<1>5. /\ IsFiniteSet(B) /\ B \subseteq Bin
      /\ \A h \in B : h[2] = i
      /\ \A h \in Bin : h[2] = i => h \in B
  BY BinsFinite DEF BinsOf
<1> HIDE DEF B
<1>6. CASE \A m \in t.moves : m.item # i
  <2>1. \A h \in B : left'[h] = left[h]
    BY <1>1, <1>2, <1>5, <1>6 DEF Moves
  <2>2. TotalOn(left', B) = TotalOn(left, B)
    BY <2>1, TotalSame, Zenon
  <2> QED
    BY <1>2, <1>3, <1>6, <2>2 DEF B
<1>7. ASSUME NEW m \in t.moves, m.item = i PROVE onHand'[i] = TotalOn(left', B)
  <2>1. m.of \in B /\ m.item = m.of[2]
    BY <1>1, <1>5, <1>7 DEF Moves, Movement
  <2>2. \A h \in B : h # m.of => left'[h] = left[h]
    <3> SUFFICES ASSUME NEW h \in B, h # m.of PROVE \A n \in t.moves : n.of # h
      BY <1>2, <1>5
    <3> QED
      BY <1>1, <1>5, <1>7 DEF Moves
  <2>3. \A h \in B : left[h] \in Nat /\ left'[h] \in Nat
    BY <1>2, <1>3, <1>5
  <2>4. TotalOn(left', B) = TotalOn(left, B) - left[m.of] + left'[m.of]
    BY <1>5, <2>1, <2>2, <2>3, TotalExcept
  <2>5. t.op \in {"receive", "postReceipt"} => t.paper \in Paper /\ Kept(left, moved, m.of)
    <3> SUFFICES ASSUME t.op \in {"receive", "postReceipt"}
                 PROVE  t.paper \in Paper /\ m.of \in Bin /\ m.of[1] = t.paper
      BY <1>3
    <3>1. m.of = <<t.paper, m.item>> /\ m \in Movement
      BY <1>1 DEF Moves, Effect
    <3> QED
      BY <1>1, <3>1 DEF Shaped, ReceiptOp, Movement
  <2>6. onHand[m.item] \in Nat
    BY <1>3, <1>7
  <2>7. t.hand[i] + left[m.of] = onHand[i] + t.left[m.of]
    BY <1>1, <1>3, <1>4, <1>7, <2>5, <2>6, Balanced
  <2>8. left'[m.of] = t.left[m.of] /\ onHand'[i] = t.hand[i]
    BY <1>2, <1>7
  <2>9. /\ left[m.of] \in Nat /\ left'[m.of] \in Nat /\ onHand[i] \in Nat /\ onHand'[i] \in Nat
    BY <1>2, <1>3, <2>1, <2>3
  <2> QED
    BY <1>3, <2>4, <2>7, <2>8, <2>9
<1> QED
  BY <1>6, <1>7 DEF B

\* The unit of a receipt, in its batch or in one write-off, after the movements
\* of t: what is known of t and of the batches.
Keeping(t, P, L, M, now) ==
    /\ t.op \in WorkOp /\ t.paper \in Doc /\ Shaped(t) /\ FoundFits(t, M)
    /\ \A m \in t.moves :
          /\ m \in Movement /\ m.paper = t.paper /\ m.type = TypeOf(t) /\ m.item = m.of[2]
          /\ ~Has(M, m.paper, m.item, m.type)
          /\ t.op \in {"receive", "postReceipt"} => m.of = <<t.paper, m.item>> /\ now[m.of] = 1
          /\ t.op = "reverseReceipt" => m.of \in t.found /\ now[m.of] = 0 /\ L[m.of] = 1
          /\ t.op = "post" =>
                L[m.of] = now[m.of] + 1 /\ ~Has(M, m.of[1], m.of[2], "RECEIPT_REVERSAL")
          /\ t.op = "reverse" => m.of \in t.found /\ now[m.of] = L[m.of] + 1
    /\ MovesFit(P, M) /\ Single(M) /\ M \subseteq Movement
    /\ L \in [Bin -> Nat] /\ now \in [Bin -> Nat]
    /\ \A h \in Bin : (\A m \in t.moves : m.of # h) => now[h] = L[h]

\* A receipt moves its own batches.
LEMMA OwnBatch ==
    ASSUME NEW t, NEW P, NEW L, NEW M, NEW now, Keeping(t, P, L, M, now), NEW m \in t.moves
    PROVE  /\ t.paper \in Paper <=> t.op \in ReceiptOp
           /\ t.paper \in Paper => m.of = <<t.paper, m.item>>
           /\ t.op \in ReverseOp =>
                 \E n \in M : n.paper = t.paper /\ n.of = m.of /\ n.type = Out(t.paper) /\ n.item = m.item
<1>1. t.op \in WorkOp /\ (t.paper \in Paper <=> t.op \in ReceiptOp)
  BY DEF Keeping, Shaped, WorkOp, PostOp, ReverseOp, ReceiptOp
<1>2. t.op \in ReverseOp => m.of \in t.found
  BY DEF Keeping, ReverseOp
<1>3. t.op \in ReverseOp =>
         \E n \in M : /\ n.paper = t.paper /\ n.of = m.of /\ n.type = Out(t.paper) /\ n.item = m.item
                      /\ t.paper \in Paper => m.of = <<t.paper, m.item>>
  <2> SUFFICES ASSUME t.op \in ReverseOp
               PROVE  \E n \in M : /\ n.paper = t.paper /\ n.of = m.of /\ n.type = Out(t.paper)
                                   /\ n.item = m.of[2]
                                   /\ t.paper \in Paper => m.of = <<t.paper, m.of[2]>>
    BY DEF Keeping
  <2> QED
    BY <1>2, FoundOf DEF Keeping
<1>4. t.op \in {"receive", "postReceipt"} => m.of = <<t.paper, m.item>>
  BY DEF Keeping
<1> QED
  BY <1>1, <1>3, <1>4 DEF ReceiptOp, ReverseOp

LEMMA KeptElsewhere ==
    ASSUME NEW t, NEW P, NEW L, NEW M, NEW now, Keeping(t, P, L, M, now),
           NEW h \in Bin, Kept(L, M, h), \A m \in t.moves : m.of # h
    PROVE  Kept(now, M \cup t.moves, h)
<1> DEFINE N == M \cup t.moves
<1>1. h = <<h[1], h[2]>> /\ now[h] = L[h]
  BY DEF Keeping, Bin
<1>2. ASSUME NEW type \in {"RECEIPT", "RECEIPT_REVERSAL"}
      PROVE  Has(N, h[1], h[2], type) <=> Has(M, h[1], h[2], type)
  <2>1. ~Has(t.moves, h[1], h[2], type)
    <3> SUFFICES ASSUME NEW m \in t.moves, m.paper = h[1], m.item = h[2], m.type = type PROVE FALSE
      BY DEF Has
    <3>1. t.paper \in Paper /\ m.paper = t.paper
      BY DEF Keeping, TypeOf, Out, Back
    <3>2. m.of = <<t.paper, m.item>>
      BY <3>1, OwnBatch
    <3> QED
      BY <1>1, <3>1, <3>2
  <2> QED
    BY <2>1, HasMore
<1>3. ASSUME NEW n \in M, n.type = "WRITE_OFF", n.of = h
      PROVE  ~Has(t.moves, n.paper, n.item, "WRITE_OFF_REVERSAL")
  <2> SUFFICES ASSUME NEW m \in t.moves, m.paper = n.paper, m.item = n.item, m.type = "WRITE_OFF_REVERSAL"
               PROVE  FALSE
    BY DEF Has
  <2>1. t.paper \notin Paper /\ t.op \notin PostOp /\ t.paper = n.paper
    BY DEF Keeping, TypeOf, Out, Back
  <2>2. t.op \in ReverseOp
    BY <2>1 DEF Keeping, WorkOp
  <2>3. PICK k \in M : k.paper = t.paper /\ k.of = m.of /\ k.type = Out(t.paper) /\ k.item = m.item
    BY <2>2, OwnBatch
  <2>4. k = n
    BY <1>3, <2>1, <2>3 DEF Keeping, Single, Out
  <2> QED
    BY <1>3, <2>3, <2>4
<1>4. OpenOf(N, h) = OpenOf(M, h)
  <2>1. \A n \in M : n.type = "WRITE_OFF" /\ n.of = h =>
           (Has(N, n.paper, n.item, "WRITE_OFF_REVERSAL") <=> Has(M, n.paper, n.item, "WRITE_OFF_REVERSAL"))
    BY <1>3, HasMore
  <2> QED
    BY <2>1 DEF OpenOf
<1>5. /\ Has(N, h[1], h[2], "RECEIPT") <=> Has(M, h[1], h[2], "RECEIPT")
      /\ Has(N, h[1], h[2], "RECEIPT_REVERSAL") <=> Has(M, h[1], h[2], "RECEIPT_REVERSAL")
  BY <1>2
<1>6. \A m \in N : m.of = h => m \in M
  OBVIOUS
<1>7. OpenOf(N, h) \subseteq N /\ OpenOf(M, h) \subseteq M
  BY DEF OpenOf
<1> HIDE DEF N
<1>8. (\A m \in M : m.type = "WRITE_OFF" => m.of # h) => \A m \in N : m.type = "WRITE_OFF" => m.of # h
  BY <1>6
<1>9. \A m : OpenOf(M, h) = {m} => m \in N
  BY <1>4, <1>7
<1>10. Kept(now, N, h)
  BY <1>1, <1>4, <1>5, <1>8, <1>9 DEF Kept
<1> QED
  BY <1>10 DEF N

\* The movement of batch h itself.
Touches(t, m, h) == m \in t.moves /\ m.of = h /\ \A n \in t.moves : n.of = h => n = m

\* Movements of a document that was not posted.
LEMMA NoneBack ==
    ASSUME NEW P, NEW M, MovesFit(P, M), NEW d \in Doc, NEW i, ~Has(M, d, i, Out(d))
    PROVE  ~Has(M, d, i, Back(d))
BY DEF MovesFit, Has

LEMMA KeptReceived ==
    ASSUME NEW t, NEW P, NEW L, NEW M, NEW now, Keeping(t, P, L, M, now),
           NEW h \in Bin, Kept(L, M, h), NEW m, Touches(t, m, h), t.op \in {"receive", "postReceipt"}
    PROVE  Kept(now, M \cup t.moves, h)
<1> DEFINE N == M \cup t.moves
           d == t.paper
<1>1. /\ m \in t.moves /\ m.of = h /\ m.paper = d /\ m.type = TypeOf(t) /\ m.item = m.of[2]
      /\ ~Has(M, d, m.item, m.type) /\ h = <<d, m.item>> /\ now[h] = 1
      /\ \A n \in t.moves : n.type = TypeOf(t)
  BY DEF Keeping, Touches
<1>2. d \in Paper /\ d \in Doc /\ TypeOf(t) = "RECEIPT"
  <2>1. d \in Paper
    BY <1>1, OwnBatch DEF ReceiptOp
  <2> QED
    BY <2>1 DEF TypeOf, PostOp, Out, Doc
<1>3. h[1] = d /\ h[2] = m.item
  BY <1>1
<1>4. ~Has(M, h[1], h[2], "RECEIPT") /\ ~Has(M, h[1], h[2], "RECEIPT_REVERSAL")
  BY <1>1, <1>2, <1>3, NoneBack, Kinds DEF Keeping
<1>5. \A n \in M : n.type = "WRITE_OFF" => n.of # h
  BY <1>4 DEF Kept
<1>6. \A n \in N : n.type = "WRITE_OFF" => n.of # h
  BY <1>1, <1>2, <1>5
<1>7. Has(N, h[1], h[2], "RECEIPT")
  BY <1>1, <1>2, <1>3 DEF Has
<1>8. ~Has(N, h[1], h[2], "RECEIPT_REVERSAL")
  BY <1>1, <1>2, <1>4 DEF Has
<1>9. OpenOf(N, h) = {}
  BY <1>6 DEF OpenOf
<1> HIDE DEF N
<1>10. Kept(now, N, h)
  BY <1>1, <1>7, <1>8, <1>9 DEF Kept
<1> QED
  BY <1>10 DEF N

LEMMA KeptReversed ==
    ASSUME NEW t, NEW P, NEW L, NEW M, NEW now, Keeping(t, P, L, M, now),
           NEW h \in Bin, Kept(L, M, h), NEW m, Touches(t, m, h), t.op = "reverseReceipt"
    PROVE  Kept(now, M \cup t.moves, h)
<1> DEFINE N == M \cup t.moves
           d == t.paper
<1>1. /\ m \in t.moves /\ m.of = h /\ m.paper = d /\ m.type = TypeOf(t) /\ m.item = m.of[2]
      /\ ~Has(M, d, m.item, m.type) /\ now[h] = 0 /\ L[h] = 1
      /\ \A n \in t.moves : n.type = TypeOf(t)
  BY DEF Keeping, Touches
<1>2. d \in Paper /\ h = <<d, m.item>> /\ TypeOf(t) = "RECEIPT_REVERSAL"
  <2>1. d \in Paper /\ h = <<d, m.item>>
    BY <1>1, OwnBatch DEF ReceiptOp
  <2> QED
    BY <2>1 DEF TypeOf, PostOp, Back
<1>3. h[1] = d /\ h[2] = m.item
  BY <1>2
<1>4. PICK n \in M : n.paper = d /\ n.of = h /\ n.type = Out(d) /\ n.item = m.item
  BY <1>1, OwnBatch DEF ReverseOp
<1>5. Has(M, h[1], h[2], "RECEIPT") /\ ~Has(M, h[1], h[2], "RECEIPT_REVERSAL")
  BY <1>1, <1>2, <1>3, <1>4 DEF Has, Out
<1>6. OpenOf(M, h) = {}
  BY <1>1, <1>5 DEF Kept
<1>7. Has(N, h[1], h[2], "RECEIPT") /\ Has(N, h[1], h[2], "RECEIPT_REVERSAL")
  BY <1>1, <1>2, <1>3, <1>5 DEF Has
<1>8. OpenOf(N, h) = {}
  <2> SUFFICES ASSUME NEW o \in OpenOf(N, h) PROVE FALSE
    OBVIOUS
  <2>1. o \in M /\ ~Has(M, o.paper, o.item, "WRITE_OFF_REVERSAL")
    BY <1>1, <1>2, HasMore DEF OpenOf
  <2> QED
    BY <1>6, <2>1 DEF OpenOf
<1> HIDE DEF N
<1>9. Kept(now, N, h)
  BY <1>1, <1>7, <1>8 DEF Kept
<1> QED
  BY <1>9 DEF N

LEMMA KeptTaken ==
    ASSUME NEW t, NEW P, NEW L, NEW M, NEW now, Keeping(t, P, L, M, now),
           NEW h \in Bin, Kept(L, M, h), NEW m, Touches(t, m, h), t.op = "post"
    PROVE  Kept(now, M \cup t.moves, h)
<1> DEFINE N == M \cup t.moves
           d == t.paper
<1>1. /\ m \in t.moves /\ m.of = h /\ m.paper = d /\ m.type = TypeOf(t) /\ m.item = m.of[2]
      /\ ~Has(M, d, m.item, m.type) /\ L[h] = now[h] + 1
      /\ ~Has(M, h[1], h[2], "RECEIPT_REVERSAL")
      /\ L[h] \in Nat /\ now[h] \in Nat
      /\ \A n \in t.moves : n.type = TypeOf(t)
  BY DEF Keeping, Touches
<1>2. d \notin Paper /\ d \in Doc /\ TypeOf(t) = "WRITE_OFF"
  <2>1. d \notin Paper /\ d \in Doc
    BY <1>1, OwnBatch DEF ReceiptOp, Keeping
  <2> QED
    BY <2>1 DEF TypeOf, PostOp, Out
<1>3. L[h] # 0
  BY <1>1
<1>4. Has(M, h[1], h[2], "RECEIPT") /\ L[h] = 1 /\ OpenOf(M, h) = {}
  BY <1>1, <1>3 DEF Kept
<1>5. now[h] = 0
  BY <1>1, <1>4
<1>6. Has(N, h[1], h[2], "RECEIPT") /\ ~Has(N, h[1], h[2], "RECEIPT_REVERSAL")
  BY <1>1, <1>2, <1>4 DEF Has
<1>7. ~Has(N, d, m.item, "WRITE_OFF_REVERSAL")
  <2>1. ~Has(M, d, m.item, "WRITE_OFF_REVERSAL")
    BY <1>1, <1>2, NoneBack, Kinds DEF Keeping
  <2> QED
    BY <1>1, <1>2, <2>1 DEF Has
<1>8. OpenOf(N, h) = {m}
  <2>1. m \in OpenOf(N, h)
    BY <1>1, <1>2, <1>7 DEF OpenOf
  <2>2. ASSUME NEW o \in OpenOf(N, h), o # m PROVE FALSE
    <3>1. o \in M /\ ~Has(M, o.paper, o.item, "WRITE_OFF_REVERSAL")
      BY <2>2, HasMore DEF OpenOf, Touches
    <3> QED
      BY <1>4, <3>1 DEF OpenOf
  <2> QED
    BY <2>1, <2>2
<1>9. m \in N
  BY <1>1
<1> HIDE DEF N
<1>10. Kept(now, N, h)
  BY <1>5, <1>6, <1>8, <1>9 DEF Kept
<1> QED
  BY <1>10 DEF N

LEMMA KeptGivenBack ==
    ASSUME NEW t, NEW P, NEW L, NEW M, NEW now, Keeping(t, P, L, M, now),
           NEW h \in Bin, Kept(L, M, h), NEW m, Touches(t, m, h), t.op = "reverse"
    PROVE  Kept(now, M \cup t.moves, h)
<1> DEFINE N == M \cup t.moves
           d == t.paper
<1>1. /\ m \in t.moves /\ m.of = h /\ m.paper = d /\ m.type = TypeOf(t) /\ m.item = m.of[2]
      /\ ~Has(M, d, m.item, m.type) /\ now[h] = L[h] + 1
      /\ \A n \in t.moves : n.type = TypeOf(t)
  BY DEF Keeping, Touches
<1>2. d \notin Paper /\ TypeOf(t) = "WRITE_OFF_REVERSAL"
  <2>1. d \notin Paper
    BY <1>1, OwnBatch DEF ReceiptOp
  <2> QED
    BY <2>1 DEF TypeOf, PostOp, Back
<1>3. PICK k \in M : k.paper = d /\ k.of = h /\ k.type = "WRITE_OFF" /\ k.item = m.item
  BY <1>1, <1>2, OwnBatch DEF ReverseOp, Out
<1>4. k \in OpenOf(M, h)
  BY <1>1, <1>2, <1>3 DEF OpenOf
<1>5. /\ Has(M, h[1], h[2], "RECEIPT") /\ ~Has(M, h[1], h[2], "RECEIPT_REVERSAL")
      /\ L[h] = 0 /\ \E o \in M : OpenOf(M, h) = {o}
  BY <1>3, <1>4 DEF Kept
<1>6. now[h] = 1 /\ OpenOf(M, h) = {k}
  BY <1>1, <1>4, <1>5
<1>7. Has(N, h[1], h[2], "RECEIPT") /\ ~Has(N, h[1], h[2], "RECEIPT_REVERSAL")
  BY <1>1, <1>2, <1>5 DEF Has
<1>8. OpenOf(N, h) = {}
  <2> SUFFICES ASSUME NEW o \in OpenOf(N, h) PROVE FALSE
    OBVIOUS
  <2>1. o \in M /\ ~Has(N, o.paper, o.item, "WRITE_OFF_REVERSAL")
    BY <1>1, <1>2 DEF OpenOf
  <2>2. o \in OpenOf(M, h)
    BY <2>1, HasMore DEF OpenOf
  <2>3. o = k
    BY <1>6, <2>2
  <2> QED
    BY <1>1, <1>2, <1>3, <2>1, <2>3 DEF Has
<1> HIDE DEF N
<1>9. Kept(now, N, h)
  BY <1>6, <1>7, <1>8 DEF Kept
<1> QED
  BY <1>9 DEF N

LEMMA FinishKept ==
    ASSUME PostingInv, NEW r \in Slot, Finish(r), ~overtaken, NEW h \in Bin, h[1] \in Paper
    PROVE  Kept(left', moved', h)
<1> DEFINE t == request[r]
<1>1. /\ t.op \in WorkOp /\ t.paper \in Doc /\ Shaped(t) /\ FoundFits(t, moved)
      /\ Moves(t, left, onHand, moved, overtaken) /\ moved' = moved \cup t.moves
  BY FinishFacts
<1>2. /\ left' \in [Bin -> Nat]
      /\ \A m \in t.moves : left'[m.of] = t.left[m.of]
      /\ \A g \in Bin : (\A m \in t.moves : m.of # g) => left'[g] = left[g]
  BY FinishStock
<1>3. MovesFit(paper, moved) /\ Single(moved) /\ moved \subseteq Movement /\ left \in [Bin -> Nat]
      /\ Kept(left, moved, h)
  BY DEF PostingInv, Committed, Stocked, Conserved
<1> HIDE DEF t
<1>4. ASSUME NEW m \in t.moves
      PROVE  /\ m \in Movement /\ m.paper = t.paper /\ m.type = TypeOf(t) /\ m.item = m.of[2]
             /\ ~Has(moved, m.paper, m.item, m.type)
             /\ t.op \in {"receive", "postReceipt"} => m.of = <<t.paper, m.item>> /\ left'[m.of] = 1
             /\ t.op = "reverseReceipt" => m.of \in t.found /\ left'[m.of] = 0 /\ left[m.of] = 1
             /\ t.op = "post" =>
                   left[m.of] = left'[m.of] + 1 /\ ~Has(moved, m.of[1], m.of[2], "RECEIPT_REVERSAL")
             /\ t.op = "reverse" => m.of \in t.found /\ left'[m.of] = left[m.of] + 1
  BY <1>1, <1>2 DEF Moves, Effect, Adds, Takes
<1>5. Keeping(t, paper, left, moved, left')
  BY <1>1, <1>2, <1>3, <1>4 DEF Keeping
<1>6. CASE \A m \in t.moves : m.of # h
  BY <1>1, <1>3, <1>5, <1>6, KeptElsewhere
<1>7. ASSUME NEW m \in t.moves, m.of = h PROVE Kept(left', moved', h)
  <2>1. Touches(t, m, h)
    BY <1>1, <1>7 DEF Touches, Moves
  <2> QED
    BY <1>1, <1>3, <1>5, <2>1, KeptReceived, KeptReversed, KeptTaken, KeptGivenBack
    DEF WorkOp, PostOp, ReverseOp
<1> QED
  BY <1>6, <1>7

\* Whether receipts were counted at once.
Together(r) ==
    \E u \in Slot \ {r} :
        /\ {request[r].op, request[u].op} \subseteq ReceiptOp
        /\ At(u, "end")
        /\ DoNotWait(request[r], request[u])

LEMMA FinishSupply ==
    ASSUME PostingInv, NEW r \in Slot, Finish(r)
    PROVE  LET t == request[r]
           IN  /\ t.op \in ReceiptOp => supply' = t.status
               /\ t.op \notin ReceiptOp => supply' = supply
               /\ ~apart' => ~apart /\ ~Together(r)
               /\ apart' => apart \/ Together(r)
BY DEF Finish, Together

LEMMA FinishFollows ==
    ASSUME PostingInv, NEW r \in Slot, Finish(r)
    PROVE  Follows(paper', supply', astray', apart') /\ supply' \in Counts \cup {"DRAFT"}
<1> DEFINE t == request[r]
           d == t.paper
<1>1. /\ t.pc = "end" /\ t.op \in WorkOp /\ d \in Doc /\ Shaped(t) /\ Counted(t, paper, astray, apart)
      /\ paper' = Leaves(t, paper)
  BY FinishFacts
<1>2. /\ paper' \in [Doc -> Document]
      /\ \A e \in Doc \ {d} : paper'[e] = paper[e]
      /\ paper'[d].items = IF t.op = "receive" THEN t.items ELSE paper[d].items
  BY FinishPapers
<1>3. /\ astray \subseteq astray'
      /\ \A i \in Good : i \in paper'[d].items /\ i \notin t.items => <<d, i>> \in astray'
  BY FinishAstray
<1>4. /\ t.op \in ReceiptOp => supply' = t.status
      /\ t.op \notin ReceiptOp => supply' = supply
      /\ ~apart' => ~apart
  BY FinishSupply
<1>5. Follows(paper, supply, astray, apart) /\ supply \in Counts \cup {"DRAFT"}
  BY DEF PostingInv, Committed
<1> HIDE DEF t
<1>6. CASE t.op \in ReceiptOp
  <2>1. t.status \in Counts
    BY <1>1, <1>6 DEF Counted
  <2>2. ASSUME ~apart', astray' = {} PROVE supply' = Reckoned(paper')
    <3>1. astray = {} /\ ~apart
      BY <1>3, <1>4, <2>2
    <3>2. paper'[d].items \subseteq t.items
      BY <1>1, <1>2, <1>3, <2>2 DEF Document
    <3>3. t.op = "receive" \/ paper[d].items \subseteq t.items
      BY <1>2, <3>2
    <3>4. t.status = Reckoned(Leaves(t, paper))
      BY <1>1, <1>6, <3>1, <3>3 DEF Counted
    <3> QED
      BY <1>1, <1>4, <1>6, <3>4
  <2> QED
    BY <1>4, <1>6, <2>1, <2>2 DEF Follows
<1>7. CASE t.op \notin ReceiptOp
  <2>1. d \notin Paper
    BY <1>1, <1>7 DEF Shaped, WorkOp, PostOp, ReverseOp, ReceiptOp
  <2>2. \A g \in Paper : paper'[g] = paper[g]
    BY <1>2, <2>1 DEF Doc
  <2>3. Reckoned(paper') = Reckoned(paper)
    BY <2>2, ReckonedSame DEF Counting
  <2> QED
    BY <1>3, <1>4, <1>5, <1>7, <2>3 DEF Follows
<1> QED
  BY <1>6, <1>7

LEMMA FinishCommits ==
    ASSUME PostingInv, NEW r \in Slot, Finish(r)
    PROVE  Committed(paper', left', onHand', moved', keyed', supply', astray', overtaken', apart')
<1>1. Stocked(paper', left', onHand', moved', keyed')
  BY FinishPapers, FinishStock, FinishKeys DEF Stocked
<1>2. /\ supply' \in Counts \cup {"DRAFT"} /\ MovesFit(paper', moved') /\ Single(moved')
      /\ Once(paper', moved', astray') /\ KeysFit(paper', keyed', astray')
      /\ Follows(paper', supply', astray', apart')
  BY FinishFollows, FinishMovesFit, FinishSingle, FinishOnce, FinishKeys
<1>3. overtaken' = overtaken
  BY FinishFacts
<1>4. ~overtaken => Conserved(left', onHand', moved')
  BY FinishBooks, FinishKept DEF Conserved
<1> QED
  BY <1>1, <1>2, <1>3, <1>4 DEF Committed

-----------------------------------------------------------------------------
\* What the others know when r has committed.

\* r commits, and q is another request.
Beside(r, q) == Finish(r) /\ BusyNow(q) /\ Pair(q, request[r])

LEMMA BesideFacts ==
    ASSUME NEW q, BusyNow(q)
    PROVE  /\ Shaped(q) /\ q.paper \in Doc /\ Began(q, paper, moved) /\ Phase(q, paper, astray)
           /\ FoundFits(q, moved) /\ Moves(q, left, onHand, moved, overtaken)
           /\ KeepsNew(q, keyed) /\ Counted(q, paper, astray, apart)
BY DEF BusyNow, Busy, Shaped

LEMMA BesideBegan ==
    ASSUME PostingInv, NEW r \in Slot, NEW q, Beside(r, q)
    PROVE  Began(q, paper', moved')
<1> DEFINE t == request[r]
           d == t.paper
<1>1. /\ t.op \in WorkOp /\ d \in Doc /\ Began(t, paper, moved)
      /\ Moves(t, left, onHand, moved, overtaken) /\ moved' = moved \cup t.moves
      /\ LetOff(t, paper, astray) \/ Through(t, astray)
      /\ Pair(q, t)
  BY FinishFacts DEF Beside
<1>2. /\ \A e \in Doc \ {d} : paper'[e] = paper[e]
      /\ paper'[d].items = IF t.op = "receive" THEN t.items ELSE paper[d].items
      /\ paper'[d].status \in Done
      /\ paper[d].status \in Done => paper'[d].items = paper[d].items
  BY FinishPapers DEF Beside
<1>3. Began(q, paper, moved) /\ q.paper \in Doc
  BY BesideFacts DEF Beside
<1> HIDE DEF t
<1>4. \A i, type : Has(moved', d, i, type) <=> Has(moved, d, i, type) \/ Has(t.moves, d, i, type)
  BY <1>1, HasMore
<1>5. CASE q.paper # d
  <2>1. paper'[q.paper] = paper[q.paper]
    BY <1>2, <1>3, <1>5
  <2>2. \A i, type : Has(moved, q.paper, i, type) => Has(moved', q.paper, i, type)
    BY <1>1, HasMore
  <2> QED
    BY <1>3, <2>1, <2>2 DEF Began
<1>6. CASE q.paper = d
  <2>1. q.op # "receive" /\ t.op # "receive"
    BY <1>1, <1>6 DEF Pair
  <2>2. ASSUME q.op \in {"postReceipt", "post"} PROVE \E i \in q.items : Has(moved', d, i, Out(d))
    <3>1. CASE paper[d].status \in Done
      BY <1>3, <1>4, <1>6, <2>2, <3>1 DEF Began
    <3>2. CASE paper[d].status \notin Done
      <4>1. t.op \in {"postReceipt", "post"}
        BY <1>1, <2>1, <3>2 DEF Began, WorkOp, PostOp
      <4>2. DOMAIN t.hand = t.items /\ TypeOf(t) = Out(d)
        BY <1>1, <3>2, <4>1 DEF LetOff, Through, ReverseOp, TypeOf, PostOp
      <4>3. t.items # {} /\ q.items # {}
        BY <1>1, <1>3, <2>2, <4>1 DEF Began
      <4>4. q.items \subseteq t.items \/ t.items \subseteq q.items
        BY <1>1, <1>6, <2>2, <4>1 DEF Pair
      <4>5. PICK i \in q.items : i \in t.items
        BY <4>3, <4>4
      <4>6. Has(t.moves, d, i, Out(d))
        BY <1>1, <4>2, <4>5, HasOwn
      <4> QED
        BY <1>4, <4>5, <4>6
    <3> QED
      BY <3>1, <3>2
  <2>3. paper'[d].items = paper[d].items /\ paper'[d].status # "NONE"
    BY <1>2, <2>1 DEF Done
  <2> QED
    BY <1>2, <1>3, <1>6, <2>1, <2>2, <2>3 DEF Began
<1> QED
  BY <1>5, <1>6

LEMMA BesidePhase ==
    ASSUME PostingInv, NEW r \in Slot, NEW q, Beside(r, q)
    PROVE  Phase(q, paper', astray')
<1> DEFINE t == request[r]
           d == t.paper
<1>1. t.op \in WorkOp /\ d \in Doc /\ (LetOff(t, paper, astray) \/ Through(t, astray))
  BY FinishFacts DEF Beside
<1>2. /\ \A e \in Doc \ {d} : paper'[e] = paper[e]
      /\ paper'[d].status = IF t.op \in ReverseOp THEN "REVERSED" ELSE "POSTED"
      /\ paper'[d].status \in Done
  BY FinishPapers DEF Beside
<1>3. /\ astray \subseteq astray'
      /\ t.moves = {} /\ t.op \notin ReverseOp /\ paper[d].status = "REVERSED" =>
            \A i \in Good : <<d, i>> \in astray'
  BY FinishAstray DEF Beside
<1>4. t.op \in PostOp /\ paper[d].status \in Done => t.moves = {}
  BY <1>1, ThroughFirst DEF Beside, LetOff
<1>5. Phase(q, paper, astray) /\ q.paper \in Doc
  BY BesideFacts DEF Beside
<1> HIDE DEF t
<1>6. ASSUME LetOff(q, paper, astray) PROVE LetOff(q, paper', astray')
  <2>1. CASE q.paper # d
    BY <1>2, <1>3, <1>5, <1>6, <2>1 DEF LetOff
  <2>2. CASE q.paper = d /\ t.op \in ReverseOp
    BY <1>2, <1>6, <2>2 DEF LetOff
  <2>3. CASE q.paper = d /\ t.op \notin ReverseOp
    BY <1>1, <1>2, <1>3, <1>4, <1>6, <2>3 DEF LetOff, WorkOp
  <2> QED
    BY <2>1, <2>2, <2>3
<1>7. AllFound(q, astray) => AllFound(q, astray')
  BY <1>3, AllFoundGrows
<1> QED
  BY <1>5, <1>6, <1>7 DEF Phase, Through

LEMMA BesideMoves ==
    ASSUME PostingInv, NEW r \in Slot, NEW q, Beside(r, q)
    PROVE  Moves(q, left', onHand', moved', overtaken')
<1> DEFINE t == request[r]
<1>1. /\ Moves(t, left, onHand, moved, overtaken) /\ moved' = moved \cup t.moves
      /\ overtaken' = overtaken /\ Pair(q, t)
  BY FinishFacts DEF Beside
<1>2. /\ \A h \in Bin : (\A m \in t.moves : m.of # h) => left'[h] = left[h]
      /\ \A i \in Good : (\A m \in t.moves : m.item # i) => onHand'[i] = onHand[i]
  BY FinishStock DEF Beside
<1>3. Moves(q, left, onHand, moved, overtaken)
  BY BesideFacts DEF Beside
<1> HIDE DEF t
<1>4. \A n \in t.moves, m \in q.moves : n.item # m.item /\ n.of # m.of
  <2> SUFFICES ASSUME NEW n \in t.moves, NEW m \in q.moves PROVE n.item # m.item /\ n.of # m.of
    OBVIOUS
  <2>1. n.item \in DOMAIN t.hand /\ n.item = n.of[2]
    BY <1>1 DEF Moves
  <2>2. m.item \in DOMAIN q.hand /\ m.item = m.of[2]
    BY <1>3 DEF Moves
  <2>3. DOMAIN q.hand \cap DOMAIN t.hand = {}
    BY <1>1 DEF Pair
  <2> QED
    BY <2>1, <2>2, <2>3
<1>5. ASSUME NEW m \in q.moves
      PROVE  /\ m.of \in Bin /\ m.item \in Good /\ m.item = m.of[2]
             /\ left'[m.of] = left[m.of] /\ onHand'[m.item] = onHand[m.item]
  <2>1. m.of \in Bin /\ m.item \in Good /\ m.item = m.of[2]
    BY <1>3 DEF Moves, Movement
  <2> QED
    BY <1>2, <1>4, <2>1
<1>6. ASSUME NEW m \in q.moves, NEW p, NEW type, Has(moved', p, m.item, type)
      PROVE  Has(moved, p, m.item, type)
  <2>1. ~Has(t.moves, p, m.item, type)
    BY <1>4 DEF Has
  <2> QED
    BY <1>1, <1>6, <2>1, HasMore
<1>7. ASSUME NEW m \in q.moves PROVE Effect(q, m, left', onHand', moved', overtaken)
  <2>1. Effect(q, m, left, onHand, moved, overtaken)
    BY <1>3 DEF Moves
  <2>2. Has(moved', m.of[1], m.of[2], "RECEIPT_REVERSAL") => Has(moved, m.of[1], m.of[2], "RECEIPT_REVERSAL")
    BY <1>5, <1>6
  <2>3. left'[m.of] = left[m.of] /\ onHand'[m.item] = onHand[m.item]
    BY <1>5
  <2> QED
    BY <2>1, <2>2, <2>3 DEF Effect, Adds, Takes
<1>8. \A m \in q.moves : ~Has(moved', m.paper, m.item, m.type)
  BY <1>3, <1>6 DEF Moves
<1> QED
  BY <1>1, <1>3, <1>7, <1>8 DEF Moves

LEMMA BesideKeeps ==
    ASSUME PostingInv, NEW r \in Slot, NEW q, Beside(r, q)
    PROVE  KeepsNew(q, keyed')
<1> DEFINE t == request[r]
<1>1. t.op \in WorkOp /\ Pair(q, t)
  BY FinishFacts DEF Beside
<1>2. (t.keeps /\ keyed' = keyed \cup {OwnKey(t)}) \/ (~t.keeps /\ keyed' = keyed)
  BY DEF Beside, Finish, OwnKey
<1>3. KeepsNew(q, keyed)
  BY BesideFacts DEF Beside
<1> HIDE DEF t
<1>4. OwnKey(t).scope = Scope[t.op] /\ OwnKey(t).key = t.key
  BY DEF OwnKey
<1>5. ASSUME q.keeps, q.op \in ReceiptOp, t.keeps, Scope[t.op] = Scope[q.op], t.key = q.key PROVE FALSE
  <2>1. t.op \in ReceiptOp
    BY <1>1, <1>5, Scopes DEF WorkOp, PostOp, ReverseOp, ReceiptOp
  <2> QED
    BY <1>1, <1>5, <2>1 DEF Pair
<1> QED
  BY <1>2, <1>3, <1>4, <1>5 DEF KeepsNew

\* Two receipts that wait for each other are not both through.
LEMMA WaitForEachOther ==
    ASSUME NEW q, NEW t, Through(q, {}), Through(t, {}), Pair(q, t)
    PROVE  q.items \cap t.items = {}
<1>1. \A p : Through(p, {}) => p.items \subseteq DOMAIN p.hand
  BY DEF Through, AllFound
<1> QED
  BY <1>1 DEF Pair

LEMMA BesideCounted ==
    ASSUME PostingInv, NEW r \in Slot, NEW u \in Slot \ {r}, Beside(r, request[u])
    PROVE  Counted(request[u], paper', astray', apart')
<1> DEFINE t == request[r]
           q == request[u]
           d == t.paper
<1>1. /\ t.op \in WorkOp /\ d \in Doc /\ Shaped(t) /\ (LetOff(t, paper, astray) \/ Through(t, astray))
      /\ Pair(q, t)
  BY FinishFacts DEF Beside
<1>2. \A e \in Doc \ {d} : paper'[e] = paper[e]
  BY FinishPapers DEF Beside
<1>3. astray \subseteq astray'
  BY FinishAstray DEF Beside
<1>4. ~apart' => ~apart /\ ~Together(r)
  BY FinishSupply DEF Beside
<1>5. Shaped(q) /\ q.paper \in Doc /\ Counted(q, paper, astray, apart) /\ Phase(q, paper, astray)
  BY BesideFacts DEF Beside
<1>6. q.pc = "end" /\ {t.op, q.op} \subseteq ReceiptOp /\ ~Together(r) => ~DoNotWait(t, q)
  BY DEF Together, At
<1>7. paper \in [Doc -> Document] /\ paper' \in [Doc -> Document]
  BY FinishPapers DEF Beside, PostingInv, Committed, Stocked
<1> HIDE DEF t, q
<1> SUFFICES ASSUME q.pc = "end", q.op \in ReceiptOp, ~apart', astray' = {},
                    q.op = "receive" \/ paper'[q.paper].items \subseteq q.items
             PROVE  q.status = Reckoned(Leaves(q, paper'))
  BY <1>5 DEF Counted, q
<1>8. astray = {} /\ ~apart
  BY <1>3, <1>4
<1>9. t.op \notin ReceiptOp
  <2> SUFFICES ASSUME t.op \in ReceiptOp PROVE FALSE
    OBVIOUS
  <2>1. ~DoNotWait(t, q)
    BY <1>4, <1>6
  <2>2. t.moves # {} /\ q.moves # {} /\ q.items \cap t.items # {}
    BY <2>1 DEF DoNotWait
  <2>3. Through(t, {}) /\ Through(q, {})
    BY <1>1, <1>5, <1>8, <2>2 DEF LetOff, Phase
  <2> QED
    BY <1>1, <2>2, <2>3, WaitForEachOther
<1>10. d \notin Paper /\ q.paper \in Paper
  BY <1>1, <1>5, <1>9 DEF Shaped, WorkOp, PostOp, ReverseOp, ReceiptOp
<1>11. \A g \in Paper : paper'[g] = paper[g]
  BY <1>2, <1>10 DEF Doc
<1>12. Reckoned(Leaves(q, paper')) = Reckoned(Leaves(q, paper))
  <2>1. \A g \in Paper : \A i \in Good : Counting(paper, g, i) <=> Counting(paper', g, i)
    BY <1>11 DEF Counting
  <2>2. paper'[q.paper].items = paper[q.paper].items
    BY <1>10, <1>11
  <2> QED
    BY <1>5, <1>7, <2>1, <2>2, LeavesSame
<1> QED
  BY <1>5, <1>8, <1>10, <1>11, <1>12 DEF Counted

LEMMA FinishKeeps ==
    ASSUME PostingInv, NEW r \in Slot, Finish(r)
    PROVE  PostingInv'
<1>1. Committed(paper', left', onHand', moved', keyed', supply', astray', overtaken', apart')
  BY FinishCommits
<1>2. request' = [request EXCEPT ![r] = Unused] /\ moved' = moved \cup request[r].moves
  BY FinishFacts
<1>3. ASSUME NEW u \in Slot \ {r}
      PROVE  Known(request[u], paper', left', onHand', moved', keyed', astray', overtaken', apart')
  <2>1. CASE request[u] = Unused
    BY <2>1 DEF Known
  <2>2. CASE request[u] # Unused
    <3>1. Beside(r, request[u])
      BY <2>2 DEF Beside, PostingInv, Known, BusyNow
    <3>2. Shaped(request[u]) /\ FoundFits(request[u], moved)
      BY <3>1, BesideFacts DEF Beside
    <3>3. FoundFits(request[u], moved')
      BY <1>2, <3>2 DEF FoundFits
    <3>4. /\ Began(request[u], paper', moved') /\ Phase(request[u], paper', astray')
          /\ Moves(request[u], left', onHand', moved', overtaken') /\ KeepsNew(request[u], keyed')
          /\ Counted(request[u], paper', astray', apart')
      BY <3>1, BesideBegan, BesidePhase, BesideMoves, BesideKeeps, BesideCounted
    <3> QED
      BY <3>2, <3>3, <3>4 DEF Known, Busy
  <2> QED
    BY <2>1, <2>2
<1> QED
  BY <1>1, <1>2, <1>3, Ended

-----------------------------------------------------------------------------
\* The beginning, every step, and what follows.

LEMMA InitPosting ==
    ASSUME PostingInit
    PROVE  PostingInv
<1>1. PICK before \in [Good -> {0, 1}] :
         /\ left = [h \in Bin |-> IF h[1] = Before THEN before[h[2]] ELSE 0]
         /\ onHand = before
  BY DEF PostingInit
<1>2. /\ paper = [d \in Doc |-> [status |-> "NONE", items |-> {}]]
      /\ moved = {} /\ keyed = {} /\ supply \in {"DRAFT", "SUBMITTED_TO_SUPPLIER"}
      /\ request = [r \in Slot |-> Unused]
      /\ astray = {} /\ overtaken = FALSE /\ apart = FALSE
  BY DEF PostingInit
<1>3. \A d \in Doc : paper[d] \in Document /\ paper[d].status = "NONE" /\ paper[d].items = {}
  BY <1>2 DEF Document
<1>4. left \in [Bin -> Nat] /\ onHand \in [Good -> Nat]
  <2>1. \A h \in Bin : h[2] \in Good
    BY DEF Bin
  <2> QED
    BY <1>1, <2>1
<1>5. Stocked(paper, left, onHand, moved, keyed)
  <2>1. paper \in [Doc -> Document]
    BY <1>2, <1>3
  <2> QED
    BY <1>2, <1>4, <2>1 DEF Stocked
<1>6. /\ supply \in Counts \cup {"DRAFT"} /\ MovesFit(paper, moved) /\ Single(moved)
      /\ KeysFit(paper, keyed, astray)
  BY <1>2 DEF Counts, MovesFit, Single, KeysFit
<1>7. Once(paper, moved, astray)
  BY <1>3 DEF Once
<1>8. Follows(paper, supply, astray, apart)
  <2>1. ASSUME NEW i \in Good PROVE PostedWith(paper, i) = 0
    <3>1. {g \in Paper : paper[g].status = "POSTED" /\ i \in paper[g].items} = {}
      BY <1>3 DEF Doc
    <3> QED
      BY <3>1, FS_EmptySet DEF PostedWith
  <2>2. Reckoned(paper) = "SUBMITTED_TO_SUPPLIER"
    BY <2>1 DEF Reckoned
  <2> QED
    BY <1>2, <2>2 DEF Follows
<1>9. ASSUME NEW i \in Good PROVE onHand[i] = TotalOn(left, BinsOf(i))
  <2> DEFINE b == <<Before, i>>
             B == BinsOf(i)
  <2>1. IsFiniteSet(B) /\ B \subseteq Bin /\ b \in B /\ left[b] = onHand[i]
    BY <1>1, BinsFinite DEF BinsOf, Bin
  <2>2. \A h \in B \ {b} : left[h] = 0
    BY <1>1, PostingAssumption DEF BinsOf, Bin
  <2>3. \A h \in B : left[h] \in Nat
    BY <1>4, <2>1
  <2> HIDE DEF b, B
  <2>4. TotalOn(left, B) = TotalOn(left, {b}) + TotalOn(left, B \ {b})
    <3> DEFINE S == {b}
               T == B \ {b}
    <3>1. IsFiniteSet(S) /\ IsFiniteSet(T) /\ S \cap T = {} /\ S \cup T = B
      BY <2>1, FS_Singleton, FS_Subset
    <3> HIDE DEF S, T
    <3>2. TotalOn(left, S \cup T) = TotalOn(left, S) + TotalOn(left, T)
      BY <2>3, <3>1, TotalSplit
    <3> QED
      BY <3>1, <3>2 DEF S, T
  <2>5. TotalOn(left, {b}) = left[b]
    BY <2>1, <2>3, TotalSingle
  <2>6. TotalOn(left, B \ {b}) = 0
    BY <2>1, <2>2, FS_Subset, TotalZero
  <2>7. left[b] \in Nat
    BY <2>1, <2>3
  <2> QED
    BY <2>1, <2>4, <2>5, <2>6, <2>7 DEF B
<1>10. ASSUME NEW h \in Bin, h[1] \in Paper PROVE Kept(left, moved, h)
  <2>1. left[h] = 0
    BY <1>1, <1>10, PostingAssumption
  <2> QED
    BY <1>2, <2>1 DEF Kept, Has
<1>11. Committed(paper, left, onHand, moved, keyed, supply, astray, overtaken, apart)
  BY <1>5, <1>6, <1>7, <1>8, <1>9, <1>10 DEF Committed, Conserved
<1>12. \A r \in Slot : request[r] = Unused
  BY <1>2
<1>13. Pair(Unused, Unused)
  BY UnusedParts DEF Pair
<1>14. request = [r \in Slot |-> request[r]]
  BY <1>2
<1> QED
  BY <1>11, <1>12, <1>13, <1>14 DEF PostingInv, Known

LEMMA NextPosting ==
    ASSUME PostingInv, [PostingNext]_postingVars
    PROVE  PostingInv'
<1>1. CASE UNCHANGED postingVars
  BY <1>1 DEF postingVars, stock, history, PostingInv
<1>2. ASSUME NEW g \in Paper, CreateReceipt(g) PROVE PostingInv'
  BY <1>2, CreatesKeep
<1>3. ASSUME NEW w \in Loss, Create(w) PROVE PostingInv'
  BY <1>3, CreatesKeep
<1>4. ASSUME NEW r \in Slot, NEW g \in Paper, NEW key \in Press \cup {NoPress},
             \/ StartReceiving(r, g, key)
             \/ StartPosting(r, g, key)
             \/ StartReversing(r, g, key)
      PROVE  PostingInv'
  BY <1>4, StartReceivingKeeps, StartsKeep DEF Doc
<1>5. ASSUME NEW r \in Slot, NEW w \in Loss, NEW key \in Press, StartLoss(r, w, key) \/ StartReturn(r, w, key)
      PROVE  PostingInv'
  BY <1>5, StartsKeep DEF Doc
<1>6. ASSUME NEW r \in Slot, NEW g \in Paper, NEW i \in Good, StartAdding(r, g, i)
      PROVE  PostingInv'
  <2>1. g \in Doc /\ NoPress \in Press \cup {NoPress} /\ StartAdding(r, g, i)
    BY <1>6 DEF Doc
  <2> QED
    BY <2>1, StartsKeep
<1>7. ASSUME NEW r \in Slot, NEW w \in Loss, NEW i \in Good, StartAddingLoss(r, w, i)
      PROVE  PostingInv'
  <2>1. w \in Doc /\ NoPress \in Press \cup {NoPress} /\ StartAddingLoss(r, w, i)
    BY <1>7 DEF Doc
  <2> QED
    BY <2>1, StartsKeep
<1>8. ASSUME NEW r \in Slot,
             Added(r) \/ Submitted(r) \/ Check(r) \/ LookUp(r) \/ LookAt(r) \/ Count(r) \/ Finish(r) \/ Fail(r)
      PROVE  PostingInv'
  BY <1>8, AddedKeeps, SubmittedKeeps, CheckKeeps, LookUpKeeps, LookAtKeeps, CountKeeps, FinishKeeps, GivenUp
<1>9. ASSUME NEW r \in Slot, EnterLine(r) \/ ReverseLine(r) \/ TakeLine(r) \/ RestoreLine(r)
      PROVE  PostingInv'
  BY <1>9, LinesKeep
<1> QED
  BY <1>1, <1>2, <1>3, <1>4, <1>5, <1>6, <1>7, <1>8, <1>9 DEF PostingNext

LEMMA StoredCount ==
    ASSUME Single(moved), NEW d, NEW i, NEW type
    PROVE  Cardinality(Stored(d, i, type)) = IF Has(moved, d, i, type) THEN 1 ELSE 0
<1>1. CASE ~Has(moved, d, i, type)
  <2>1. Stored(d, i, type) = {}
    BY <1>1 DEF Stored, Has
  <2> QED
    BY <1>1, <2>1, FS_EmptySet
<1>2. CASE Has(moved, d, i, type)
  <2>1. PICK m \in moved : m.paper = d /\ m.item = i /\ m.type = type
    BY <1>2 DEF Has
  <2>2. Stored(d, i, type) = {m}
    BY <2>1 DEF Stored, Single
  <2> QED
    BY <1>2, <2>2, FS_Singleton
<1> QED
  BY <1>1, <1>2

LEMMA PostingInvMeans ==
    ASSUME PostingInv
    PROVE  PostingsKeepStep
<1>1. Committed(paper, left, onHand, moved, keyed, supply, astray, overtaken, apart)
  BY DEF PostingInv
<1>2. PostingTypeOK
  BY <1>1 DEF Committed, Stocked, Document, PostingTypeOK, Counts
<1>3. MovesOnce
  <2> SUFFICES ASSUME NEW d \in Doc, NEW i \in Good, <<d, i>> \notin astray
               PROVE  /\ Cardinality(Stored(d, i, Out(d))) =
                            IF i \in paper[d].items /\ paper[d].status \in {"POSTED", "REVERSED"} THEN 1 ELSE 0
                      /\ Cardinality(Stored(d, i, Back(d))) =
                            IF i \in paper[d].items /\ paper[d].status \in {"REVERSED"} THEN 1 ELSE 0
    BY DEF MovesOnce, Out, Back
  <2>1. /\ Has(moved, d, i, Out(d)) => i \in paper[d].items /\ paper[d].status \in Done
        /\ Has(moved, d, i, Back(d)) => i \in paper[d].items
    BY <1>1 DEF Committed, MovesFit, Has
  <2>2. i \in paper[d].items =>
           /\ paper[d].status \in Done => Has(moved, d, i, Out(d))
           /\ Has(moved, d, i, Back(d)) <=> paper[d].status = "REVERSED"
    BY <1>1 DEF Committed, Once
  <2>3. Has(moved, d, i, Out(d)) <=> i \in paper[d].items /\ paper[d].status \in {"POSTED", "REVERSED"}
    BY <2>1, <2>2 DEF Done
  <2>4. Has(moved, d, i, Back(d)) <=> i \in paper[d].items /\ paper[d].status \in {"REVERSED"}
    BY <2>1, <2>2
  <2>5. Single(moved)
    BY <1>1 DEF Committed
  <2> QED
    BY <2>3, <2>4, <2>5, StoredCount
<1>4. BooksMatch
  <2> SUFFICES ASSUME ~overtaken
               PROVE  /\ \A i \in Good : onHand[i] = TotalOn(left, BinsOf(i))
                      /\ \A h \in Bin : IsReversed(h) => left[h] = 0
    BY DEF BooksMatch
  <2>1. Conserved(left, onHand, moved)
    BY <1>1 DEF Committed
  <2>2. ASSUME NEW h \in Bin, IsReversed(h) PROVE left[h] = 0
    <3>1. PICK m \in moved : m.paper = h[1] /\ m.item = h[2] /\ m.type = "RECEIPT_REVERSAL"
      BY <2>2 DEF IsReversed, Stored
    <3>2. h[1] \in Paper
      BY <1>1, <3>1, PostingAssumption DEF Committed, Stocked, Movement, Doc, Bin
    <3>3. Kept(left, moved, h) /\ Has(moved, h[1], h[2], "RECEIPT_REVERSAL")
      BY <2>1, <3>1, <3>2 DEF Conserved, Has
    <3> QED
      BY <3>3 DEF Kept
  <2> QED
    BY <2>1, <2>2 DEF Conserved
<1>5. KeysAreUnique
  BY <1>1 DEF Committed, KeysFit, KeysAreUnique
<1>6. StatusFollows
  BY <1>1 DEF Committed, Follows, StatusFollows
<1> QED
  BY <1>2, <1>3, <1>4, <1>5, <1>6 DEF PostingsKeepStep

(***************************************************************************)
(* However many requests post and reverse receipts and write-offs at once, *)
(* fail or come again: a document moves each of its items once and back    *)
(* once, the balances stay what the batches hold, a key belongs to one     *)
(* document, and the status of the supply is the one its receipts ask for, *)
(* each as far as PostingRace says (the receipts and write-offs with their *)
(* idempotency keys, and recalculate).                                     *)
(***************************************************************************)
THEOREM PostingsAlwaysKeepStep == PostingSpec => []PostingsKeepStep
<1>1. PostingInit => PostingInv
  BY InitPosting
<1>2. PostingInv /\ [PostingNext]_postingVars => PostingInv'
  BY NextPosting
<1>3. PostingInv => PostingsKeepStep
  BY PostingInvMeans
<1> QED
  BY <1>1, <1>2, <1>3, PTL DEF PostingSpec

=============================================================================
