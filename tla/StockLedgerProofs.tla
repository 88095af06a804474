------------------------- MODULE StockLedgerProofs -------------------------
(***************************************************************************)
(* Proofs about the stock ledger, for every catalogue, every number of     *)
(* batches, lines and documents and every bound.                           *)
(***************************************************************************)
EXTENDS StockLedger, QuantitiesProofs

-----------------------------------------------------------------------------
\* The sets the totals range over are finite.
LEMMA FiniteParts ==
    /\ \A i \in Item : IsFiniteSet(BatchesOf(i)) /\ BatchesOf(i) \subseteq Batch
    /\ \A L \in SUBSET Line : IsFiniteSet(L)
    /\ \A L \in SUBSET Line, b \in Batch :
          IsFiniteSet(L \X {b}) /\ L \X {b} \subseteq Line \X Batch
    /\ \A L \in SUBSET Line, i \in Item :
          IsFiniteSet(L \X BatchesOf(i)) /\ L \X BatchesOf(i) \subseteq Line \X Batch
<1>1. \A i \in Item : IsFiniteSet(BatchesOf(i)) /\ BatchesOf(i) \subseteq Batch
  BY BatchAssumption, FS_Subset DEF BatchesOf
<1>2. \A L \in SUBSET Line : IsFiniteSet(L)
  BY LineAssumption, FS_Subset
<1>3. \A L \in SUBSET Line, b \in Batch :
         IsFiniteSet(L \X {b}) /\ L \X {b} \subseteq Line \X Batch
  <2> SUFFICES ASSUME NEW L \in SUBSET Line, NEW b \in Batch
               PROVE  IsFiniteSet(L \X {b}) /\ L \X {b} \subseteq Line \X Batch
    OBVIOUS
  <2>1. IsFiniteSet({b})
    BY FS_Singleton
  <2>2. IsFiniteSet(L \X {b})
    BY <1>2, <2>1, FS_Product
  <2> QED
    BY <2>2
<1>4. \A L \in SUBSET Line, i \in Item :
         IsFiniteSet(L \X BatchesOf(i)) /\ L \X BatchesOf(i) \subseteq Line \X Batch
  <2> SUFFICES ASSUME NEW L \in SUBSET Line, NEW i \in Item
               PROVE  /\ IsFiniteSet(L \X BatchesOf(i))
                      /\ L \X BatchesOf(i) \subseteq Line \X Batch
    OBVIOUS
  <2>1. IsFiniteSet(L \X BatchesOf(i))
    BY <1>1, <1>2, FS_Product
  <2> QED
    BY <1>1, <2>1
<1> QED
  BY <1>1, <1>2, <1>3, <1>4

\* A total over the batches of an item is a natural number.
LEMMA ItemTotal ==
    ASSUME NEW f, \A b \in Batch : f[b] \in Nat, NEW i \in Item
    PROVE  TotalOn(f, BatchesOf(i)) \in Nat
BY FiniteParts, TotalNat

\* What lines hold is a natural number.
LEMMA HeldType ==
    ASSUME active \in [Line \X Batch -> Nat]
    PROVE  /\ \A L \in SUBSET Line, b \in Batch : HeldOn(L, b) \in Nat
           /\ \A L \in SUBSET Line, i \in Item : HeldOf(L, i) \in Nat
<1>1. \A L \in SUBSET Line, b \in Batch : HeldOn(L, b) \in Nat
  <2> SUFFICES ASSUME NEW L \in SUBSET Line, NEW b \in Batch
               PROVE  TotalOn(active, L \X {b}) \in Nat
    BY DEF HeldOn
  <2>1. IsFiniteSet(L \X {b}) /\ L \X {b} \subseteq Line \X Batch
    BY FiniteParts
  <2>2. \A k \in L \X {b} : active[k] \in Nat
    BY <2>1
  <2> QED
    BY <2>1, <2>2, TotalNat
<1>2. \A L \in SUBSET Line, i \in Item : HeldOf(L, i) \in Nat
  <2> SUFFICES ASSUME NEW L \in SUBSET Line, NEW i \in Item
               PROVE  TotalOn(active, L \X BatchesOf(i)) \in Nat
    BY DEF HeldOf
  <2>1. IsFiniteSet(L \X BatchesOf(i)) /\ L \X BatchesOf(i) \subseteq Line \X Batch
    BY FiniteParts
  <2>2. \A k \in L \X BatchesOf(i) : active[k] \in Nat
    BY <2>1
  <2> QED
    BY <2>1, <2>2, TotalNat
<1> QED
  BY <1>1, <1>2

\* The free quantity of a batch is a natural number, at most what it has left
\* when nothing has been taken out.
LEMMA FreeType ==
    ASSUME TypeOK, NEW L \in SUBSET Line, NEW gone, \A b \in Batch : gone[b] \in Nat
    PROVE  \A b \in Batch :
              /\ FreeWithout(L, gone)[b] \in Nat
              /\ FreeWithout(L, gone)[b] > 0 =>
                    /\ status[b] = "ACTIVE"
                    /\ FreeWithout(L, gone)[b] + gone[b] + HeldOn(Line \ L, b) = remaining[b]
<1> SUFFICES ASSUME NEW b \in Batch
             PROVE  /\ FreeWithout(L, gone)[b] \in Nat
                    /\ FreeWithout(L, gone)[b] > 0 =>
                          /\ status[b] = "ACTIVE"
                          /\ FreeWithout(L, gone)[b] + gone[b] + HeldOn(Line \ L, b)
                               = remaining[b]
  OBVIOUS
<1>1. HeldOn(Line \ L, b) \in Nat
  BY HeldType DEF TypeOK
<1>2. remaining[b] \in Nat
  BY DEF TypeOK
<1> QED
  BY <1>1, <1>2 DEF FreeWithout, Monus

\* Taking units of an item for reservations never takes more than is wanted.
LEMMA FromHeldType ==
    ASSUME TypeOK, NEW L \in SUBSET Line, NEW want \in [Item -> Nat], NEW i \in Item
    PROVE  /\ FromHeld(L, want, i) \in Nat
           /\ FromHeld(L, want, i) <= want[i]
           /\ FromHeld(L, want, i) <= HeldOf(L, i)
<1>1. HeldOf(L, i) \in Nat
  BY HeldType DEF TypeOK
<1> QED
  BY <1>1 DEF FromHeld, Least

\* What an issue or a write-off takes from free stock is a natural number and
\* was free.
LEMMA FromFreeType ==
    ASSUME TypeOK, NEW L \in SUBSET Line, NEW want \in [Item -> Nat],
           NEW consumed, \A b \in Batch : consumed[b] \in Nat
    PROVE  \A b \in Batch :
              /\ FromFree(L, want, consumed)[b] \in Nat
              /\ FromFree(L, want, consumed)[b] <= FreeWithout(L, consumed)[b]
<1> SUFFICES ASSUME NEW b \in Batch
             PROVE  /\ FromFree(L, want, consumed)[b] \in Nat
                    /\ FromFree(L, want, consumed)[b] <= FreeWithout(L, consumed)[b]
  OBVIOUS
<1> DEFINE i == ItemOf[b]
<1> DEFINE free == FreeWithout(L, consumed)
<1> DEFINE rest == want[i] - FromHeld(L, want, i)
<1>1. i \in Item
  BY BatchAssumption
<1>2. b \in BatchesOf(i) /\ BatchesOf(i) \subseteq Nat /\ IsFiniteSet(BatchesOf(i))
  BY BatchAssumption, FiniteParts, <1>1 DEF BatchesOf
<1>3. rest \in Nat
  BY <1>1, FromHeldType
<1>4. \A k \in BatchesOf(i) : free[k] \in Nat
  BY FreeType, FiniteParts, <1>1
<1>5. FromFree(L, want, consumed)[b] = Walk(free, rest, BatchesOf(i))[b]
  BY DEF FromFree
<1> HIDE DEF i, free, rest
<1>6. Walk(free, rest, BatchesOf(i))[b] \in Nat /\ Walk(free, rest, BatchesOf(i))[b] <= free[b]
  BY <1>2, <1>3, <1>4, WalkType
<1> QED
  BY <1>5, <1>6 DEF free

-----------------------------------------------------------------------------
\* Documents are sales, handed over orders and write-offs; a movement written
\* on every batch leaves integers in the ledger.
LEMMA MovedType ==
    ASSUME TypeOK, NEW type \in MovementType, NEW qty, \A b \in Batch : qty[b] \in Int
    PROVE  Moved(type, qty) \in [Batch -> [MovementType -> Int]]
BY DEF TypeOK, Moved

\* Batch rows stay well typed when units leave them or come back.
LEMMA TakenOutType ==
    ASSUME TypeOK, NEW qty, TakenOut(qty),
           \A b \in Batch : qty[b] \in Nat /\ qty[b] <= remaining[b]
    PROVE  remaining' \in [Batch -> Nat] /\ status' \in [Batch -> BatchStatus]
<1>1. \A b \in Batch : remaining[b] - qty[b] \in Nat
  BY DEF TypeOK
<1> QED
  BY <1>1 DEF TypeOK, TakenOut, BatchStatus

LEMMA PutBackType ==
    ASSUME TypeOK, NEW qty \in [Batch -> Nat], PutBack(qty)
    PROVE  remaining' \in [Batch -> Nat] /\ status' \in [Batch -> BatchStatus]
BY DEF TypeOK, PutBack, BatchStatus

\* A balance that holds and is an integer is a natural number.
LEMMA BalanceType ==
    ASSUME NEW stock \in [Item -> Int], NEW held \in [Item -> Int],
           \A i \in Item : stock[i] >= 0 /\ held[i] >= 0
    PROVE  stock \in [Item -> Nat] /\ held \in [Item -> Nat]
OBVIOUS

(***************************************************************************)
(* Each operation of the adapters keeps the rows well typed.               *)
(***************************************************************************)
LEMMA PostReceiptType ==
    ASSUME TypeOK, NEW r \in Receipt, NEW accepted \in [LinesOf(r) -> Qty],
           PostReceipt(r, accepted)
    PROVE  TypeOK'
<1> DEFINE in == [b \in Batch |-> IF b \in LinesOf(r) THEN accepted[b] ELSE 0]
<1>1. \A b \in Batch : in[b] \in Nat
  BY BoundAssumption DEF Qty
<1>2. \A i \in Item : TotalOn(in, BatchesOf(i)) \in Nat
  BY <1>1, ItemTotal
<1>3. Moved("RECEIPT", in) \in [Batch -> [MovementType -> Int]]
  BY <1>1, MovedType DEF MovementType
<1>4. receipt' = [receipt EXCEPT ![r] = "POSTED"]
  BY DEF PostReceipt
<1>5. /\ status' = [b \in Batch |-> IF in[b] > 0 THEN "ACTIVE" ELSE status[b]]
      /\ initial' = [b \in Batch |-> IF in[b] > 0 THEN in[b] ELSE initial[b]]
      /\ remaining' = [b \in Batch |-> IF in[b] > 0 THEN in[b] ELSE remaining[b]]
      /\ onHand' = [i \in Item |-> onHand[i] + TotalOn(in, BatchesOf(i))]
      /\ moved' = Moved("RECEIPT", in)
      /\ UNCHANGED <<active, reserved, papers>>
  BY DEF PostReceipt
<1> HIDE DEF in
<1> QED
  BY <1>1, <1>2, <1>3, <1>4, <1>5 DEF TypeOK, papers, BatchStatus

LEMMA ReverseReceiptType ==
    ASSUME TypeOK, NEW r \in Receipt, ReverseReceipt(r)
    PROVE  TypeOK'
<1> DEFINE made == {b \in LinesOf(r) : status[b] # "NONE"}
<1> DEFINE out == [b \in Batch |-> IF b \in made THEN initial[b] ELSE 0]
<1>1. \A b \in Batch : out[b] \in Nat
  BY DEF TypeOK
<1>2. \A i \in Item : TotalOn(out, BatchesOf(i)) \in Nat
  BY <1>1, ItemTotal
<1>3. Moved("RECEIPT_REVERSAL", [b \in Batch |-> - out[b]])
        \in [Batch -> [MovementType -> Int]]
  <2> DEFINE neg == [b \in Batch |-> - out[b]]
  <2>1. \A b \in Batch : neg[b] \in Int
    BY <1>1
  <2> HIDE DEF neg
  <2>2. Moved("RECEIPT_REVERSAL", neg) \in [Batch -> [MovementType -> Int]]
    BY <2>1, MovedType DEF MovementType
  <2> QED
    BY <2>2 DEF neg
<1>4. /\ receipt' = [receipt EXCEPT ![r] = "REVERSED"]
      /\ status' = [b \in Batch |-> IF b \in made THEN "REVERSED" ELSE status[b]]
      /\ remaining' = [b \in Batch |-> IF b \in made THEN 0 ELSE remaining[b]]
      /\ onHand' = [i \in Item |-> onHand[i] - TotalOn(out, BatchesOf(i))]
      /\ moved' = Moved("RECEIPT_REVERSAL", [b \in Batch |-> - out[b]])
      /\ UNCHANGED <<initial, active, reserved, papers>>
      /\ BalancesHold'
  BY DEF ReverseReceipt
<1> HIDE DEF out, made
<1>5. onHand' \in [Item -> Int]
  BY <1>2, <1>4 DEF TypeOK
<1>6. onHand' \in [Item -> Nat]
  BY <1>4, <1>5 DEF BalancesHold
<1> QED
  BY <1>3, <1>4, <1>6 DEF TypeOK, papers, BatchStatus

LEMMA CorrectReceiptLineType ==
    ASSUME TypeOK, NEW b \in Batch, NEW next \in Qty, CorrectReceiptLine(b, next)
    PROVE  TypeOK'
<1> DEFINE delta == next - initial[b]
<1> DEFINE type == IF delta > 0 THEN "COUNT_ADJUSTMENT_IN" ELSE "COUNT_ADJUSTMENT_OUT"
<1>1. next \in Nat /\ delta \in Int /\ type \in MovementType /\ SizeOf(delta) \in Int
  BY BoundAssumption DEF Qty, TypeOK, MovementType, SizeOf
<1>2. remaining[b] + delta \in Nat
  BY <1>1 DEF CorrectReceiptLine, CoversIssued, TypeOK
<1>3. /\ initial' = [initial EXCEPT ![b] = next]
      /\ remaining' = [remaining EXCEPT ![b] = @ + delta]
      /\ status' = [status EXCEPT ![b] = IF remaining[b] + delta > 0
                                         THEN "ACTIVE" ELSE "DEPLETED"]
      /\ onHand' = [onHand EXCEPT ![ItemOf[b]] = @ + delta]
      /\ moved' = [moved EXCEPT ![b][type] = @ + SizeOf(delta)]
      /\ UNCHANGED <<receipt, active, reserved, papers>>
      /\ BalancesHold'
  BY DEF CorrectReceiptLine
<1> HIDE DEF delta, type
<1>4. onHand' \in [Item -> Int]
  <2>1. ItemOf[b] \in Item /\ onHand \in [Item -> Int]
    BY BatchAssumption DEF TypeOK
  <2>2. onHand[ItemOf[b]] + delta \in Int
    BY <1>1, <2>1
  <2> QED
    BY <1>3, <2>1, <2>2
<1>5. onHand' \in [Item -> Nat]
  BY <1>3, <1>4 DEF BalancesHold
<1>6. moved' \in [Batch -> [MovementType -> Int]]
  <2>1. moved[b] \in [MovementType -> Int]
    BY DEF TypeOK
  <2>2. [moved[b] EXCEPT ![type] = @ + SizeOf(delta)] \in [MovementType -> Int]
    BY <1>1, <2>1
  <2>3. moved' = [moved EXCEPT ![b] = [moved[b] EXCEPT ![type] = @ + SizeOf(delta)]]
    BY <1>3
  <2> QED
    BY <2>2, <2>3 DEF TypeOK
<1>7. remaining' \in [Batch -> Nat] /\ initial' \in [Batch -> Nat]
  BY <1>1, <1>2, <1>3 DEF TypeOK
<1>8. status' \in [Batch -> BatchStatus]
  BY <1>3 DEF TypeOK, BatchStatus
<1> QED
  BY <1>3, <1>5, <1>6, <1>7, <1>8 DEF TypeOK, papers

LEMMA ReleaseType ==
    ASSUME TypeOK, NEW L \in SUBSET Line, Release(L)
    PROVE  TypeOK'
<1>1. \A i \in Item : HeldOf(L, i) \in Nat
  BY HeldType DEF TypeOK
<1>2. reserved' \in [Item -> Int]
  BY <1>1 DEF TypeOK, Release
<1>3. reserved' \in [Item -> Nat]
  BY <1>2 DEF Release, BalancesHold
<1>4. active' \in [Line \X Batch -> Nat]
  BY DEF Release, TypeOK
<1> QED
  BY <1>3, <1>4 DEF TypeOK, Release, batches, papers

\* What a reservation is granted: nothing to other lines or other items, and
\* of a batch no more than is free.
LEMMA GrantedType ==
    ASSUME TypeOK, NEW L \in SUBSET Line, NEW want, \A l \in L : want[l] \in Nat
    PROVE  \A h \in Line \X Batch :
              /\ Granted(L, want)[h] \in Nat
              /\ Granted(L, want)[h] <= FreeWithout(L, Nothing)[h[2]]
              /\ Granted(L, want)[h] > 0 => h[1] \in L /\ LineItem[h[1]] = ItemOf[h[2]]
<1> SUFFICES ASSUME NEW h \in Line \X Batch
             PROVE  /\ Granted(L, want)[h] \in Nat
                    /\ Granted(L, want)[h] <= FreeWithout(L, Nothing)[h[2]]
                    /\ Granted(L, want)[h] > 0 => h[1] \in L /\ LineItem[h[1]] = ItemOf[h[2]]
  OBVIOUS
<1> DEFINE l == h[1]
<1> DEFINE b == h[2]
<1> DEFINE i == ItemOf[b]
<1> DEFINE free == FreeWithout(L, Nothing)
<1> DEFINE ask == Least(want[l], Available(L, LineItem[l]))
<1>1. l \in Line /\ b \in Batch /\ i \in Item /\ LineItem[l] \in Item
  BY BatchAssumption, LineAssumption
<1>2. \A k \in Batch : free[k] \in Nat
  BY FreeType DEF Nothing
<1>3. Granted(L, want)[h] =
        IF l \in L /\ LineItem[l] = i THEN Walk(free, ask, BatchesOf(i))[b] ELSE 0
  BY DEF Granted
<1>4. CASE l \in L /\ LineItem[l] = i
  <2>1. ask \in Int
    <3>1. HeldOf(L, i) \in Nat /\ reserved[i] \in Nat /\ onHand[i] \in Nat
      BY <1>1, HeldType DEF TypeOK
    <3>2. Available(L, i) \in Int
      BY <1>1, <3>1 DEF Available
    <3> QED
      BY <1>4, <3>2 DEF Least
  <2>2. b \in BatchesOf(i) /\ BatchesOf(i) \subseteq Nat /\ IsFiniteSet(BatchesOf(i))
    BY BatchAssumption, FiniteParts, <1>1 DEF BatchesOf
  <2>3. \A k \in BatchesOf(i) : free[k] \in Nat
    BY <1>1, <1>2, FiniteParts
  <2> HIDE DEF i, free, ask
  <2>4. /\ Walk(free, ask, BatchesOf(i))[b] \in Nat
        /\ Walk(free, ask, BatchesOf(i))[b] <= free[b]
    BY <2>1, <2>2, <2>3, WalkType
  <2> QED
    BY <1>3, <1>4, <2>4 DEF i, free
<1>5. CASE ~ (l \in L /\ LineItem[l] = i)
  <2>1. Granted(L, want)[h] = 0 /\ free[b] \in Nat
    BY <1>1, <1>2, <1>3, <1>5
  <2> QED
    BY <2>1
<1> QED
  BY <1>4, <1>5

LEMMA ReserveType ==
    ASSUME TypeOK, NEW L \in SUBSET Line, NEW want \in [L -> Qty], Reserve(L, want)
    PROVE  TypeOK'
<1> DEFINE granted == Granted(L, want)
<1>1. \A h \in Line \X Batch : granted[h] \in Nat
  <2>1. \A l \in L : want[l] \in Nat
    BY BoundAssumption DEF Qty
  <2> QED
    BY <2>1, GrantedType
<1>2. \A i \in Item : TotalOn(granted, L \X BatchesOf(i)) \in Nat
  <2> SUFFICES ASSUME NEW i \in Item
               PROVE  TotalOn(granted, L \X BatchesOf(i)) \in Nat
    OBVIOUS
  <2>1. IsFiniteSet(L \X BatchesOf(i)) /\ L \X BatchesOf(i) \subseteq Line \X Batch
    BY FiniteParts
  <2> HIDE DEF granted
  <2>2. \A k \in L \X BatchesOf(i) : granted[k] \in Nat
    BY <1>1, <2>1
  <2> QED
    BY <2>1, <2>2, TotalNat
<1>3. \A i \in Item : HeldOf(L, i) \in Nat
  BY HeldType DEF TypeOK
<1>4. /\ active' = [h \in Line \X Batch |-> IF h[1] \in L THEN granted[h] ELSE active[h]]
      /\ reserved' = [i \in Item |->
            reserved[i] - HeldOf(L, i) + TotalOn(granted, L \X BatchesOf(i))]
      /\ UNCHANGED <<batches, onHand, papers, moved>>
      /\ BalancesHold'
  BY DEF Reserve
<1> HIDE DEF granted
<1>5. reserved' \in [Item -> Nat]
  <2>1. reserved' \in [Item -> Int]
    <3>1. \A i \in Item : reserved[i] \in Int
      BY DEF TypeOK
    <3>2. \A i \in Item :
             reserved[i] - HeldOf(L, i) + TotalOn(granted, L \X BatchesOf(i)) \in Int
      BY <1>2, <1>3, <3>1
    <3> QED
      BY <1>4, <3>2
  <2> QED
    BY <1>4, <2>1 DEF BalancesHold
<1>6. active' \in [Line \X Batch -> Nat]
  BY <1>1, <1>4 DEF TypeOK
<1> QED
  BY <1>4, <1>5, <1>6 DEF TypeOK, batches, papers

LEMMA ReverseIssueType ==
    ASSUME TypeOK, NEW s \in Sale, ReverseIssue(s)
    PROVE  TypeOK'
<1>1. took[s] \in [Batch -> Nat] /\ s \in Doc
  BY DEF TypeOK, Doc
<1>2. remaining' \in [Batch -> Nat] /\ status' \in [Batch -> BatchStatus]
  BY <1>1, PutBackType DEF ReverseIssue
<1>3. \A i \in Item : TotalOn(took[s], BatchesOf(i)) \in Nat
  BY <1>1, ItemTotal
<1>4. moved' \in [Batch -> [MovementType -> Int]]
  <2> DEFINE neg == [b \in Batch |-> - took[s][b]]
  <2>1. \A b \in Batch : neg[b] \in Int
    BY <1>1
  <2>2. moved' = Moved("ISSUE_REVERSAL", neg)
    BY DEF ReverseIssue
  <2> HIDE DEF neg
  <2> QED
    BY <2>1, <2>2, MovedType DEF MovementType
<1>5. onHand' \in [Item -> Nat]
  BY <1>3 DEF TypeOK, ReverseIssue
<1> QED
  BY <1>1, <1>2, <1>4, <1>5 DEF TypeOK, ReverseIssue

LEMMA ReverseWriteOffType ==
    ASSUME TypeOK, NEW w \in WriteOff, ReverseWriteOff(w)
    PROVE  TypeOK'
<1>1. took[w] \in [Batch -> Nat] /\ w \in Doc
  BY DEF TypeOK, Doc
<1>2. remaining' \in [Batch -> Nat] /\ status' \in [Batch -> BatchStatus]
  BY <1>1, PutBackType DEF ReverseWriteOff
<1>3. \A i \in Item : TotalOn(took[w], BatchesOf(i)) \in Nat
  BY <1>1, ItemTotal
<1>4. moved' \in [Batch -> [MovementType -> Int]]
  <2> DEFINE neg == [b \in Batch |-> - took[w][b]]
  <2>1. \A b \in Batch : neg[b] \in Int
    BY <1>1
  <2>2. moved' = Moved("WRITE_OFF_REVERSAL", neg)
    BY DEF ReverseWriteOff
  <2> HIDE DEF neg
  <2> QED
    BY <2>1, <2>2, MovedType DEF MovementType
<1>5. onHand' \in [Item -> Nat]
  BY <1>3 DEF TypeOK, ReverseWriteOff
<1> QED
  BY <1>1, <1>2, <1>4, <1>5 DEF TypeOK, ReverseWriteOff

\* A write-off takes units that its batches have left.
LEMMA WriteOffTakes ==
    ASSUME TypeOK, NEW want \in Requested
    PROVE  /\ want \in [Item -> Nat]
           /\ FromFree({}, want, Nothing) \in [Batch -> Nat]
           /\ \A b \in Batch :
                 /\ FromFree({}, want, Nothing)[b] <= FreeWithout({}, Nothing)[b]
                 /\ FromFree({}, want, Nothing)[b] <= remaining[b]
<1> DEFINE given == FromFree({}, want, Nothing)
<1>1. want \in [Item -> Nat]
  BY BoundAssumption DEF Requested, Qty
<1>2. \A b \in Batch : given[b] \in Nat /\ given[b] <= FreeWithout({}, Nothing)[b]
  BY <1>1, FromFreeType DEF Nothing
<1>3. \A b \in Batch : given[b] <= remaining[b]
  <2> SUFFICES ASSUME NEW b \in Batch
               PROVE  given[b] <= remaining[b]
    OBVIOUS
  <2>1. /\ FreeWithout({}, Nothing)[b] \in Nat
        /\ FreeWithout({}, Nothing)[b] > 0 =>
              FreeWithout({}, Nothing)[b] + Nothing[b] + HeldOn(Line \ {}, b) = remaining[b]
    BY FreeType DEF Nothing
  <2>2. HeldOn(Line \ {}, b) \in Nat /\ remaining[b] \in Nat /\ Nothing[b] = 0
    BY HeldType DEF TypeOK, Nothing
  <2> HIDE DEF given
  <2> QED
    BY <1>2, <2>1, <2>2
<1>4. given \in [Batch -> Nat]
  BY <1>2 DEF FromFree
<1> QED
  BY <1>1, <1>2, <1>3, <1>4

LEMMA PostWriteOffType ==
    ASSUME TypeOK, NEW w \in WriteOff, NEW want \in Requested, PostWriteOff(w, want)
    PROVE  TypeOK'
<1> DEFINE given == FromFree({}, want, Nothing)
<1>1. w \in Doc
  BY DEF Doc
<1>2. /\ TakenOut(given)
      /\ onHand' = [i \in Item |-> onHand[i] - want[i]]
      /\ doc' = [doc EXCEPT ![w] = "POSTED"]
      /\ took' = [took EXCEPT ![w] = given]
      /\ moved' = Moved("WRITE_OFF", given)
      /\ UNCHANGED <<receipt, initial, active, reserved>>
      /\ BalancesHold'
  BY DEF PostWriteOff
<1>3. /\ want \in [Item -> Nat] /\ given \in [Batch -> Nat]
      /\ \A b \in Batch : given[b] <= remaining[b]
  BY WriteOffTakes
<1> HIDE DEF given
<1>4. remaining' \in [Batch -> Nat] /\ status' \in [Batch -> BatchStatus]
  BY <1>2, <1>3, TakenOutType
<1>5. moved' \in [Batch -> [MovementType -> Int]]
  BY <1>2, <1>3, MovedType DEF MovementType
<1>6. onHand' \in [Item -> Nat]
  <2>1. onHand' \in [Item -> Int]
    BY <1>2, <1>3 DEF TypeOK
  <2> QED
    BY <1>2, <2>1 DEF BalancesHold
<1> QED
  BY <1>1, <1>2, <1>3, <1>4, <1>5, <1>6 DEF TypeOK

\* What an issue takes: units of what its own lines hold, and free ones.
IssueTakes(d, L, want, consumed, given) ==
    /\ given = [b \in Batch |-> consumed[b] + FromFree(L, want, consumed)[b]]
    /\ \A i \in Item : TotalOn(given, BatchesOf(i)) = want[i]
    /\ \A b \in Batch : given[b] <= remaining[b]
    /\ TakenOut(given)
    /\ active' = [h \in Line \X Batch |-> IF Cleared(L, want, h) THEN 0 ELSE active[h]]
    /\ onHand' = [i \in Item |-> onHand[i] - want[i]]
    /\ reserved' = [i \in Item |-> reserved[i] - Freed(L, want, i)]
    /\ doc' = [doc EXCEPT ![d] = "POSTED"]
    /\ took' = [took EXCEPT ![d] = given]
    /\ moved' = Moved("ISSUE", given)
    /\ UNCHANGED <<receipt, initial>>
    /\ BalancesHold'

LEMMA IssueFacts ==
    ASSUME TypeOK, NEW d \in Doc, NEW L \in SUBSET Line, NEW want \in Requested,
           Issue(d, L, want)
    PROVE  /\ want \in [Item -> Nat]
           /\ \E consumed \in Consumptions(L, want) :
                 /\ consumed \in [Batch -> Nat]
                 /\ \A b \in Batch :
                       /\ FromFree(L, want, consumed)[b] \in Nat
                       /\ FromFree(L, want, consumed)[b] <= FreeWithout(L, consumed)[b]
                 /\ \E given \in [Batch -> Nat] : IssueTakes(d, L, want, consumed, given)
<1>1. want \in [Item -> Nat]
  BY BoundAssumption DEF Requested, Qty
<1>2. PICK consumed \in Consumptions(L, want) :
        IssueTakes(d, L, want, consumed,
                   [b \in Batch |-> consumed[b] + FromFree(L, want, consumed)[b]])
  BY Zenon DEF Issue, IssueTakes
<1> DEFINE given == [b \in Batch |-> consumed[b] + FromFree(L, want, consumed)[b]]
<1>3. consumed \in [Batch -> Nat]
  BY BoundAssumption DEF Consumptions
<1>4. \A b \in Batch : /\ FromFree(L, want, consumed)[b] \in Nat
                       /\ FromFree(L, want, consumed)[b] <= FreeWithout(L, consumed)[b]
  BY <1>1, <1>3, FromFreeType
<1>5. given \in [Batch -> Nat] /\ IssueTakes(d, L, want, consumed, given)
  BY <1>2, <1>3, <1>4
<1> HIDE DEF given
<1>6. \E g \in [Batch -> Nat] : IssueTakes(d, L, want, consumed, g)
  BY <1>5
<1> QED
  BY <1>1, <1>3, <1>4, <1>6

LEMMA IssueType ==
    ASSUME TypeOK, NEW d \in Doc, NEW L \in SUBSET Line, NEW want \in Requested,
           Issue(d, L, want)
    PROVE  TypeOK'
<1>1. want \in [Item -> Nat]
  BY IssueFacts
<1>2. PICK consumed \in Consumptions(L, want) :
        \E given \in [Batch -> Nat] : IssueTakes(d, L, want, consumed, given)
  BY IssueFacts
<1>3. PICK given \in [Batch -> Nat] : IssueTakes(d, L, want, consumed, given)
  BY <1>2
<1>4. remaining' \in [Batch -> Nat] /\ status' \in [Batch -> BatchStatus]
  BY <1>3, TakenOutType DEF IssueTakes
<1>5. moved' \in [Batch -> [MovementType -> Int]]
  BY <1>3, MovedType DEF MovementType, IssueTakes
<1>6. onHand' \in [Item -> Nat] /\ reserved' \in [Item -> Nat]
  <2>1. \A i \in Item : Freed(L, want, i) \in Nat
    BY HeldType DEF TypeOK, Freed
  <2>2. onHand' \in [Item -> Int] /\ reserved' \in [Item -> Int]
    BY <1>1, <1>3, <2>1 DEF TypeOK, IssueTakes
  <2> QED
    BY <1>3, <2>2 DEF BalancesHold, IssueTakes
<1>7. active' \in [Line \X Batch -> Nat]
  BY <1>3 DEF TypeOK, IssueTakes
<1>8. /\ receipt' = receipt /\ initial' = initial
      /\ doc' = [doc EXCEPT ![d] = "POSTED"]
      /\ took' = [took EXCEPT ![d] = given]
  BY <1>3 DEF IssueTakes
<1> QED
  BY <1>4, <1>5, <1>6, <1>7, <1>8 DEF TypeOK

(***************************************************************************)
(* Type correctness: no sequence of operations takes a row out of what the *)
(* columns and CHECK constraints of the schema allow.                      *)
(***************************************************************************)
THEOREM TypeCorrect == Spec => []TypeOK
<1>1. Init => TypeOK
  BY DEF Init, TypeOK, Nothing, BatchStatus
<1>2. TypeOK /\ [Next]_vars => TypeOK'
  <2> SUFFICES ASSUME TypeOK, [Next]_vars
               PROVE  TypeOK'
    OBVIOUS
  <2>0. Composition \subseteq SUBSET Line /\ {} \in SUBSET Line
    BY LineAssumption
  <2>1. ASSUME NEW r \in Receipt, NEW accepted \in [LinesOf(r) -> Qty],
               PostReceipt(r, accepted)
        PROVE  TypeOK'
    BY <2>1, PostReceiptType
  <2>2. ASSUME NEW r \in Revisable, ReverseReceipt(r)
        PROVE  TypeOK'
    BY <2>2, DocAssumption, ReverseReceiptType
  <2>3. ASSUME NEW b \in Batch, NEW next \in Qty, CorrectReceiptLine(b, next)
        PROVE  TypeOK'
    BY <2>3, CorrectReceiptLineType
  <2>4. ASSUME NEW L \in Composition, Release(L)
        PROVE  TypeOK'
    BY <2>0, <2>4, ReleaseType
  <2>5. ASSUME NEW L \in Composition, NEW want \in [L -> Qty], Reserve(L, want)
        PROVE  TypeOK'
    BY <2>0, <2>5, ReserveType
  <2>6. ASSUME NEW d \in Sale \cup Order, NEW L \in Composition \cup {{}},
               NEW want \in Requested, Issue(d, L, want)
        PROVE  TypeOK'
    BY <2>0, <2>6, IssueType DEF Doc
  <2>7. ASSUME NEW s \in Sale, ReverseIssue(s)
        PROVE  TypeOK'
    BY <2>7, ReverseIssueType
  <2>8. ASSUME NEW w \in WriteOff, NEW want \in Requested, PostWriteOff(w, want)
        PROVE  TypeOK'
    BY <2>8, PostWriteOffType
  <2>9. ASSUME NEW w \in WriteOff, ReverseWriteOff(w)
        PROVE  TypeOK'
    BY <2>9, ReverseWriteOffType
  <2>10. CASE UNCHANGED vars
    BY <2>10 DEF TypeOK, vars, batches, balances, papers
  <2> QED
    BY <2>1, <2>2, <2>3, <2>4, <2>5, <2>6, <2>7, <2>8, <2>9, <2>10 DEF Next
<1> QED
  BY <1>1, <1>2, PTL DEF Spec

-----------------------------------------------------------------------------
(***************************************************************************)
(* The invariant that carries the rest.  A batch whose receipt was never   *)
(* posted is untouched, so posting it starts from nothing; with that, each *)
(* conjunct is kept by every operation's own delta.                        *)
(***************************************************************************)
FreshBatches ==
    \A b \in Batch :
        /\ receipt[ReceiptOf[b]] = "DRAFT" => status[b] = "NONE"
        /\ status[b] = "NONE" =>
              initial[b] = 0 /\ remaining[b] = 0 /\ \A d \in Doc : took[d][b] = 0

Books ==
    /\ FreshBatches
    /\ OnHandIsBatches
    /\ ReservedIsReservations
    /\ LedgerExplainsRemaining

\* The ledger's balance of one batch.
Stored(m) ==
    m["RECEIPT"] + m["RECEIPT_REVERSAL"]
    + m["COUNT_ADJUSTMENT_IN"] - m["COUNT_ADJUSTMENT_OUT"]
    - (m["ISSUE"] + m["ISSUE_REVERSAL"])
    - (m["WRITE_OFF"] + m["WRITE_OFF_REVERSAL"])

\* A movement changes the ledger's balance by its quantity, in the direction
\* of its type.
LEMMA StoredAfter ==
    ASSUME NEW m \in [MovementType -> Int], NEW type \in MovementType, NEW q \in Int
    PROVE  Stored([m EXCEPT ![type] = @ + q]) =
             IF type \in {"RECEIPT", "RECEIPT_REVERSAL", "COUNT_ADJUSTMENT_IN"}
             THEN Stored(m) + q ELSE Stored(m) - q
BY DEF Stored, MovementType

LEMMA LedgerAfter ==
    ASSUME TypeOK, TypeOK', LedgerExplainsRemaining,
           NEW type \in MovementType, NEW qty, \A b \in Batch : qty[b] \in Int,
           moved' = Moved(type, qty),
           \A b \in Batch : remaining'[b] =
             IF type \in {"RECEIPT", "RECEIPT_REVERSAL", "COUNT_ADJUSTMENT_IN"}
             THEN remaining[b] + qty[b] ELSE remaining[b] - qty[b]
    PROVE  LedgerExplainsRemaining'
<1> SUFFICES ASSUME NEW b \in Batch
             PROVE  remaining'[b] = Stored(moved'[b])
  BY DEF LedgerExplainsRemaining, Stored
<1>1. remaining[b] = Stored(moved[b])
  BY DEF LedgerExplainsRemaining, Stored
<1>2. moved[b] \in [MovementType -> Int] /\ qty[b] \in Int /\ remaining[b] \in Int
  BY DEF TypeOK
<1>3. moved'[b] = [moved[b] EXCEPT ![type] = @ + qty[b]]
  BY DEF Moved
<1>4. Stored([moved[b] EXCEPT ![type] = @ + qty[b]]) =
        IF type \in {"RECEIPT", "RECEIPT_REVERSAL", "COUNT_ADJUSTMENT_IN"}
        THEN Stored(moved[b]) + qty[b] ELSE Stored(moved[b]) - qty[b]
  BY <1>2, StoredAfter
<1> QED
  BY <1>1, <1>3, <1>4

\* The stock of an item after units have left its batches or come to them.
LEMMA StockLess ==
    ASSUME TypeOK, TypeOK', NEW qty, \A b \in Batch : qty[b] \in Nat,
           \A b \in Batch : remaining'[b] = remaining[b] - qty[b]
    PROVE  \A i \in Item : TotalOn(remaining', BatchesOf(i))
                             = TotalOn(remaining, BatchesOf(i)) - TotalOn(qty, BatchesOf(i))
<1> SUFFICES ASSUME NEW i \in Item
             PROVE  TotalOn(remaining', BatchesOf(i))
                      = TotalOn(remaining, BatchesOf(i)) - TotalOn(qty, BatchesOf(i))
  OBVIOUS
<1>1. IsFiniteSet(BatchesOf(i)) /\ BatchesOf(i) \subseteq Batch
  BY FiniteParts
<1>2. \A b \in BatchesOf(i) : /\ remaining[b] \in Nat /\ qty[b] \in Nat /\ remaining'[b] \in Nat
                              /\ remaining'[b] = remaining[b] - qty[b]
  BY <1>1 DEF TypeOK
<1> QED
  BY <1>1, <1>2, TotalMinus

LEMMA StockMore ==
    ASSUME TypeOK, NEW qty, \A b \in Batch : qty[b] \in Nat,
           \A b \in Batch : remaining'[b] = remaining[b] + qty[b]
    PROVE  \A i \in Item : TotalOn(remaining', BatchesOf(i))
                             = TotalOn(remaining, BatchesOf(i)) + TotalOn(qty, BatchesOf(i))
<1> SUFFICES ASSUME NEW i \in Item
             PROVE  TotalOn(remaining', BatchesOf(i))
                      = TotalOn(remaining, BatchesOf(i)) + TotalOn(qty, BatchesOf(i))
  OBVIOUS
<1>1. IsFiniteSet(BatchesOf(i)) /\ BatchesOf(i) \subseteq Batch
  BY FiniteParts
<1>2. \A b \in BatchesOf(i) : /\ remaining[b] \in Nat /\ qty[b] \in Nat
                              /\ remaining'[b] = remaining[b] + qty[b]
  BY <1>1 DEF TypeOK
<1> QED
  BY <1>1, <1>2, TotalPlus

\* What all lines hold of an item is what the lines of L hold and what the
\* others hold; only the former changes when the others' reservations do not.
LEMMA HeldSplit ==
    ASSUME NEW f \in [Line \X Batch -> Nat], NEW L \in SUBSET Line,
           NEW B \in SUBSET Batch, IsFiniteSet(B)
    PROVE  TotalOn(f, Line \X B) = TotalOn(f, L \X B) + TotalOn(f, (Line \ L) \X B)
<1>1. IsFiniteSet(L) /\ IsFiniteSet(Line \ L)
  BY FiniteParts
<1>2. IsFiniteSet(L \X B) /\ IsFiniteSet((Line \ L) \X B)
  BY <1>1, FS_Product
<1>3. (L \X B) \cap ((Line \ L) \X B) = {}
  OBVIOUS
<1>4. Line \X B = (L \X B) \cup ((Line \ L) \X B)
  OBVIOUS
<1>5. TotalOn(f, (L \X B) \cup ((Line \ L) \X B))
        = TotalOn(f, L \X B) + TotalOn(f, (Line \ L) \X B)
  <2>1. \A h \in (L \X B) \cup ((Line \ L) \X B) : f[h] \in Nat
    OBVIOUS
  <2> QED
    BY <1>2, <1>3, <2>1, TotalSplit
<1>6. TotalOn(f, Line \X B) = TotalOn(f, (L \X B) \cup ((Line \ L) \X B))
  BY <1>4, Zenon
<1> QED
  BY <1>5, <1>6

LEMMA ReservedAfter ==
    ASSUME TypeOK, TypeOK', ReservedIsReservations, NEW L \in SUBSET Line, NEW i \in Item,
           \A h \in (Line \ L) \X BatchesOf(i) : active'[h] = active[h],
           reserved'[i] = reserved[i] - HeldOf(L, i) + TotalOn(active', L \X BatchesOf(i))
    PROVE  reserved'[i] = HeldOf(Line, i)'
<1> DEFINE B == BatchesOf(i)
<1>1. IsFiniteSet(B) /\ B \subseteq Batch
  BY FiniteParts
<1>2. \A h \in Line \X Batch : active[h] \in Nat /\ active'[h] \in Nat
  BY DEF TypeOK
<1>3. HeldOf(Line, i)' = TotalOn(active', Line \X B)
  BY DEF HeldOf, BatchesOf
<1>4. HeldOf(Line, i) = TotalOn(active, Line \X B) /\ HeldOf(L, i) = TotalOn(active, L \X B)
  BY DEF HeldOf
<1>5. TotalOn(active, (Line \ L) \X B) = TotalOn(active', (Line \ L) \X B)
  <2>1. \A h \in (Line \ L) \X B : active[h] = active'[h]
    OBVIOUS
  <2> HIDE DEF B
  <2> QED
    BY <2>1, TotalSame
<1>6. reserved[i] = HeldOf(Line, i)
  BY DEF ReservedIsReservations
<1> HIDE DEF B
<1>7. TotalOn(active, Line \X B) = TotalOn(active, L \X B) + TotalOn(active, (Line \ L) \X B)
  <2>1. active \in [Line \X Batch -> Nat] /\ B \in SUBSET Batch
    BY <1>1 DEF TypeOK
  <2> QED
    BY <1>1, <2>1, HeldSplit
<1>8. TotalOn(active', Line \X B) = TotalOn(active', L \X B) + TotalOn(active', (Line \ L) \X B)
  <2>1. active' \in [Line \X Batch -> Nat] /\ B \in SUBSET Batch
    BY <1>1 DEF TypeOK
  <2> QED
    BY <1>1, <2>1, HeldSplit
<1>9. /\ TotalOn(active, L \X B) \in Nat
      /\ TotalOn(active', L \X B) \in Nat
      /\ TotalOn(active, (Line \ L) \X B) \in Nat
  <2>1. IsFiniteSet(L \X B) /\ IsFiniteSet((Line \ L) \X B)
    BY <1>1, FiniteParts, FS_Product
  <2>2. \A h \in L \X B : active[h] \in Nat /\ active'[h] \in Nat
    BY <1>1, <1>2
  <2>3. \A h \in (Line \ L) \X B : active[h] \in Nat
    BY <1>1, <1>2
  <2> QED
    BY <2>1, <2>2, <2>3, TotalNat
<1> QED
  BY <1>3, <1>4, <1>5, <1>6, <1>7, <1>8, <1>9 DEF B

\* Reservations that do not change keep the reserved quantities right.
LEMMA ReservedUnchanged ==
    ASSUME ReservedIsReservations, UNCHANGED <<active, reserved>>
    PROVE  ReservedIsReservations'
BY DEF ReservedIsReservations, HeldOf, BatchesOf

(***************************************************************************)
(* Each operation keeps the books.                                         *)
(***************************************************************************)
LEMMA PostReceiptBooks ==
    ASSUME TypeOK, TypeOK', Books, NEW r \in Receipt, NEW accepted \in [LinesOf(r) -> Qty],
           PostReceipt(r, accepted)
    PROVE  Books'
<1> DEFINE in == [b \in Batch |-> IF b \in LinesOf(r) THEN accepted[b] ELSE 0]
<1>1. \A b \in Batch : in[b] \in Nat /\ (in[b] > 0 => ReceiptOf[b] = r)
  BY BoundAssumption DEF Qty, LinesOf
<1>2. /\ receipt[r] = "DRAFT"
      /\ receipt' = [receipt EXCEPT ![r] = "POSTED"]
      /\ status' = [b \in Batch |-> IF in[b] > 0 THEN "ACTIVE" ELSE status[b]]
      /\ initial' = [b \in Batch |-> IF in[b] > 0 THEN in[b] ELSE initial[b]]
      /\ remaining' = [b \in Batch |-> IF in[b] > 0 THEN in[b] ELSE remaining[b]]
      /\ onHand' = [i \in Item |-> onHand[i] + TotalOn(in, BatchesOf(i))]
      /\ moved' = Moved("RECEIPT", in)
      /\ UNCHANGED <<active, reserved, papers>>
  BY DEF PostReceipt
<1> HIDE DEF in
<1>3. \A b \in Batch : remaining'[b] = remaining[b] + in[b]
  <2> SUFFICES ASSUME NEW b \in Batch
               PROVE  remaining'[b] = remaining[b] + in[b]
    OBVIOUS
  <2>1. in[b] > 0 => remaining[b] = 0
    BY <1>1, <1>2 DEF Books, FreshBatches
  <2>2. remaining[b] \in Nat /\ in[b] \in Nat
    BY <1>1 DEF TypeOK
  <2> QED
    BY <1>2, <2>1, <2>2
<1>4. FreshBatches'
  BY <1>1, <1>2, BatchAssumption DEF Books, FreshBatches, TypeOK, papers
<1>5. OnHandIsBatches'
  BY <1>1, <1>2, <1>3, StockMore DEF Books, OnHandIsBatches, BatchesOf
<1>6. LedgerExplainsRemaining'
  BY <1>1, <1>2, <1>3, LedgerAfter DEF Books, MovementType
<1> QED
  BY <1>2, <1>4, <1>5, <1>6, ReservedUnchanged DEF Books

LEMMA ReverseReceiptBooks ==
    ASSUME TypeOK, TypeOK', Books, NEW r \in Receipt, ReverseReceipt(r)
    PROVE  Books'
<1> DEFINE made == {b \in LinesOf(r) : status[b] # "NONE"}
<1> DEFINE out == [b \in Batch |-> IF b \in made THEN initial[b] ELSE 0]
<1> DEFINE neg == [b \in Batch |-> - out[b]]
<1>1. \A b \in Batch : out[b] \in Nat /\ neg[b] \in Int /\ neg[b] = - out[b]
  BY DEF TypeOK
<1>2. /\ receipt[r] = "POSTED"
      /\ \A b \in made : remaining[b] = initial[b]
      /\ receipt' = [receipt EXCEPT ![r] = "REVERSED"]
      /\ status' = [b \in Batch |-> IF b \in made THEN "REVERSED" ELSE status[b]]
      /\ remaining' = [b \in Batch |-> IF b \in made THEN 0 ELSE remaining[b]]
      /\ onHand' = [i \in Item |-> onHand[i] - TotalOn(out, BatchesOf(i))]
      /\ moved' = Moved("RECEIPT_REVERSAL", neg)
      /\ UNCHANGED <<initial, active, reserved, papers>>
  BY DEF ReverseReceipt, Unused
<1>3. \A b \in Batch : remaining'[b] = remaining[b] - out[b]
  BY <1>2 DEF TypeOK
<1>4. FreshBatches'
  BY <1>2, BatchAssumption DEF Books, FreshBatches, TypeOK, papers
<1> HIDE DEF out, neg, made
<1>5. OnHandIsBatches'
  <2>1. \A i \in Item : TotalOn(remaining', BatchesOf(i))
                           = TotalOn(remaining, BatchesOf(i)) - TotalOn(out, BatchesOf(i))
    BY <1>1, <1>3, StockLess
  <2> QED
    BY <1>2, <2>1 DEF Books, OnHandIsBatches, BatchesOf
<1>6. LedgerExplainsRemaining'
  <2>1. \A b \in Batch : remaining'[b] = remaining[b] + neg[b]
    BY <1>1, <1>3 DEF TypeOK
  <2> QED
    BY <1>1, <1>2, <2>1, LedgerAfter DEF Books, MovementType
<1> QED
  BY <1>2, <1>4, <1>5, <1>6, ReservedUnchanged DEF Books

LEMMA CorrectReceiptLineBooks ==
    ASSUME TypeOK, TypeOK', Books, NEW b \in Batch, NEW next \in Qty,
           CorrectReceiptLine(b, next)
    PROVE  Books'
<1> DEFINE delta == next - initial[b]
<1> DEFINE type == IF delta > 0 THEN "COUNT_ADJUSTMENT_IN" ELSE "COUNT_ADJUSTMENT_OUT"
<1> DEFINE size == [c \in Batch |-> IF c = b THEN SizeOf(delta) ELSE 0]
<1> DEFINE i == ItemOf[b]
<1>1. /\ delta \in Int /\ SizeOf(delta) \in Int /\ type \in MovementType
      /\ i \in Item /\ b \in BatchesOf(i)
      /\ SizeOf(delta) = IF type = "COUNT_ADJUSTMENT_IN" THEN delta ELSE -delta
  BY BoundAssumption, BatchAssumption
     DEF Qty, TypeOK, MovementType, SizeOf, BatchesOf
<1>2. /\ status[b] # "NONE"
      /\ initial' = [initial EXCEPT ![b] = next]
      /\ remaining' = [remaining EXCEPT ![b] = @ + delta]
      /\ status' = [status EXCEPT ![b] = IF remaining[b] + delta > 0
                                         THEN "ACTIVE" ELSE "DEPLETED"]
      /\ onHand' = [onHand EXCEPT ![i] = @ + delta]
      /\ moved' = [moved EXCEPT ![b][type] = @ + SizeOf(delta)]
      /\ UNCHANGED <<receipt, active, reserved, papers>>
  BY DEF CorrectReceiptLine
<1> HIDE DEF delta, type, i
<1>3. /\ remaining'[b] = remaining[b] + delta
      /\ \A c \in Batch : c # b => remaining'[c] = remaining[c]
  BY <1>2 DEF TypeOK
<1>4. FreshBatches'
  BY <1>2, BatchAssumption DEF Books, FreshBatches, TypeOK, papers
<1>5. OnHandIsBatches'
  <2> SUFFICES ASSUME NEW j \in Item
               PROVE  onHand'[j] = TotalOn(remaining', BatchesOf(j))
    BY DEF OnHandIsBatches, BatchesOf
  <2>1. onHand[j] = TotalOn(remaining, BatchesOf(j))
    BY DEF Books, OnHandIsBatches
  <2>2. CASE j = i
    <3>1. IsFiniteSet(BatchesOf(j)) /\ BatchesOf(j) \subseteq Batch /\ b \in BatchesOf(j)
      BY <1>1, <2>2, FiniteParts
    <3>2. \A k \in BatchesOf(j) : remaining[k] \in Nat /\ remaining'[k] \in Nat
      BY <3>1 DEF TypeOK
    <3>3. \A k \in BatchesOf(j) : k # b => remaining'[k] = remaining[k]
      BY <1>3, <3>1
    <3>4. TotalOn(remaining', BatchesOf(j))
            = TotalOn(remaining, BatchesOf(j)) - remaining[b] + remaining'[b]
      BY <3>1, <3>2, <3>3, TotalExcept
    <3>5. onHand'[j] = onHand[j] + delta
      BY <1>1, <1>2, <2>2 DEF TypeOK
    <3>6. onHand[j] \in Nat /\ remaining[b] \in Nat
      BY DEF TypeOK
    <3> QED
      BY <1>1, <1>3, <2>1, <3>4, <3>5, <3>6
  <2>3. CASE j # i
    <3>1. \A k \in BatchesOf(j) : remaining'[k] = remaining[k]
      BY <1>3, <2>3 DEF BatchesOf, i
    <3>2. TotalOn(remaining', BatchesOf(j)) = TotalOn(remaining, BatchesOf(j))
      BY <3>1, TotalSame
    <3> QED
      BY <1>2, <2>1, <2>3, <3>2 DEF TypeOK
  <2> QED
    BY <2>2, <2>3
<1>6. LedgerExplainsRemaining'
  <2>1. moved' = Moved(type, size)
    <3>1. \A c \in Batch : moved[c] \in [MovementType -> Int]
      BY DEF TypeOK
    <3>2. moved \in [Batch -> [MovementType -> Int]]
      BY DEF TypeOK
    <3>3. moved' \in [Batch -> [MovementType -> Int]]
      BY DEF TypeOK
    <3>4. ASSUME NEW c \in Batch
          PROVE  moved'[c] = [moved[c] EXCEPT ![type] = @ + size[c]]
      <4>1. CASE c = b
        BY <1>2, <3>2, <4>1
      <4>2. CASE c # b
        <5>1. moved'[c] = moved[c] /\ size[c] = 0
          BY <1>2, <3>2, <4>2
        <5>2. [moved[c] EXCEPT ![type] = @ + 0] = moved[c]
          BY <1>1, <3>1
        <5> QED
          BY <5>1, <5>2
      <4> QED
        BY <4>1, <4>2
    <3> QED
      BY <3>3, <3>4 DEF Moved
  <2>2. \A c \in Batch : size[c] \in Int
    BY <1>1
  <2>3. \A c \in Batch : remaining'[c] =
          IF type \in {"RECEIPT", "RECEIPT_REVERSAL", "COUNT_ADJUSTMENT_IN"}
          THEN remaining[c] + size[c] ELSE remaining[c] - size[c]
    <3> SUFFICES ASSUME NEW c \in Batch
                 PROVE  remaining'[c] =
                   IF type \in {"RECEIPT", "RECEIPT_REVERSAL", "COUNT_ADJUSTMENT_IN"}
                   THEN remaining[c] + size[c] ELSE remaining[c] - size[c]
      OBVIOUS
    <3>1. type \in {"COUNT_ADJUSTMENT_IN", "COUNT_ADJUSTMENT_OUT"}
      BY DEF type
    <3>2. remaining[c] \in Int
      BY DEF TypeOK
    <3> QED
      BY <1>1, <1>3, <3>1, <3>2
  <2> HIDE DEF size
  <2> QED
    BY <1>1, <2>1, <2>2, <2>3, LedgerAfter DEF Books
<1> QED
  BY <1>2, <1>4, <1>5, <1>6, ReservedUnchanged DEF Books

LEMMA StockUnchanged ==
    ASSUME Books, UNCHANGED <<batches, onHand, took, moved>>
    PROVE  FreshBatches' /\ OnHandIsBatches' /\ LedgerExplainsRemaining'
BY DEF Books, FreshBatches, OnHandIsBatches, LedgerExplainsRemaining, batches, BatchesOf

LEMMA ReleaseBooks ==
    ASSUME TypeOK, TypeOK', Books, NEW L \in SUBSET Line, Release(L)
    PROVE  Books'
<1>1. FreshBatches' /\ OnHandIsBatches' /\ LedgerExplainsRemaining'
  BY StockUnchanged DEF Release, papers
<1>2. ReservedIsReservations'
  <2> SUFFICES ASSUME NEW i \in Item
               PROVE  reserved'[i] = HeldOf(Line, i)'
    BY DEF ReservedIsReservations
  <2>1. /\ active' = [h \in Line \X Batch |-> IF h[1] \in L THEN 0 ELSE active[h]]
        /\ reserved'[i] = reserved[i] - HeldOf(L, i)
    BY DEF Release
  <2>2. \A h \in (Line \ L) \X BatchesOf(i) : active'[h] = active[h]
    BY <2>1 DEF BatchesOf
  <2>3. TotalOn(active', L \X BatchesOf(i)) = 0
    <3>1. \A h \in L \X BatchesOf(i) : active'[h] = 0
      BY <2>1 DEF BatchesOf
    <3> QED
      BY <3>1, TotalZero
  <2>4. HeldOf(L, i) \in Nat /\ reserved[i] \in Nat
    BY HeldType DEF TypeOK
  <2>5. reserved'[i] = reserved[i] - HeldOf(L, i) + TotalOn(active', L \X BatchesOf(i))
    BY <2>1, <2>3, <2>4
  <2> QED
    BY <2>2, <2>5, ReservedAfter DEF Books
<1> QED
  BY <1>1, <1>2 DEF Books

LEMMA ReserveBooks ==
    ASSUME TypeOK, TypeOK', Books, NEW L \in SUBSET Line, NEW want \in [L -> Qty],
           Reserve(L, want)
    PROVE  Books'
<1> DEFINE granted == Granted(L, want)
<1>1. FreshBatches' /\ OnHandIsBatches' /\ LedgerExplainsRemaining'
  BY StockUnchanged DEF Reserve, papers
<1>2. ReservedIsReservations'
  <2> SUFFICES ASSUME NEW i \in Item
               PROVE  reserved'[i] = HeldOf(Line, i)'
    BY DEF ReservedIsReservations
  <2>1. /\ active' = [h \in Line \X Batch |-> IF h[1] \in L THEN granted[h] ELSE active[h]]
        /\ reserved'[i] = reserved[i] - HeldOf(L, i) + TotalOn(granted, L \X BatchesOf(i))
    BY DEF Reserve
  <2> HIDE DEF granted
  <2>2. \A h \in (Line \ L) \X BatchesOf(i) : active'[h] = active[h]
    BY <2>1 DEF BatchesOf
  <2>3. TotalOn(active', L \X BatchesOf(i)) = TotalOn(granted, L \X BatchesOf(i))
    <3>1. \A h \in L \X BatchesOf(i) : active'[h] = granted[h]
      BY <2>1 DEF BatchesOf
    <3> QED
      BY <3>1, TotalSame
  <2>4. reserved'[i] = reserved[i] - HeldOf(L, i) + TotalOn(active', L \X BatchesOf(i))
    BY <2>1, <2>3
  <2> QED
    BY <2>2, <2>4, ReservedAfter DEF Books
<1> QED
  BY <1>1, <1>2 DEF Books

\* Batch rows and movements after qty units left them for document d.
LEMMA TakenOutBooks ==
    ASSUME TypeOK, TypeOK', Books, NEW qty \in [Batch -> Nat], NEW want \in [Item -> Nat],
           NEW d \in Doc, NEW type \in {"ISSUE", "WRITE_OFF"},
           \A b \in Batch : qty[b] <= remaining[b],
           \A i \in Item : TotalOn(qty, BatchesOf(i)) = want[i],
           TakenOut(qty),
           onHand' = [i \in Item |-> onHand[i] - want[i]],
           took' = [took EXCEPT ![d] = qty],
           moved' = Moved(type, qty),
           UNCHANGED <<receipt, initial>>
    PROVE  FreshBatches' /\ OnHandIsBatches' /\ LedgerExplainsRemaining'
<1>1. \A b \in Batch : remaining'[b] = remaining[b] - qty[b]
  BY DEF TakenOut
<1>2. FreshBatches'
  <2> SUFFICES ASSUME NEW b \in Batch
               PROVE  /\ receipt'[ReceiptOf[b]] = "DRAFT" => status'[b] = "NONE"
                      /\ status'[b] = "NONE" => /\ initial'[b] = 0
                                                /\ remaining'[b] = 0
                                                /\ \A c \in Doc : took'[c][b] = 0
    BY DEF FreshBatches
  <2>1. status[b] = "NONE" => /\ initial[b] = 0
                              /\ remaining[b] = 0
                              /\ \A c \in Doc : took[c][b] = 0
    BY DEF Books, FreshBatches
  <2>2. receipt[ReceiptOf[b]] = "DRAFT" => status[b] = "NONE"
    BY DEF Books, FreshBatches
  <2>3. qty[b] \in Nat /\ remaining[b] \in Nat /\ qty[b] <= remaining[b]
    BY DEF TypeOK
  <2>4. status[b] = "NONE" => status'[b] = "NONE" /\ qty[b] = 0
    BY <2>1, <2>3 DEF TakenOut
  <2>5. status'[b] = "NONE" => status[b] = "NONE"
    BY DEF TakenOut
  <2>6. \A c \in Doc : took'[c][b] = IF c = d THEN qty[b] ELSE took[c][b]
    BY DEF TypeOK
  <2> QED
    BY <1>1, <2>1, <2>2, <2>3, <2>4, <2>5, <2>6
<1>3. OnHandIsBatches'
  <2>1. \A i \in Item : TotalOn(remaining', BatchesOf(i))
                           = TotalOn(remaining, BatchesOf(i)) - TotalOn(qty, BatchesOf(i))
    BY <1>1, StockLess
  <2> QED
    BY <2>1 DEF Books, OnHandIsBatches, BatchesOf
<1>4. LedgerExplainsRemaining'
  <2>1. type \in MovementType /\ \A b \in Batch : qty[b] \in Int
    BY DEF MovementType
  <2>2. \A b \in Batch : remaining'[b] =
          IF type \in {"RECEIPT", "RECEIPT_REVERSAL", "COUNT_ADJUSTMENT_IN"}
          THEN remaining[b] + qty[b] ELSE remaining[b] - qty[b]
    BY <1>1
  <2> QED
    BY <2>1, <2>2, LedgerAfter DEF Books
<1> QED
  BY <1>2, <1>3, <1>4

\* Batch rows and movements after what document d took has come back.
LEMMA PutBackBooks ==
    ASSUME TypeOK, TypeOK', Books, NEW d \in Doc,
           NEW type \in {"ISSUE_REVERSAL", "WRITE_OFF_REVERSAL"},
           PutBack(took[d]),
           onHand' = [i \in Item |-> onHand[i] + TotalOn(took[d], BatchesOf(i))],
           moved' = Moved(type, [b \in Batch |-> - took[d][b]]),
           UNCHANGED <<receipt, initial, took>>
    PROVE  FreshBatches' /\ OnHandIsBatches' /\ LedgerExplainsRemaining'
<1> DEFINE neg == [b \in Batch |-> - took[d][b]]
<1>0. took[d] \in [Batch -> Nat]
  BY DEF TypeOK
<1>1. \A b \in Batch : remaining'[b] = remaining[b] + took[d][b]
  BY DEF PutBack
<1>2. FreshBatches'
  <2> SUFFICES ASSUME NEW b \in Batch
               PROVE  /\ receipt'[ReceiptOf[b]] = "DRAFT" => status'[b] = "NONE"
                      /\ status'[b] = "NONE" => /\ initial'[b] = 0
                                                /\ remaining'[b] = 0
                                                /\ \A c \in Doc : took'[c][b] = 0
    BY DEF FreshBatches
  <2>1. status[b] = "NONE" => /\ initial[b] = 0
                              /\ remaining[b] = 0
                              /\ \A c \in Doc : took[c][b] = 0
    BY DEF Books, FreshBatches
  <2>2. receipt[ReceiptOf[b]] = "DRAFT" => status[b] = "NONE"
    BY DEF Books, FreshBatches
  <2>3. status'[b] = "NONE" <=> status[b] = "NONE"
    BY <2>1, <1>0 DEF PutBack, TypeOK
  <2> QED
    BY <1>0, <1>1, <2>1, <2>2, <2>3
<1>3. OnHandIsBatches'
  <2>1. \A i \in Item : TotalOn(remaining', BatchesOf(i))
                           = TotalOn(remaining, BatchesOf(i)) + TotalOn(took[d], BatchesOf(i))
    BY <1>0, <1>1, StockMore
  <2> QED
    BY <2>1 DEF Books, OnHandIsBatches, BatchesOf
<1>4. LedgerExplainsRemaining'
  <2>1. type \in MovementType /\ \A b \in Batch : neg[b] \in Int
    BY <1>0 DEF MovementType
  <2>2. \A b \in Batch : remaining'[b] =
          IF type \in {"RECEIPT", "RECEIPT_REVERSAL", "COUNT_ADJUSTMENT_IN"}
          THEN remaining[b] + neg[b] ELSE remaining[b] - neg[b]
    BY <1>0, <1>1 DEF TypeOK
  <2> HIDE DEF neg
  <2>3. moved' = Moved(type, neg)
    BY DEF neg
  <2> QED
    BY <2>1, <2>2, <2>3, LedgerAfter DEF Books
<1> QED
  BY <1>2, <1>3, <1>4

LEMMA ReverseIssueBooks ==
    ASSUME TypeOK, TypeOK', Books, NEW s \in Sale, ReverseIssue(s)
    PROVE  Books'
<1>1. s \in Doc
  BY DEF Doc
<1> QED
  BY <1>1, PutBackBooks, ReservedUnchanged DEF ReverseIssue, Books

LEMMA ReverseWriteOffBooks ==
    ASSUME TypeOK, TypeOK', Books, NEW w \in WriteOff, ReverseWriteOff(w)
    PROVE  Books'
<1>1. w \in Doc
  BY DEF Doc
<1> QED
  BY <1>1, PutBackBooks, ReservedUnchanged DEF ReverseWriteOff, Books

LEMMA PostWriteOffBooks ==
    ASSUME TypeOK, TypeOK', Books, NEW w \in WriteOff, NEW want \in Requested,
           PostWriteOff(w, want)
    PROVE  Books'
<1> DEFINE given == FromFree({}, want, Nothing)
<1>1. w \in Doc
  BY DEF Doc
<1>2. /\ want \in [Item -> Nat] /\ given \in [Batch -> Nat]
      /\ \A b \in Batch : given[b] <= remaining[b]
  BY WriteOffTakes
<1>3. /\ \A i \in Item : TotalOn(given, BatchesOf(i)) = want[i]
      /\ TakenOut(given)
      /\ onHand' = [i \in Item |-> onHand[i] - want[i]]
      /\ took' = [took EXCEPT ![w] = given]
      /\ moved' = Moved("WRITE_OFF", given)
      /\ UNCHANGED <<receipt, initial, active, reserved>>
  BY DEF PostWriteOff
<1> HIDE DEF given
<1>4. FreshBatches' /\ OnHandIsBatches' /\ LedgerExplainsRemaining'
  BY <1>1, <1>2, <1>3, TakenOutBooks
<1> QED
  BY <1>3, <1>4, ReservedUnchanged DEF Books

LEMMA IssueBooks ==
    ASSUME TypeOK, TypeOK', Books, NEW d \in Doc, NEW L \in SUBSET Line,
           NEW want \in Requested, Issue(d, L, want)
    PROVE  Books'
<1>1. want \in [Item -> Nat]
  BY IssueFacts
<1>2. PICK consumed \in Consumptions(L, want) :
        \E given \in [Batch -> Nat] : IssueTakes(d, L, want, consumed, given)
  BY IssueFacts
<1>3. PICK given \in [Batch -> Nat] : IssueTakes(d, L, want, consumed, given)
  BY <1>2
<1>4. FreshBatches' /\ OnHandIsBatches' /\ LedgerExplainsRemaining'
  <2>1. /\ \A i \in Item : TotalOn(given, BatchesOf(i)) = want[i]
        /\ \A b \in Batch : given[b] <= remaining[b]
        /\ TakenOut(given)
        /\ onHand' = [i \in Item |-> onHand[i] - want[i]]
        /\ took' = [took EXCEPT ![d] = given]
        /\ moved' = Moved("ISSUE", given)
        /\ UNCHANGED <<receipt, initial>>
    BY <1>3 DEF IssueTakes
  <2> QED
    BY <1>1, <2>1, TakenOutBooks
<1>5. ReservedIsReservations'
  <2> SUFFICES ASSUME NEW i \in Item
               PROVE  reserved'[i] = HeldOf(Line, i)'
    BY DEF ReservedIsReservations
  <2>1. /\ active' = [h \in Line \X Batch |-> IF Cleared(L, want, h) THEN 0 ELSE active[h]]
        /\ reserved'[i] = reserved[i] - Freed(L, want, i)
    BY <1>3 DEF IssueTakes
  <2>2. \A h \in Line \X BatchesOf(i) :
           active'[h] = IF h[1] \in L /\ want[i] > 0 THEN 0 ELSE active[h]
    BY <2>1 DEF BatchesOf, Cleared
  <2>3. HeldOf(L, i) \in Nat /\ reserved[i] \in Nat /\ want[i] \in Nat
    BY <1>1, HeldType DEF TypeOK
  <2>4. \A h \in (Line \ L) \X BatchesOf(i) : active'[h] = active[h]
    BY <2>2
  <2>5. CASE want[i] > 0
    <3>1. TotalOn(active', L \X BatchesOf(i)) = 0
      <4>1. \A h \in L \X BatchesOf(i) : active'[h] = 0
        BY <2>2, <2>5
      <4> QED
        BY <4>1, TotalZero
    <3>2. reserved'[i] = reserved[i] - HeldOf(L, i) + TotalOn(active', L \X BatchesOf(i))
      BY <2>1, <2>3, <2>5, <3>1 DEF Freed
    <3> QED
      BY <2>4, <3>2, ReservedAfter DEF Books
  <2>6. CASE want[i] = 0
    <3>1. TotalOn(active', L \X BatchesOf(i)) = HeldOf(L, i)
      <4>1. \A h \in L \X BatchesOf(i) : active'[h] = active[h]
        BY <2>2, <2>6
      <4> QED
        BY <4>1, TotalSame DEF HeldOf
    <3>2. reserved'[i] = reserved[i] - HeldOf(L, i) + TotalOn(active', L \X BatchesOf(i))
      BY <2>1, <2>3, <2>6, <3>1 DEF Freed
    <3> QED
      BY <2>4, <3>2, ReservedAfter DEF Books
  <2> QED
    BY <2>3, <2>5, <2>6
<1> QED
  BY <1>4, <1>5 DEF Books

(***************************************************************************)
(* The books balance after any sequence of operations, corrections and     *)
(* reversals included.                                                     *)
(***************************************************************************)
THEOREM BooksBalance == Spec => []Books
<1>1. Init => Books
  <2> SUFFICES ASSUME Init
               PROVE  Books
    OBVIOUS
  <2>1. FreshBatches /\ LedgerExplainsRemaining
    BY BatchAssumption
       DEF Init, FreshBatches, LedgerExplainsRemaining, Nothing, MovementType
  <2>2. OnHandIsBatches
    <3> SUFFICES ASSUME NEW i \in Item
                 PROVE  onHand[i] = TotalOn(remaining, BatchesOf(i))
      BY DEF OnHandIsBatches
    <3>1. \A b \in BatchesOf(i) : remaining[b] = 0
      BY DEF Init, BatchesOf
    <3>2. TotalOn(remaining, BatchesOf(i)) = 0
      BY <3>1, TotalZero
    <3> QED
      BY <3>2 DEF Init
  <2>3. ReservedIsReservations
    <3> SUFFICES ASSUME NEW i \in Item
                 PROVE  reserved[i] = TotalOn(active, Line \X BatchesOf(i))
      BY DEF ReservedIsReservations, HeldOf
    <3>1. \A h \in Line \X BatchesOf(i) : active[h] = 0
      BY DEF Init, BatchesOf
    <3>2. TotalOn(active, Line \X BatchesOf(i)) = 0
      BY <3>1, TotalZero
    <3> QED
      BY <3>2 DEF Init
  <2> QED
    BY <2>1, <2>2, <2>3 DEF Books
<1>2. TypeOK /\ TypeOK' /\ Books /\ [Next]_vars => Books'
  <2> SUFFICES ASSUME TypeOK, TypeOK', Books, [Next]_vars
               PROVE  Books'
    OBVIOUS
  <2>0. Composition \subseteq SUBSET Line /\ {} \in SUBSET Line
    BY LineAssumption
  <2>1. ASSUME NEW r \in Receipt, NEW accepted \in [LinesOf(r) -> Qty],
               PostReceipt(r, accepted)
        PROVE  Books'
    BY <2>1, PostReceiptBooks
  <2>2. ASSUME NEW r \in Revisable, ReverseReceipt(r)
        PROVE  Books'
    BY <2>2, DocAssumption, ReverseReceiptBooks
  <2>3. ASSUME NEW b \in Batch, NEW next \in Qty, CorrectReceiptLine(b, next)
        PROVE  Books'
    BY <2>3, CorrectReceiptLineBooks
  <2>4. ASSUME NEW L \in Composition, Release(L)
        PROVE  Books'
    BY <2>0, <2>4, ReleaseBooks
  <2>5. ASSUME NEW L \in Composition, NEW want \in [L -> Qty], Reserve(L, want)
        PROVE  Books'
    BY <2>0, <2>5, ReserveBooks
  <2>6. ASSUME NEW d \in Sale \cup Order, NEW L \in Composition \cup {{}},
               NEW want \in Requested, Issue(d, L, want)
        PROVE  Books'
    BY <2>0, <2>6, IssueBooks DEF Doc
  <2>7. ASSUME NEW s \in Sale, ReverseIssue(s)
        PROVE  Books'
    BY <2>7, ReverseIssueBooks
  <2>8. ASSUME NEW w \in WriteOff, NEW want \in Requested, PostWriteOff(w, want)
        PROVE  Books'
    BY <2>8, PostWriteOffBooks
  <2>9. ASSUME NEW w \in WriteOff, ReverseWriteOff(w)
        PROVE  Books'
    BY <2>9, ReverseWriteOffBooks
  <2>10. CASE UNCHANGED vars
    BY <2>10, StockUnchanged, ReservedUnchanged DEF Books, vars, balances, papers
  <2> QED
    BY <2>1, <2>2, <2>3, <2>4, <2>5, <2>6, <2>7, <2>8, <2>9, <2>10 DEF Next
<1> QED
  BY <1>1, <1>2, TypeCorrect, PTL DEF Spec

\* onHand is the stock of the item's batches, reserved what the ACTIVE
\* reservations of the item hold, and the movements stored for a batch add up
\* to what it has left.
THEOREM BooksAlwaysAddUp == Spec => []BooksAddUp
BY BooksBalance, PTL DEF Books, BooksAddUp, BalancesAddUp

-----------------------------------------------------------------------------
\* Two sets of lines that divide all lines divide what is held of a batch.
LEMMA HeldOnSplit ==
    ASSUME NEW f \in [Line \X Batch -> Nat], NEW L \in SUBSET Line, NEW b \in Batch
    PROVE  /\ TotalOn(f, Line \X {b})
                = TotalOn(f, L \X {b}) + TotalOn(f, (Line \ L) \X {b})
           /\ TotalOn(f, L \X {b}) \in Nat
           /\ TotalOn(f, (Line \ L) \X {b}) \in Nat
<1>1. IsFiniteSet({b}) /\ {b} \in SUBSET Batch
  BY FS_Singleton
<1>2. TotalOn(f, Line \X {b}) = TotalOn(f, L \X {b}) + TotalOn(f, (Line \ L) \X {b})
  BY <1>1, HeldSplit
<1>3. ASSUME NEW K \in SUBSET Line
      PROVE  TotalOn(f, K \X {b}) \in Nat
  <2>1. IsFiniteSet(K \X {b}) /\ K \X {b} \subseteq Line \X Batch
    BY FiniteParts
  <2>2. \A h \in K \X {b} : f[h] \in Nat
    BY <2>1
  <2> QED
    BY <2>1, <2>2, TotalNat
<1>4. Line \ L \in SUBSET Line
  OBVIOUS
<1> QED
  BY <1>2, <1>3, <1>4

\* No two lines of a composition order the same item, so together they are
\* granted no more of a batch than is free.
LEMMA GrantedOnBatch ==
    ASSUME TypeOK, NEW L \in Composition, NEW want, \A l \in L : want[l] \in Nat,
           NEW b \in Batch
    PROVE  TotalOn(Granted(L, want), L \X {b}) <= FreeWithout(L, Nothing)[b]
<1> DEFINE granted == Granted(L, want)
<1> DEFINE free == FreeWithout(L, Nothing)
<1>1. L \in SUBSET Line
  BY LineAssumption
<1>2. free[b] \in Nat
  BY <1>1, FreeType DEF Nothing
<1>3. \A l \in L : /\ granted[<<l, b>>] \in Nat
                   /\ granted[<<l, b>>] <= free[b]
                   /\ granted[<<l, b>>] > 0 => LineItem[l] = ItemOf[b]
  <2> SUFFICES ASSUME NEW l \in L
               PROVE  /\ granted[<<l, b>>] \in Nat
                      /\ granted[<<l, b>>] <= free[b]
                      /\ granted[<<l, b>>] > 0 => LineItem[l] = ItemOf[b]
    OBVIOUS
  <2> DEFINE h == <<l, b>>
  <2>1. h \in Line \X Batch /\ h[1] = l /\ h[2] = b
    BY <1>1
  <2> HIDE DEF h, granted, free
  <2>2. /\ granted[h] \in Nat
        /\ granted[h] <= free[h[2]]
        /\ granted[h] > 0 => LineItem[h[1]] = ItemOf[h[2]]
    BY <1>1, <2>1, GrantedType DEF granted, free
  <2> QED
    BY <2>1, <2>2 DEF h
<1> HIDE DEF granted, free
<1>4. IsFiniteSet(L \X {b}) /\ \A h \in L \X {b} : granted[h] \in Nat
  BY <1>1, <1>3, FiniteParts
<1>5. CASE \A l \in L : granted[<<l, b>>] = 0
  <2>1. \A h \in L \X {b} : granted[h] = 0
    BY <1>5
  <2>2. TotalOn(granted, L \X {b}) = 0
    BY <2>1, TotalZero
  <2> QED
    BY <1>2, <2>2 DEF granted, free
<1>6. CASE \E l \in L : granted[<<l, b>>] > 0
  <2>1. PICK l \in L : granted[<<l, b>>] > 0
    BY <1>6
  <2>2. \A m \in L : m # l => granted[<<m, b>>] = 0
    BY <1>3, <2>1, LineAssumption
  <2> DEFINE alone == [h \in L \X {b} |-> 0]
  <2>3. <<l, b>> \in L \X {b}
    OBVIOUS
  <2>4. \A h \in L \X {b} : h # <<l, b>> => granted[h] = alone[h]
    BY <2>2
  <2>5. \A h \in L \X {b} : alone[h] = 0 /\ alone[h] \in Nat
    OBVIOUS
  <2>6. TotalOn(alone, L \X {b}) = 0
    BY <2>5, TotalZero
  <2> DEFINE H == L \X {b}
  <2> DEFINE j == <<l, b>>
  <2>7. TotalOn(granted, H) = TotalOn(alone, H) - alone[j] + granted[j]
    <3>1. IsFiniteSet(H) /\ j \in H
      BY <1>4, <2>3
    <3>2. \A h \in H : alone[h] \in Nat /\ granted[h] \in Nat
      BY <1>4, <2>5
    <3>3. \A h \in H : h # j => granted[h] = alone[h]
      BY <2>4
    <3> HIDE DEF alone, H, j
    <3> QED
      BY <3>1, <3>2, <3>3, TotalExcept
  <2> HIDE DEF alone
  <2>8. granted[<<l, b>>] \in Nat /\ alone[<<l, b>>] = 0
    BY <1>3, <2>3, <2>5
  <2> QED
    BY <1>3, <2>6, <2>7, <2>8 DEF granted, free
<1> QED
  BY <1>3, <1>5, <1>6

LEMMA PostReceiptBacked ==
    ASSUME TypeOK, TypeOK', Books, ReservationsAreBacked,
           NEW r \in Receipt, NEW accepted \in [LinesOf(r) -> Qty], PostReceipt(r, accepted)
    PROVE  ReservationsAreBacked'
<1> SUFFICES ASSUME NEW b \in Batch, ReceiptOf[b] \notin Revisable
             PROVE  HeldOn(Line, b)' <= remaining'[b]
  BY DEF ReservationsAreBacked
<1>1. HeldOn(Line, b)' = HeldOn(Line, b)
  BY DEF PostReceipt, HeldOn
<1>2. HeldOn(Line, b) <= remaining[b] /\ HeldOn(Line, b) \in Nat /\ remaining[b] \in Nat
  BY HeldType DEF ReservationsAreBacked, TypeOK
<1>3. remaining[b] <= remaining'[b]
  <2> DEFINE in == [c \in Batch |-> IF c \in LinesOf(r) THEN accepted[c] ELSE 0]
  <2>1. in[b] \in Nat /\ (in[b] > 0 => ReceiptOf[b] = r)
    BY BoundAssumption DEF Qty, LinesOf
  <2>2. /\ receipt[r] = "DRAFT"
        /\ remaining' = [c \in Batch |-> IF in[c] > 0 THEN in[c] ELSE remaining[c]]
    BY DEF PostReceipt
  <2>3. in[b] > 0 => remaining[b] = 0
    BY <2>1, <2>2 DEF Books, FreshBatches
  <2> HIDE DEF in
  <2> QED
    BY <1>2, <2>1, <2>2, <2>3
<1>4. remaining'[b] \in Nat
  BY DEF TypeOK
<1> QED
  BY <1>1, <1>2, <1>3, <1>4

LEMMA ReserveBacked ==
    ASSUME TypeOK, TypeOK', ReservationsAreBacked,
           NEW L \in Composition, NEW want \in [L -> Qty], Reserve(L, want)
    PROVE  ReservationsAreBacked'
<1> SUFFICES ASSUME NEW b \in Batch, ReceiptOf[b] \notin Revisable
             PROVE  HeldOn(Line, b)' <= remaining'[b]
  BY DEF ReservationsAreBacked
<1> DEFINE granted == Granted(L, want)
<1> DEFINE free == FreeWithout(L, Nothing)
<1>1. L \in SUBSET Line /\ \A l \in L : want[l] \in Nat
  BY LineAssumption, BoundAssumption DEF Qty
<1>2. active' = [h \in Line \X Batch |-> IF h[1] \in L THEN granted[h] ELSE active[h]]
  BY DEF Reserve
<1>3. remaining' = remaining
  BY DEF Reserve, batches
<1>4. TotalOn(granted, L \X {b}) <= free[b]
  BY <1>1, GrantedOnBatch
<1>5. /\ free[b] \in Nat
      /\ free[b] > 0 => free[b] + HeldOn(Line \ L, b) = remaining[b]
  <2>1. Nothing[b] = 0 /\ remaining[b] \in Nat /\ HeldOn(Line \ L, b) \in Nat
    BY HeldType DEF Nothing, TypeOK
  <2>2. /\ free[b] \in Nat
        /\ free[b] > 0 => free[b] + Nothing[b] + HeldOn(Line \ L, b) = remaining[b]
    BY <1>1, FreeType DEF Nothing
  <2> HIDE DEF free
  <2> QED
    BY <2>1, <2>2
<1> HIDE DEF granted, free
<1>6. TotalOn(active', L \X {b}) = TotalOn(granted, L \X {b})
  <2>1. \A h \in L \X {b} : active'[h] = granted[h]
    BY <1>1, <1>2
  <2> QED
    BY <2>1, TotalSame
<1>7. TotalOn(active', (Line \ L) \X {b}) = TotalOn(active, (Line \ L) \X {b})
  <2>1. \A h \in (Line \ L) \X {b} : active'[h] = active[h]
    BY <1>1, <1>2
  <2> QED
    BY <2>1, TotalSame
<1>8. active \in [Line \X Batch -> Nat] /\ active' \in [Line \X Batch -> Nat]
  BY DEF TypeOK
<1>9. /\ TotalOn(active', Line \X {b})
           = TotalOn(active', L \X {b}) + TotalOn(active', (Line \ L) \X {b})
      /\ TotalOn(active', L \X {b}) \in Nat
      /\ TotalOn(active', (Line \ L) \X {b}) \in Nat
  BY <1>1, <1>8, HeldOnSplit
<1>10. /\ TotalOn(active, Line \X {b})
            = TotalOn(active, L \X {b}) + TotalOn(active, (Line \ L) \X {b})
       /\ TotalOn(active, L \X {b}) \in Nat
       /\ TotalOn(active, (Line \ L) \X {b}) \in Nat
  BY <1>1, <1>8, HeldOnSplit
<1>11. TotalOn(active, Line \X {b}) <= remaining[b] /\ remaining[b] \in Nat
  BY DEF ReservationsAreBacked, HeldOn, TypeOK
<1> QED
  BY <1>3, <1>4, <1>5, <1>6, <1>7, <1>9, <1>10, <1>11 DEF HeldOn

LEMMA ReleaseBacked ==
    ASSUME TypeOK, TypeOK', ReservationsAreBacked, NEW L \in SUBSET Line, Release(L)
    PROVE  ReservationsAreBacked'
<1> SUFFICES ASSUME NEW b \in Batch, ReceiptOf[b] \notin Revisable
             PROVE  HeldOn(Line, b)' <= remaining'[b]
  BY DEF ReservationsAreBacked
<1> DEFINE H == Line \X {b}
<1>1. active' = [h \in Line \X Batch |-> IF h[1] \in L THEN 0 ELSE active[h]]
  BY DEF Release
<1>2. remaining' = remaining /\ remaining[b] \in Nat
  BY DEF Release, batches, TypeOK
<1>3. IsFiniteSet(H) /\ H \subseteq Line \X Batch
  BY FiniteParts
<1>4. /\ \A h \in H : active'[h] \in Nat /\ active[h] \in Nat
      /\ \A h \in H : active'[h] <= active[h]
  BY <1>1, <1>3 DEF TypeOK
<1> HIDE DEF H
<1>5. TotalOn(active', H) <= TotalOn(active, H)
  BY <1>3, <1>4, TotalMono
<1>6. TotalOn(active', H) \in Nat /\ TotalOn(active, H) \in Nat
  BY <1>3, <1>4, TotalNat
<1>7. TotalOn(active, H) <= remaining[b]
  BY DEF ReservationsAreBacked, HeldOn, H
<1> QED
  BY <1>2, <1>5, <1>6, <1>7 DEF HeldOn, H

\* An issue takes from a batch what its own lines held of it and units nobody
\* held, and ends its lines' reservations of the items it issues.
LEMMA IssueBacked ==
    ASSUME TypeOK, TypeOK', ReservationsAreBacked, NEW d \in Doc,
           NEW L \in SUBSET Line, NEW want \in Requested, Issue(d, L, want)
    PROVE  ReservationsAreBacked'
<1> SUFFICES ASSUME NEW b \in Batch, ReceiptOf[b] \notin Revisable
             PROVE  HeldOn(Line, b)' <= remaining'[b]
  BY DEF ReservationsAreBacked
<1> DEFINE i == ItemOf[b]
<1> DEFINE others == Line \ L
<1>1. want \in [Item -> Nat] /\ i \in Item /\ b \in BatchesOf(i)
  BY IssueFacts, BatchAssumption DEF BatchesOf
<1>2. PICK consumed \in Consumptions(L, want) :
        /\ consumed \in [Batch -> Nat]
        /\ \A c \in Batch :
              /\ FromFree(L, want, consumed)[c] \in Nat
              /\ FromFree(L, want, consumed)[c] <= FreeWithout(L, consumed)[c]
        /\ \E given \in [Batch -> Nat] : IssueTakes(d, L, want, consumed, given)
  BY IssueFacts
<1> DEFINE walked == FromFree(L, want, consumed)
<1> DEFINE free == FreeWithout(L, consumed)
<1>3. remaining'[b] = remaining[b] - (consumed[b] + walked[b])
  BY <1>2 DEF IssueTakes, TakenOut
<1>4. active' = [h \in Line \X Batch |-> IF Cleared(L, want, h) THEN 0 ELSE active[h]]
  BY <1>2 DEF IssueTakes
<1>5. /\ HeldOn(Line, b) = HeldOn(L, b) + HeldOn(others, b)
      /\ HeldOn(L, b) \in Nat /\ HeldOn(others, b) \in Nat
  BY HeldOnSplit DEF HeldOn, TypeOK
<1>6. HeldOn(Line, b) <= remaining[b] /\ remaining[b] \in Nat
  BY DEF ReservationsAreBacked, TypeOK
<1>7. consumed[b] \in Nat /\ consumed[b] <= HeldOn(L, b)
  BY <1>2 DEF Consumptions
<1>8. walked[b] \in Nat /\ walked[b] <= free[b]
  BY <1>2
<1>9. /\ free[b] \in Nat
      /\ free[b] > 0 => free[b] + consumed[b] + HeldOn(others, b) = remaining[b]
  BY <1>2, FreeType
<1>10. \A h \in Line \X {b} :
         active'[h] = IF h[1] \in L /\ want[i] > 0 THEN 0 ELSE active[h]
  BY <1>4 DEF Cleared
<1>11. active' \in [Line \X Batch -> Nat]
  BY DEF TypeOK
<1>12. HeldOn(Line, b)' = TotalOn(active', L \X {b}) + TotalOn(active', others \X {b})
  BY <1>11, HeldOnSplit DEF HeldOn
<1>13. TotalOn(active', others \X {b}) = HeldOn(others, b)
  <2>1. \A h \in others \X {b} : active'[h] = active[h]
    BY <1>10
  <2> QED
    BY <2>1, TotalSame DEF HeldOn
<1> HIDE DEF walked, free, others
<1>14. CASE want[i] > 0
  <2>1. \A h \in L \X {b} : active'[h] = 0
    BY <1>10, <1>14
  <2>2. TotalOn(active', L \X {b}) = 0
    BY <2>1, TotalZero
  <2> QED
    BY <1>3, <1>5, <1>6, <1>7, <1>8, <1>9, <1>12, <1>13, <2>2
<1>15. CASE want[i] = 0
  <2>1. \A h \in L \X {b} : active'[h] = active[h]
    BY <1>10, <1>15
  <2>2. TotalOn(active', L \X {b}) = HeldOn(L, b)
    BY <2>1, TotalSame DEF HeldOn
  <2>3. PICK given \in [Batch -> Nat] : IssueTakes(d, L, want, consumed, given)
    BY <1>2
  <2>4. TotalOn(given, BatchesOf(i)) = 0 /\ given[b] = consumed[b] + walked[b]
    BY <1>1, <1>15, <2>3 DEF IssueTakes, walked
  <2>5. given[b] <= TotalOn(given, BatchesOf(i))
    <3>1. IsFiniteSet(BatchesOf(i)) /\ \A c \in BatchesOf(i) : given[c] \in Nat
      BY <1>1, FiniteParts
    <3> QED
      BY <1>1, <3>1, MemberLeTotal
  <2>6. consumed[b] = 0 /\ walked[b] = 0
    BY <1>7, <1>8, <2>4, <2>5
  <2> QED
    BY <1>3, <1>5, <1>6, <1>12, <1>13, <2>2, <2>6
<1> QED
  BY <1>1, <1>14, <1>15

LEMMA PostWriteOffBacked ==
    ASSUME TypeOK, TypeOK', ReservationsAreBacked, NEW w \in WriteOff,
           NEW want \in Requested, PostWriteOff(w, want)
    PROVE  ReservationsAreBacked'
<1> SUFFICES ASSUME NEW b \in Batch, ReceiptOf[b] \notin Revisable
             PROVE  HeldOn(Line, b)' <= remaining'[b]
  BY DEF ReservationsAreBacked
<1> DEFINE given == FromFree({}, want, Nothing)
<1> DEFINE free == FreeWithout({}, Nothing)
<1>1. remaining'[b] = remaining[b] - given[b] /\ HeldOn(Line, b)' = HeldOn(Line, b)
  BY DEF PostWriteOff, TakenOut, HeldOn
<1>2. given[b] \in Nat /\ given[b] <= free[b]
  BY WriteOffTakes
<1>3. /\ free[b] \in Nat
      /\ free[b] > 0 => free[b] + Nothing[b] + HeldOn(Line \ {}, b) = remaining[b]
  BY FreeType DEF Nothing
<1>4. HeldOn(Line \ {}, b) = HeldOn(Line, b)
  <2>1. Line \ {} = Line
    OBVIOUS
  <2> QED
    BY <2>1, Zenon
<1>5. /\ HeldOn(Line, b) <= remaining[b] /\ remaining[b] \in Nat
      /\ HeldOn(Line, b) \in Nat /\ Nothing[b] = 0
  BY HeldType DEF ReservationsAreBacked, TypeOK, Nothing
<1> HIDE DEF given, free
<1> QED
  BY <1>1, <1>2, <1>3, <1>4, <1>5

LEMMA PutBackBacked ==
    ASSUME TypeOK, ReservationsAreBacked, NEW d \in Doc, PutBack(took[d]),
           UNCHANGED active
    PROVE  ReservationsAreBacked'
<1> SUFFICES ASSUME NEW b \in Batch, ReceiptOf[b] \notin Revisable
             PROVE  HeldOn(Line, b)' <= remaining'[b]
  BY DEF ReservationsAreBacked
<1>1. HeldOn(Line, b)' = HeldOn(Line, b)
  BY DEF HeldOn
<1>2. remaining'[b] = remaining[b] + took[d][b]
  BY DEF PutBack
<1>3. /\ HeldOn(Line, b) <= remaining[b] /\ remaining[b] \in Nat
      /\ HeldOn(Line, b) \in Nat /\ took[d][b] \in Nat
  BY HeldType DEF ReservationsAreBacked, TypeOK
<1> QED
  BY <1>1, <1>2, <1>3

\* Corrections and reversals touch the batches of their own receipt only.
LEMMA ReverseReceiptBacked ==
    ASSUME ReservationsAreBacked, NEW r \in Revisable, ReverseReceipt(r)
    PROVE  ReservationsAreBacked'
<1> SUFFICES ASSUME NEW b \in Batch, ReceiptOf[b] \notin Revisable
             PROVE  HeldOn(Line, b)' <= remaining'[b]
  BY DEF ReservationsAreBacked
<1>1. HeldOn(Line, b)' = HeldOn(Line, b)
  BY DEF ReverseReceipt, HeldOn
<1>2. remaining'[b] = remaining[b]
  BY DEF ReverseReceipt, LinesOf
<1> QED
  BY <1>1, <1>2 DEF ReservationsAreBacked

LEMMA CorrectionBacked ==
    ASSUME TypeOK, ReservationsAreBacked, NEW c \in Batch, NEW next \in Qty,
           ReceiptOf[c] \in Revisable, CorrectReceiptLine(c, next)
    PROVE  ReservationsAreBacked'
<1> SUFFICES ASSUME NEW b \in Batch, ReceiptOf[b] \notin Revisable
             PROVE  HeldOn(Line, b)' <= remaining'[b]
  BY DEF ReservationsAreBacked
<1>1. HeldOn(Line, b)' = HeldOn(Line, b)
  BY DEF CorrectReceiptLine, HeldOn
<1>2. remaining'[b] = remaining[b]
  BY DEF CorrectReceiptLine, TypeOK
<1> QED
  BY <1>1, <1>2 DEF ReservationsAreBacked

(***************************************************************************)
(* Every reserved unit is in the batch its reservation names, in every     *)
(* batch whose receipt is neither corrected nor reversed.  (With those it  *)
(* need not be: adjustGoodsReceiptItem and reverseGoodsReceipt do not look *)
(* at reservations.)                                                       *)
(***************************************************************************)
THEOREM Backed == Spec => []ReservationsAreBacked
<1>1. Init => ReservationsAreBacked
  <2> SUFFICES ASSUME Init, NEW b \in Batch
               PROVE  HeldOn(Line, b) <= remaining[b]
    BY DEF ReservationsAreBacked
  <2>1. \A h \in Line \X {b} : active[h] = 0
    BY DEF Init
  <2>2. TotalOn(active, Line \X {b}) = 0
    BY <2>1, TotalZero
  <2> QED
    BY <2>2 DEF Init, HeldOn
<1>2. TypeOK /\ TypeOK' /\ Books /\ ReservationsAreBacked /\ [Next]_vars
        => ReservationsAreBacked'
  <2> SUFFICES ASSUME TypeOK, TypeOK', Books, ReservationsAreBacked, [Next]_vars
               PROVE  ReservationsAreBacked'
    OBVIOUS
  <2>0. Composition \subseteq SUBSET Line /\ {} \in SUBSET Line
    BY LineAssumption
  <2>1. ASSUME NEW r \in Receipt, NEW accepted \in [LinesOf(r) -> Qty],
               PostReceipt(r, accepted)
        PROVE  ReservationsAreBacked'
    BY <2>1, PostReceiptBacked
  <2>2. ASSUME NEW L \in Composition, Release(L)
        PROVE  ReservationsAreBacked'
    BY <2>0, <2>2, ReleaseBacked
  <2>3. ASSUME NEW L \in Composition, NEW want \in [L -> Qty], Reserve(L, want)
        PROVE  ReservationsAreBacked'
    BY <2>3, ReserveBacked
  <2>4. ASSUME NEW d \in Sale \cup Order, NEW L \in Composition \cup {{}},
               NEW want \in Requested, Issue(d, L, want)
        PROVE  ReservationsAreBacked'
    BY <2>0, <2>4, IssueBacked DEF Doc
  <2>5. ASSUME NEW s \in Sale, ReverseIssue(s)
        PROVE  ReservationsAreBacked'
    BY <2>5, PutBackBacked DEF ReverseIssue, Doc
  <2>6. ASSUME NEW w \in WriteOff, NEW want \in Requested, PostWriteOff(w, want)
        PROVE  ReservationsAreBacked'
    BY <2>6, PostWriteOffBacked
  <2>7. ASSUME NEW w \in WriteOff, ReverseWriteOff(w)
        PROVE  ReservationsAreBacked'
    BY <2>7, PutBackBacked DEF ReverseWriteOff, Doc
  <2>8. CASE UNCHANGED vars
    BY <2>8 DEF ReservationsAreBacked, HeldOn, vars, batches
  <2>9. ASSUME NEW r \in Revisable, ReverseReceipt(r)
        PROVE  ReservationsAreBacked'
    BY <2>9, ReverseReceiptBacked
  <2>10. ASSUME NEW b \in Batch, NEW next \in Qty,
                ReceiptOf[b] \in Revisable, CorrectReceiptLine(b, next)
         PROVE  ReservationsAreBacked'
    BY <2>10, CorrectionBacked
  <2> QED
    BY <2>1, <2>2, <2>3, <2>4, <2>5, <2>6, <2>7, <2>8, <2>9, <2>10 DEF Next
<1> QED
  BY <1>1, <1>2, TypeCorrect, BooksBalance, PTL DEF Spec


-----------------------------------------------------------------------------
(***************************************************************************)
(* What the documents took of a batch.                                     *)
(***************************************************************************)
\* Of each document, the units of b it took and has not given back.
OutOf(b) == [d \in Doc |-> IF doc[d] = "POSTED" THEN took[d][b] ELSE 0]

LEMMA OutOfType ==
    ASSUME TypeOK, NEW b \in Batch
    PROVE  (\A d \in Doc : OutOf(b)[d] \in Nat) /\ Outstanding(b) = TotalOn(OutOf(b), Doc)
           /\ Outstanding(b) \in Nat
<1>1. \A d \in Doc : OutOf(b)[d] \in Nat
  BY DEF TypeOK, OutOf
<1>2. Outstanding(b) = TotalOn(OutOf(b), Doc)
  BY DEF Outstanding, OutOf
<1> QED
  BY <1>1, <1>2, DocAssumption, TotalNat

LEMMA OutstandingChanges ==
    ASSUME TypeOK, TypeOK', NEW d \in Doc, NEW b \in Batch,
           \A e \in Doc : e # d => OutOf(b)'[e] = OutOf(b)[e]
    PROVE  /\ Outstanding(b)' = Outstanding(b) - OutOf(b)[d] + OutOf(b)'[d]
           /\ OutOf(b)[d] <= Outstanding(b)
<1> DEFINE f == OutOf(b)
           g == OutOf(b)'
<1>1. (\A e \in Doc : f[e] \in Nat) /\ Outstanding(b) = TotalOn(f, Doc)
  BY OutOfType
<1>2. \A e \in Doc : g[e] \in Nat
  BY DEF TypeOK, OutOf
<1>3. Outstanding(b)' = TotalOn(g, Doc)
  BY DEF Outstanding, OutOf
<1>4. \A e \in Doc : e # d => g[e] = f[e]
  OBVIOUS
<1> HIDE DEF f, g
<1>5. TotalOn(g, Doc) = TotalOn(f, Doc) - f[d] + g[d]
  BY <1>1, <1>2, <1>4, DocAssumption, TotalExcept
<1>6. f[d] <= TotalOn(f, Doc)
  BY <1>1, DocAssumption, MemberLeTotal
<1> QED
  BY <1>1, <1>3, <1>5, <1>6 DEF f, g

\* A document is posted: it has given[b] units of b out.
LEMMA OutstandingPosted ==
    ASSUME TypeOK, TypeOK', NEW d \in Doc, NEW given \in [Batch -> Nat], doc[d] = "OPEN",
           doc' = [doc EXCEPT ![d] = "POSTED"], took' = [took EXCEPT ![d] = given]
    PROVE  \A b \in Batch : Outstanding(b)' = Outstanding(b) + given[b]
<1> SUFFICES ASSUME NEW b \in Batch PROVE Outstanding(b)' = Outstanding(b) + given[b]
  OBVIOUS
<1>1. /\ OutOf(b)[d] = 0 /\ OutOf(b)'[d] = given[b]
      /\ \A e \in Doc : e # d => OutOf(b)'[e] = OutOf(b)[e]
  BY DEF TypeOK, OutOf
<1>2. Outstanding(b)' = Outstanding(b) - OutOf(b)[d] + OutOf(b)'[d]
  BY <1>1, OutstandingChanges
<1>3. Outstanding(b) \in Nat
  BY OutOfType
<1> QED
  BY <1>1, <1>2, <1>3

\* A document is reversed: what it had out was outstanding.
LEMMA OutstandingReversed ==
    ASSUME TypeOK, TypeOK', NEW d \in Doc, doc[d] = "POSTED",
           doc' = [doc EXCEPT ![d] = "REVERSED"], took' = took
    PROVE  \A b \in Batch : /\ Outstanding(b)' = Outstanding(b) - took[d][b]
                            /\ took[d][b] <= Outstanding(b)
<1> SUFFICES ASSUME NEW b \in Batch
             PROVE  /\ Outstanding(b)' = Outstanding(b) - took[d][b]
                    /\ took[d][b] <= Outstanding(b)
  OBVIOUS
<1>1. /\ OutOf(b)[d] = took[d][b] /\ OutOf(b)'[d] = 0
      /\ \A e \in Doc : e # d => OutOf(b)'[e] = OutOf(b)[e]
  BY DEF TypeOK, OutOf
<1>2. /\ Outstanding(b)' = Outstanding(b) - OutOf(b)[d] + OutOf(b)'[d]
      /\ OutOf(b)[d] <= Outstanding(b)
  BY <1>1, OutstandingChanges
<1>3. Outstanding(b) \in Nat /\ took[d][b] \in Nat
  BY OutOfType DEF TypeOK
<1> QED
  BY <1>1, <1>2, <1>3

LEMMA OutstandingSame ==
    ASSUME UNCHANGED papers PROVE \A b \in Batch : Outstanding(b)' = Outstanding(b)
BY DEF papers, Outstanding

(***************************************************************************)
(* What one batch says of itself: its status st, its initial and remaining *)
(* quantities, and the units out of it.                                    *)
(***************************************************************************)
Tells(st, ini, rem, out) ==
    /\ st = "ACTIVE" <=> rem > 0
    /\ IF st = "REVERSED" THEN rem = 0 /\ out = 0 ELSE ini - rem = out

LEMMA TellsAll ==
    /\ BatchesAddUp
          <=> \A b \in Batch : Tells(status[b], initial[b], remaining[b], Outstanding(b))
    /\ BatchesAddUp'
          <=> \A b \in Batch : Tells(status'[b], initial'[b], remaining'[b], Outstanding(b)')
<1>1. BatchesAddUp
          <=> \A b \in Batch : Tells(status[b], initial[b], remaining[b], Outstanding(b))
  BY DEF BatchesAddUp, ActiveMeansStock, TakenIsAccountedFor, Tells
<1>2. BatchesAddUp'
          <=> \A b \in Batch : Tells(status'[b], initial'[b], remaining'[b], Outstanding(b)')
  BY DEF BatchesAddUp, ActiveMeansStock, TakenIsAccountedFor, Tells
<1> QED
  BY <1>1, <1>2

LEMMA PostReceiptTells ==
    ASSUME TypeOK, Books, BatchesAddUp, NEW r \in Receipt,
           NEW accepted \in [LinesOf(r) -> Qty], PostReceipt(r, accepted)
    PROVE  BatchesAddUp'
<1> DEFINE in == [b \in Batch |-> IF b \in LinesOf(r) THEN accepted[b] ELSE 0]
<1>1. /\ receipt[r] = "DRAFT"
      /\ status' = [b \in Batch |-> IF in[b] > 0 THEN "ACTIVE" ELSE status[b]]
      /\ initial' = [b \in Batch |-> IF in[b] > 0 THEN in[b] ELSE initial[b]]
      /\ remaining' = [b \in Batch |-> IF in[b] > 0 THEN in[b] ELSE remaining[b]]
      /\ UNCHANGED papers
  BY DEF PostReceipt
<1> SUFFICES ASSUME NEW b \in Batch
             PROVE  Tells(status'[b], initial'[b], remaining'[b], Outstanding(b)')
  BY TellsAll
<1>2. Tells(status[b], initial[b], remaining[b], Outstanding(b)) /\ Outstanding(b)' = Outstanding(b)
  BY <1>1, TellsAll, OutstandingSame
<1>3. in[b] > 0 => status[b] = "NONE" /\ initial[b] = 0 /\ remaining[b] = 0
  <2>1. in[b] > 0 => ReceiptOf[b] = r
    BY DEF LinesOf
  <2> QED
    BY <1>1, <2>1 DEF Books, FreshBatches
<1>4. in[b] \in Nat
  BY BoundAssumption DEF Qty
<1> HIDE DEF in
<1>5. CASE in[b] > 0
  <2>1. status'[b] = "ACTIVE" /\ initial'[b] = in[b] /\ remaining'[b] = in[b]
    BY <1>1, <1>5
  <2> QED
    BY <1>2, <1>3, <1>4, <1>5, <2>1 DEF Tells
<1>6. CASE ~(in[b] > 0)
  BY <1>1, <1>2, <1>6
<1> QED
  BY <1>5, <1>6

LEMMA ReverseReceiptTells ==
    ASSUME TypeOK, BatchesAddUp, NEW r \in Receipt, ReverseReceipt(r)
    PROVE  BatchesAddUp'
<1> DEFINE made == {b \in LinesOf(r) : status[b] # "NONE"}
<1>1. /\ \A b \in made : remaining[b] = initial[b]
      /\ status' = [b \in Batch |-> IF b \in made THEN "REVERSED" ELSE status[b]]
      /\ remaining' = [b \in Batch |-> IF b \in made THEN 0 ELSE remaining[b]]
      /\ UNCHANGED <<initial, papers>>
  BY DEF ReverseReceipt, Unused
<1> HIDE DEF made
<1> SUFFICES ASSUME NEW b \in Batch
             PROVE  Tells(status'[b], initial'[b], remaining'[b], Outstanding(b)')
  BY TellsAll
<1>2. Tells(status[b], initial[b], remaining[b], Outstanding(b)) /\ Outstanding(b)' = Outstanding(b)
  BY <1>1, TellsAll, OutstandingSame
<1>3. remaining[b] \in Nat /\ initial[b] \in Nat
  BY DEF TypeOK
<1>4. CASE b \in made
  <2>1. status'[b] = "REVERSED" /\ remaining'[b] = 0
    BY <1>1, <1>4
  <2>2. Outstanding(b) = 0
    BY <1>1, <1>2, <1>3, <1>4 DEF Tells
  <2> QED
    BY <1>2, <2>1, <2>2 DEF Tells
<1>5. CASE b \notin made
  BY <1>1, <1>2, <1>5
<1> QED
  BY <1>4, <1>5

LEMMA CorrectReceiptLineTells ==
    ASSUME TypeOK, BatchesAddUp, NEW c \in Batch, NEW next \in Qty, CorrectReceiptLine(c, next)
    PROVE  BatchesAddUp'
<1> DEFINE delta == next - initial[c]
<1>1. /\ status[c] \in {"ACTIVE", "DEPLETED"}
      /\ remaining[c] + delta >= 0
      /\ initial' = [initial EXCEPT ![c] = next]
      /\ remaining' = [remaining EXCEPT ![c] = remaining[c] + delta]
      /\ status' = [status EXCEPT ![c] = IF remaining[c] + delta > 0 THEN "ACTIVE" ELSE "DEPLETED"]
      /\ UNCHANGED papers
  BY DEF CorrectReceiptLine, CoversIssued
<1>2. /\ remaining \in [Batch -> Nat] /\ initial \in [Batch -> Nat] /\ next \in Nat
      /\ status \in [Batch -> BatchStatus]
  BY BoundAssumption DEF TypeOK, Qty
<1> SUFFICES ASSUME NEW b \in Batch
             PROVE  Tells(status'[b], initial'[b], remaining'[b], Outstanding(b)')
  BY TellsAll
<1>3. /\ Tells(status[b], initial[b], remaining[b], Outstanding(b))
      /\ Outstanding(b)' = Outstanding(b) /\ Outstanding(b) \in Nat
  BY <1>1, TellsAll, OutstandingSame, OutOfType
<1>4. CASE b = c
  <2>1. /\ initial'[b] = next /\ remaining'[b] = remaining[b] + (next - initial[b])
        /\ status'[b] = IF remaining'[b] > 0 THEN "ACTIVE" ELSE "DEPLETED"
        /\ status[b] # "REVERSED"
    BY <1>1, <1>2, <1>4
  <2> QED
    BY <1>2, <1>3, <2>1 DEF Tells
<1>5. CASE b # c
  BY <1>1, <1>2, <1>3, <1>5
<1> QED
  BY <1>4, <1>5

LEMMA TakenOutTells ==
    ASSUME TypeOK, TypeOK', BatchesAddUp, NEW d \in Doc, NEW given \in [Batch -> Nat],
           doc[d] = "OPEN", doc' = [doc EXCEPT ![d] = "POSTED"],
           took' = [took EXCEPT ![d] = given], TakenOut(given), UNCHANGED initial,
           \A b \in Batch : given[b] <= remaining[b]
    PROVE  BatchesAddUp'
<1> SUFFICES ASSUME NEW b \in Batch
             PROVE  Tells(status'[b], initial'[b], remaining'[b], Outstanding(b)')
  BY TellsAll
<1>1. /\ Tells(status[b], initial[b], remaining[b], Outstanding(b))
      /\ Outstanding(b)' = Outstanding(b) + given[b]
  BY TellsAll, OutstandingPosted
<1>2. /\ remaining'[b] = remaining[b] - given[b]
      /\ status'[b] = IF given[b] > 0 /\ given[b] = remaining[b] THEN "DEPLETED" ELSE status[b]
      /\ initial'[b] = initial[b]
  BY DEF TakenOut
<1>3. /\ remaining[b] \in Nat /\ initial[b] \in Nat /\ given[b] \in Nat
      /\ given[b] <= remaining[b] /\ Outstanding(b) \in Nat
  BY OutOfType DEF TypeOK
<1> QED
  BY <1>1, <1>2, <1>3 DEF Tells

LEMMA PutBackTells ==
    ASSUME TypeOK, TypeOK', Books, BatchesAddUp, NEW d \in Doc, doc[d] = "POSTED",
           doc' = [doc EXCEPT ![d] = "REVERSED"], PutBack(took[d]), UNCHANGED <<took, initial>>
    PROVE  BatchesAddUp'
<1> SUFFICES ASSUME NEW b \in Batch
             PROVE  Tells(status'[b], initial'[b], remaining'[b], Outstanding(b)')
  BY TellsAll
<1>1. /\ Tells(status[b], initial[b], remaining[b], Outstanding(b))
      /\ Outstanding(b)' = Outstanding(b) - took[d][b]
      /\ took[d][b] <= Outstanding(b)
  BY TellsAll, OutstandingReversed
<1>2. /\ remaining'[b] = remaining[b] + took[d][b]
      /\ status'[b] = IF took[d][b] > 0 /\ status[b] = "DEPLETED" THEN "ACTIVE" ELSE status[b]
      /\ initial'[b] = initial[b]
  BY DEF PutBack
<1>3. /\ remaining[b] \in Nat /\ initial[b] \in Nat /\ took[d][b] \in Nat
      /\ Outstanding(b) \in Nat /\ status[b] \in BatchStatus
  BY OutOfType DEF TypeOK
<1>4. status[b] = "NONE" => took[d][b] = 0
  BY DEF Books, FreshBatches
<1> QED
  BY <1>1, <1>2, <1>3, <1>4 DEF Tells, BatchStatus

LEMMA IssueTells ==
    ASSUME TypeOK, TypeOK', BatchesAddUp, NEW d \in Doc, NEW L \in SUBSET Line,
           NEW want \in Requested, Issue(d, L, want)
    PROVE  BatchesAddUp'
<1>1. PICK consumed \in Consumptions(L, want) :
        \E given \in [Batch -> Nat] : IssueTakes(d, L, want, consumed, given)
  BY IssueFacts
<1>2. PICK given \in [Batch -> Nat] : IssueTakes(d, L, want, consumed, given)
  BY <1>1
<1>3. doc[d] = "OPEN"
  BY DEF Issue
<1>4. /\ doc' = [doc EXCEPT ![d] = "POSTED"]
      /\ took' = [took EXCEPT ![d] = given] /\ TakenOut(given) /\ UNCHANGED initial
      /\ \A b \in Batch : given[b] <= remaining[b]
  BY <1>2 DEF IssueTakes
<1> QED
  BY <1>3, <1>4, TakenOutTells

LEMMA WriteOffTells ==
    ASSUME TypeOK, TypeOK', BatchesAddUp, NEW w \in WriteOff, NEW want \in Requested,
           PostWriteOff(w, want)
    PROVE  BatchesAddUp'
<1> DEFINE given == FromFree({}, want, Nothing)
<1>1. given \in [Batch -> Nat] /\ \A b \in Batch : given[b] <= remaining[b]
  BY WriteOffTakes
<1>2. /\ doc[w] = "OPEN" /\ doc' = [doc EXCEPT ![w] = "POSTED"]
      /\ took' = [took EXCEPT ![w] = given] /\ TakenOut(given) /\ UNCHANGED initial
  BY DEF PostWriteOff
<1>3. w \in Doc
  BY DEF Doc
<1> HIDE DEF given
<1> QED
  BY <1>1, <1>2, <1>3, TakenOutTells

(***************************************************************************)
(* A batch is ACTIVE exactly while it has stock, and what the documents    *)
(* took and did not give back is what it misses of its initial quantity:   *)
(* so a reversed batch can get nothing back, although reverseGoodsReceipt  *)
(* only compares two quantities and no adapter looks at the others'        *)
(* documents.                                                              *)
(***************************************************************************)
THEOREM BatchesAlwaysAddUp == Spec => []BatchesAddUp
<1>1. Init => BatchesAddUp
  <2> SUFFICES ASSUME Init, NEW b \in Batch
               PROVE  Tells(status[b], initial[b], remaining[b], Outstanding(b))
    BY TellsAll
  <2>1. \A d \in Doc : OutOf(b)[d] = 0
    BY DEF Init, OutOf
  <2>2. TotalOn(OutOf(b), Doc) = 0
    BY <2>1, TotalZero
  <2>3. Outstanding(b) = 0
    BY <2>2 DEF Outstanding, OutOf
  <2> QED
    BY <2>3 DEF Init, Tells
<1>2. TypeOK /\ TypeOK' /\ Books /\ BatchesAddUp /\ [Next]_vars => BatchesAddUp'
  <2> SUFFICES ASSUME TypeOK, TypeOK', Books, BatchesAddUp, [Next]_vars
               PROVE  BatchesAddUp'
    OBVIOUS
  <2>0. Composition \subseteq SUBSET Line /\ {} \in SUBSET Line
    BY LineAssumption
  <2>1. ASSUME NEW r \in Receipt, NEW accepted \in [LinesOf(r) -> Qty],
               PostReceipt(r, accepted)
        PROVE  BatchesAddUp'
    BY <2>1, PostReceiptTells
  <2>2. ASSUME NEW r \in Revisable, ReverseReceipt(r)
        PROVE  BatchesAddUp'
    BY <2>2, DocAssumption, ReverseReceiptTells
  <2>3. ASSUME NEW b \in Batch, NEW next \in Qty, CorrectReceiptLine(b, next)
        PROVE  BatchesAddUp'
    BY <2>3, CorrectReceiptLineTells
  <2>4. ASSUME UNCHANGED <<batches, papers>> PROVE BatchesAddUp'
    BY <2>4, OutstandingSame, TellsAll DEF batches
  <2>5. ASSUME NEW d \in Sale \cup Order, NEW L \in Composition \cup {{}},
               NEW want \in Requested, Issue(d, L, want)
        PROVE  BatchesAddUp'
    BY <2>0, <2>5, IssueTells DEF Doc
  <2>6. ASSUME NEW s \in Sale, ReverseIssue(s)
        PROVE  BatchesAddUp'
    BY <2>6, PutBackTells DEF ReverseIssue, Doc
  <2>7. ASSUME NEW w \in WriteOff, NEW want \in Requested, PostWriteOff(w, want)
        PROVE  BatchesAddUp'
    BY <2>7, WriteOffTells
  <2>8. ASSUME NEW w \in WriteOff, ReverseWriteOff(w)
        PROVE  BatchesAddUp'
    BY <2>8, PutBackTells DEF ReverseWriteOff, Doc
  <2>9. ASSUME NEW L \in Composition, Release(L)
        PROVE  BatchesAddUp'
    BY <2>4, <2>9 DEF Release
  <2>10. ASSUME NEW L \in Composition, NEW want \in [L -> Qty], Reserve(L, want)
         PROVE  BatchesAddUp'
    BY <2>4, <2>10 DEF Reserve
  <2>11. CASE UNCHANGED vars
    BY <2>4, <2>11 DEF vars
  <2> QED
    BY <2>1, <2>2, <2>3, <2>5, <2>6, <2>7, <2>8, <2>9, <2>10, <2>11 DEF Next
<1> QED
  BY <1>1, <1>2, TypeCorrect, BooksBalance, PTL DEF Spec


-----------------------------------------------------------------------------
(***************************************************************************)
(* The ledger keeps StockPromise.                                          *)
(***************************************************************************)
\* What each line holds, whatever the batches.
Holding(act) == [l \in Line |-> TotalOn(act, {l} \X Batch)]

\* A line only holds units of the item it orders.
KeepsToItem(act) == \A h \in Line \X Batch : act[h] > 0 => LineItem[h[1]] = ItemOf[h[2]]

\* Of an item, the lines that order it hold all that is reserved of it.
LEMMA HoldingAddsUp ==
    ASSUME NEW act \in [Line \X Batch -> Nat], KeepsToItem(act), NEW i \in Item
    PROVE  TotalOn(Holding(act), {l \in Line : LineItem[l] = i})
             = TotalOn(act, Line \X BatchesOf(i))
<1> DEFINE mine == {l \in Line : LineItem[l] = i}
<1> DEFINE held == Holding(act)
<1> DEFINE part == [l \in mine |-> {l} \X Batch]
<1> DEFINE inside == mine \X BatchesOf(i)
<1> DEFINE strange == mine \X (Batch \ BatchesOf(i))
<1> DEFINE foreign == (Line \ mine) \X BatchesOf(i)
<1>1. /\ mine \subseteq Line /\ IsFiniteSet(mine) /\ IsFiniteSet(Line \ mine)
      /\ BatchesOf(i) \subseteq Batch /\ IsFiniteSet(BatchesOf(i))
      /\ IsFiniteSet(Batch) /\ IsFiniteSet(Batch \ BatchesOf(i))
  BY FiniteParts, BatchAssumption, FS_Subset
<1>2. TotalOn(held, mine) = TotalOn(act, mine \X Batch)
  <2> DEFINE all == mine \X Batch
  <2>1. (\A l \in mine : part[l] \subseteq all) /\ (\A u \in all : \E l \in mine : u \in part[l])
    OBVIOUS
  <2>2. \A l \in mine : IsFiniteSet(part[l])
    <3> SUFFICES ASSUME NEW l \in mine PROVE IsFiniteSet({l} \X Batch)
      OBVIOUS
    <3>1. IsFiniteSet({l})
      BY FS_Singleton
    <3> QED
      BY <1>1, <3>1, FS_Product
  <2>3. \A j, k \in mine : j # k => part[j] \cap part[k] = {}
    OBVIOUS
  <2>4. \A u \in mine \X Batch : act[u] \in Nat
    BY <1>1
  <2>5. \A l \in mine : held[l] = TotalOn(act, part[l])
    BY DEF Holding
  <2> HIDE DEF mine, held, part, all
  <2>6. PartTotals(held, mine, act, part, all)
    BY <1>1, <2>1, <2>2, <2>3, <2>4, <2>5 DEF all, PartTotals
  <2>7. TotalOn(held, mine) = TotalOn(act, all)
    BY <2>6, TotalParts
  <2> QED
    BY <2>7 DEF all
<1>3. /\ mine \X Batch = inside \cup strange /\ inside \cap strange = {}
      /\ Line \X BatchesOf(i) = inside \cup foreign /\ inside \cap foreign = {}
  BY <1>1
<1>4. IsFiniteSet(inside) /\ IsFiniteSet(strange) /\ IsFiniteSet(foreign)
  BY <1>1, FS_Product
<1>5. /\ \A h \in inside \cup strange : act[h] \in Nat
      /\ \A h \in inside \cup foreign : act[h] \in Nat
  BY <1>1
<1>6. \A h \in strange \cup foreign : act[h] = 0
  <2> SUFFICES ASSUME NEW h \in strange \cup foreign PROVE act[h] = 0
    OBVIOUS
  <2>1. h \in Line \X Batch /\ LineItem[h[1]] # ItemOf[h[2]] /\ act[h] \in Nat
    BY <1>1 DEF BatchesOf
  <2> QED
    BY <2>1 DEF KeepsToItem
<1> HIDE DEF mine, held, part, inside, strange, foreign
<1>7. TotalOn(act, strange) = 0 /\ TotalOn(act, foreign) = 0
  BY <1>6, TotalZero
<1>8. TotalOn(act, mine \X Batch) = TotalOn(act, inside) + TotalOn(act, strange)
  BY <1>3, <1>4, <1>5, TotalSplit
<1>9. TotalOn(act, Line \X BatchesOf(i)) = TotalOn(act, inside) + TotalOn(act, foreign)
  BY <1>3, <1>4, <1>5, TotalSplit
<1>10. TotalOn(held, mine) = TotalOn(act, Line \X BatchesOf(i))
  BY <1>2, <1>7, <1>8, <1>9
<1> QED
  BY <1>10 DEF held, mine

\* The promise counts units as the ledger does.
LEMMA PromiseCounts ==
    ASSUME NEW f, NEW S
    PROVE  Promise!TotalOn(f, S) = TotalOn(f, S)
BY DEF Promise!TotalOn, TotalOn, Promise!Units, Units, Promise!Cardinality, Cardinality

\* What lines hold is a natural number.
LEMMA HoldingType ==
    ASSUME NEW act \in [Line \X Batch -> Nat]
    PROVE  Holding(act) \in [Line -> Nat]
<1> SUFFICES ASSUME NEW l \in Line PROVE TotalOn(act, {l} \X Batch) \in Nat
  BY DEF Holding
<1>1. IsFiniteSet({l} \X Batch)
  BY FS_Singleton, FS_Product, BatchAssumption
<1> QED
  BY <1>1, TotalNat

\* While the books balance, what the lines hold never exceeds the stock.
LEMMA CoveredNext ==
    ASSUME TypeOK', ReservedIsReservations', BalancesHold', KeepsToItem(active')
    PROVE  Promise!Covered'
<1> SUFFICES ASSUME NEW i \in Item
             PROVE  TotalOn(Holding(active'), {l \in Line : LineItem[l] = i}) <= onHand'[i]
  BY PromiseCounts DEF Promise!Covered, Promise!LinesFor, Holding
<1>1. TotalOn(Holding(active'), {l \in Line : LineItem[l] = i}) = reserved'[i]
  BY HoldingAddsUp DEF TypeOK, ReservedIsReservations, HeldOf
<1> QED
  BY <1>1 DEF BalancesHold

\* A step that leaves the reservations alone restocks.
LEMMA RestockStep ==
    ASSUME TypeOK', Promise!Covered', active' = active
    PROVE  Promise!Restock
BY DEF Promise!Restock, TypeOK

\* A step that only touches the reservations of one composition changes what
\* that composition holds.
LEMMA HoldStep ==
    ASSUME TypeOK', Promise!Covered', NEW L \in Composition, onHand' = onHand,
           \A h \in Line \X Batch : h[1] \notin L => active'[h] = active[h]
    PROVE  Promise!Hold(L)
<1>1. Holding(active') \in [Line -> Nat]
  BY HoldingType DEF TypeOK
<1>2. \A l \in Line \ L : Holding(active')[l] = Holding(active)[l]
  <2> SUFFICES ASSUME NEW l \in Line \ L
               PROVE  TotalOn(active', {l} \X Batch) = TotalOn(active, {l} \X Batch)
    BY DEF Holding
  <2>1. \A h \in {l} \X Batch : active'[h] = active[h]
    OBVIOUS
  <2> QED
    BY <2>1, TotalSame, Zenon
<1> QED
  BY <1>1, <1>2 DEF Promise!Hold, Holding

\* An issue takes what was asked for, and its lines end up without the items
\* issued.
LEMMA IssueStep ==
    ASSUME TypeOK, TypeOK', KeepsToItem(active), Promise!Covered', NEW d \in Doc,
           NEW L \in SUBSET Line, NEW want \in Requested, Issue(d, L, want)
    PROVE  Promise!Issue(L, want)
<1>1. want \in [Item -> Nat]
  BY IssueFacts
<1>2. PICK consumed \in Consumptions(L, want) :
        \E given \in [Batch -> Nat] : IssueTakes(d, L, want, consumed, given)
  BY IssueFacts
<1>3. /\ active' = [h \in Line \X Batch |-> IF Cleared(L, want, h) THEN 0 ELSE active[h]]
      /\ onHand' = [i \in Item |-> onHand[i] - want[i]]
  BY <1>2 DEF IssueTakes
<1>4. \A i \in Item : want[i] <= onHand[i]
  <2> SUFFICES ASSUME NEW i \in Item PROVE want[i] <= onHand[i]
    OBVIOUS
  <2>1. onHand'[i] \in Nat /\ onHand[i] \in Nat /\ want[i] \in Nat
    BY <1>1 DEF TypeOK
  <2> QED
    BY <1>3, <2>1
<1>5. \A l \in Line : Holding(active')[l]
        = IF l \in L /\ want[LineItem[l]] > 0 THEN 0 ELSE Holding(active)[l]
  <2> SUFFICES ASSUME NEW l \in Line
               PROVE  TotalOn(active', {l} \X Batch)
                        = IF l \in L /\ want[LineItem[l]] > 0 THEN 0
                          ELSE TotalOn(active, {l} \X Batch)
    BY DEF Holding
  <2>1. \A h \in {l} \X Batch :
          active'[h] = IF l \in L /\ want[LineItem[l]] > 0 THEN 0 ELSE active[h]
    <3> SUFFICES ASSUME NEW h \in {l} \X Batch
                 PROVE  active'[h] = IF l \in L /\ want[LineItem[l]] > 0
                                     THEN 0 ELSE active[h]
      OBVIOUS
    <3>1. h \in Line \X Batch /\ h[1] = l /\ active[h] \in Nat
      BY DEF TypeOK
    <3>2. active'[h] = IF l \in L /\ want[ItemOf[h[2]]] > 0 THEN 0 ELSE active[h]
      BY <1>3, <3>1 DEF Cleared
    <3>3. active[h] > 0 => LineItem[l] = ItemOf[h[2]]
      BY <3>1 DEF KeepsToItem
    <3> QED
      BY <3>1, <3>2, <3>3
  <2>2. CASE l \in L /\ want[LineItem[l]] > 0
    <3>1. \A h \in {l} \X Batch : active'[h] = 0
      BY <2>1, <2>2
    <3>2. TotalOn(active', {l} \X Batch) = 0
      BY <3>1, TotalZero, Zenon
    <3> QED
      BY <2>2, <3>2
  <2>3. CASE ~ (l \in L /\ want[LineItem[l]] > 0)
    <3>1. \A h \in {l} \X Batch : active'[h] = active[h]
      BY <2>1, <2>3
    <3>2. TotalOn(active', {l} \X Batch) = TotalOn(active, {l} \X Batch)
      BY <3>1, TotalSame, Zenon
    <3> QED
      BY <2>3, <3>2
  <2> QED
    BY <2>2, <2>3
<1>6. Holding(active') = [l \in Line |-> IF l \in L /\ want[LineItem[l]] > 0
                                         THEN 0 ELSE Holding(active)[l]]
  BY <1>5 DEF Holding
<1> QED
  BY <1>3, <1>4, <1>6 DEF Promise!Issue, Holding

\* What the refinement rests on besides the books: no balance is overdrawn and
\* no line holds anything but its item.
Sound == BalancesHold /\ KeepsToItem(active)

\* Every operation of the adapters keeps it.
LEMMA SoundNext ==
    ASSUME TypeOK, TypeOK', Sound, [Next]_vars
    PROVE  Sound'
<1>0. Composition \subseteq SUBSET Line
  BY LineAssumption
<1>1. ASSUME NEW r \in Receipt, NEW accepted \in [LinesOf(r) -> Qty], PostReceipt(r, accepted)
      PROVE  Sound'
  <2> DEFINE in == [b \in Batch |-> IF b \in LinesOf(r) THEN accepted[b] ELSE 0]
  <2>1. \A b \in Batch : in[b] \in Nat
    BY BoundAssumption DEF Qty
  <2>2. /\ onHand' = [i \in Item |-> onHand[i] + TotalOn(in, BatchesOf(i))]
        /\ reserved' = reserved /\ active' = active
    BY <1>1 DEF PostReceipt
  <2> HIDE DEF in
  <2>3. \A i \in Item : TotalOn(in, BatchesOf(i)) \in Nat
    BY <2>1, ItemTotal
  <2>4. \A i \in Item : onHand[i] \in Nat /\ reserved[i] \in Nat /\ reserved[i] <= onHand[i]
    BY DEF TypeOK, Sound, BalancesHold
  <2>5. BalancesHold'
    BY <2>2, <2>3, <2>4 DEF BalancesHold
  <2> QED
    BY <2>2, <2>5 DEF Sound
<1>2. ASSUME NEW r \in Revisable, ReverseReceipt(r)
      PROVE  Sound'
  BY <1>2 DEF ReverseReceipt, Sound
<1>3. ASSUME NEW b \in Batch, NEW next \in Qty, CorrectReceiptLine(b, next)
      PROVE  Sound'
  BY <1>3 DEF CorrectReceiptLine, Sound
<1>4. ASSUME NEW L \in Composition, Release(L)
      PROVE  Sound'
  <2>1. \A h \in Line \X Batch : active'[h] > 0 => active[h] > 0
    BY <1>4 DEF Release
  <2> QED
    BY <1>4, <2>1 DEF Release, Sound, KeepsToItem
<1>5. ASSUME NEW L \in Composition, NEW want \in [L -> Qty], Reserve(L, want)
      PROVE  Sound'
  <2>1. L \in SUBSET Line /\ \A l \in L : want[l] \in Nat
    BY <1>0, BoundAssumption DEF Qty
  <2>2. \A h \in Line \X Batch :
          Granted(L, want)[h] > 0 => h[1] \in L /\ LineItem[h[1]] = ItemOf[h[2]]
    BY <2>1, GrantedType
  <2>3. \A h \in Line \X Batch :
          active'[h] = IF h[1] \in L THEN Granted(L, want)[h] ELSE active[h]
    BY <1>5 DEF Reserve
  <2>4. KeepsToItem(active')
    BY <2>2, <2>3 DEF Sound, KeepsToItem
  <2>5. BalancesHold'
    BY <1>5 DEF Reserve
  <2> QED
    BY <2>4, <2>5 DEF Sound
<1>6. ASSUME NEW d \in Sale \cup Order, NEW L \in Composition \cup {{}},
             NEW want \in Requested, Issue(d, L, want)
      PROVE  Sound'
  <2>1. d \in Doc /\ L \in SUBSET Line
    BY <1>0 DEF Doc
  <2>2. PICK consumed \in Consumptions(L, want) :
          \E given \in [Batch -> Nat] : IssueTakes(d, L, want, consumed, given)
    BY <1>6, <2>1, IssueFacts
  <2>3. /\ BalancesHold'
        /\ active' = [h \in Line \X Batch |-> IF Cleared(L, want, h) THEN 0 ELSE active[h]]
    BY <2>2 DEF IssueTakes
  <2>4. \A h \in Line \X Batch : active'[h] > 0 => active[h] > 0
    BY <2>3
  <2> QED
    BY <2>3, <2>4 DEF Sound, KeepsToItem
<1>7. ASSUME NEW s \in Sale, ReverseIssue(s)
      PROVE  Sound'
  <2>1. /\ onHand' = [i \in Item |-> onHand[i] + TotalOn(took[s], BatchesOf(i))]
        /\ reserved' = reserved /\ active' = active
    BY <1>7 DEF ReverseIssue
  <2>2. \A b \in Batch : took[s][b] \in Nat
    BY DEF TypeOK, Doc
  <2>3. \A i \in Item : TotalOn(took[s], BatchesOf(i)) \in Nat
    BY <2>2, ItemTotal
  <2>4. \A i \in Item : onHand[i] \in Nat /\ reserved[i] \in Nat /\ reserved[i] <= onHand[i]
    BY DEF TypeOK, Sound, BalancesHold
  <2>5. BalancesHold'
    BY <2>1, <2>3, <2>4 DEF BalancesHold
  <2> QED
    BY <2>1, <2>5 DEF Sound
<1>8. ASSUME NEW w \in WriteOff, NEW want \in Requested, PostWriteOff(w, want)
      PROVE  Sound'
  BY <1>8 DEF PostWriteOff, Sound
<1>9. ASSUME NEW w \in WriteOff, ReverseWriteOff(w)
      PROVE  Sound'
  BY <1>9 DEF ReverseWriteOff, Sound
<1>10. CASE UNCHANGED vars
  BY <1>10 DEF vars, balances, Sound, BalancesHold
<1> QED
  BY <1>1, <1>2, <1>3, <1>4, <1>5, <1>6, <1>7, <1>8, <1>9, <1>10 DEF Next

(***************************************************************************)
(* The adapters keep the promise: whatever they do to batches, documents   *)
(* and movements, to a caller every transaction is one step of             *)
(* StockPromise or none.                                                   *)
(***************************************************************************)
THEOREM PromiseIsKept == Spec => KeepsPromise
<1>1. Init => Sound
  BY DEF Init, Sound, BalancesHold, KeepsToItem
<1>2. Spec => []Sound
  BY <1>1, SoundNext, TypeCorrect, PTL DEF Spec
<1>3. Init => Promise!Init
  <2> SUFFICES ASSUME Init PROVE Promise!Init
    OBVIOUS
  <2>1. \A l \in Line : TotalOn(active, {l} \X Batch) = 0
    <3> SUFFICES ASSUME NEW l \in Line PROVE TotalOn(active, {l} \X Batch) = 0
      OBVIOUS
    <3>1. \A h \in {l} \X Batch : active[h] = 0
      BY DEF Init
    <3> QED
      BY <3>1, TotalZero, Zenon
  <2>2. [l \in Line |-> TotalOn(active, {l} \X Batch)] = [l \in Line |-> 0]
    BY <2>1
  <2> QED
    BY <2>2 DEF Init, Promise!Init
<1>4. TypeOK /\ TypeOK' /\ Books' /\ Sound /\ Sound' /\ [Next]_vars
        => [Promise!Next]_<<onHand, [l \in Line |-> TotalOn(active, {l} \X Batch)]>>
  <2> SUFFICES ASSUME TypeOK, TypeOK', Books', Sound, Sound', [Next]_vars
               PROVE  \/ Promise!Next
                      \/ UNCHANGED <<onHand, active>>
    OBVIOUS
  <2>0. Promise!Covered' /\ Composition \subseteq SUBSET Line /\ KeepsToItem(active)
    BY CoveredNext, LineAssumption DEF Books, Sound
  <2>1. ASSUME NEW r \in Receipt, NEW accepted \in [LinesOf(r) -> Qty], PostReceipt(r, accepted)
        PROVE  Promise!Next
    BY <2>0, <2>1, RestockStep DEF PostReceipt, Promise!Next
  <2>2. ASSUME NEW r \in Revisable, ReverseReceipt(r)
        PROVE  Promise!Next
    BY <2>0, <2>2, RestockStep DEF ReverseReceipt, Promise!Next
  <2>3. ASSUME NEW b \in Batch, NEW next \in Qty, CorrectReceiptLine(b, next)
        PROVE  Promise!Next
    BY <2>0, <2>3, RestockStep DEF CorrectReceiptLine, Promise!Next
  <2>4. ASSUME NEW L \in Composition, Release(L)
        PROVE  Promise!Next
    <3>1. /\ \A h \in Line \X Batch : h[1] \notin L => active'[h] = active[h]
          /\ onHand' = onHand
      BY <2>4 DEF Release
    <3>2. Promise!Hold(L)
      BY <2>0, <3>1, HoldStep
    <3> QED
      BY <3>2 DEF Promise!Next
  <2>5. ASSUME NEW L \in Composition, NEW want \in [L -> Qty], Reserve(L, want)
        PROVE  Promise!Next
    <3>1. /\ \A h \in Line \X Batch : h[1] \notin L => active'[h] = active[h]
          /\ onHand' = onHand
      BY <2>5 DEF Reserve
    <3>2. Promise!Hold(L)
      BY <2>0, <3>1, HoldStep
    <3> QED
      BY <3>2 DEF Promise!Next
  <2>6. ASSUME NEW d \in Sale \cup Order, NEW L \in Composition \cup {{}},
               NEW want \in Requested, Issue(d, L, want)
        PROVE  Promise!Next
    <3>1. d \in Doc /\ L \in SUBSET Line
      BY <2>0 DEF Doc
    <3>2. Promise!Issue(L, want)
      BY <2>0, <2>6, <3>1, IssueStep
    <3> QED
      BY <3>2 DEF Promise!Next
  <2>7. ASSUME NEW s \in Sale, ReverseIssue(s)
        PROVE  Promise!Next
    BY <2>0, <2>7, RestockStep DEF ReverseIssue, Promise!Next
  <2>8. ASSUME NEW w \in WriteOff, NEW want \in Requested, PostWriteOff(w, want)
        PROVE  Promise!Next
    BY <2>0, <2>8, RestockStep DEF PostWriteOff, Promise!Next
  <2>9. ASSUME NEW w \in WriteOff, ReverseWriteOff(w)
        PROVE  Promise!Next
    BY <2>0, <2>9, RestockStep DEF ReverseWriteOff, Promise!Next
  <2>10. CASE UNCHANGED vars
    BY <2>10 DEF vars, balances
  <2> QED
    BY <2>1, <2>2, <2>3, <2>4, <2>5, <2>6, <2>7, <2>8, <2>9, <2>10 DEF Next
<1> QED
  BY <1>2, <1>3, <1>4, TypeCorrect, BooksBalance, PTL DEF Spec, KeepsPromise, Promise!Spec

=============================================================================
