------------------------ MODULE OrderFulfilmentProofs ------------------------
(***************************************************************************)
(* Proofs about OrderFulfilment, for any orders, lines, items and sales,   *)
(* however often orders are edited, handed over, sold and annulled, and    *)
(* about FulfilmentRace, for any number of requests that overlap.          *)
(*                                                                         *)
(* What is promised is there because the lines of a composition are of     *)
(* different items: each gets what is free of its item, so together they   *)
(* get no more.  A bouquet leaves once because a sale that is COMPLETED    *)
(* has something out, and one that is not has nothing: a sale that is      *)
(* annulled takes back just what the hand-over of its order had issued.    *)
(***************************************************************************)
EXTENDS FulfilmentRace, QuantitiesProofs, FiniteSetTheorems, TLAPS

\* The lines of one item, and those of them that are not in L.
LinesOf(i) == {l \in Line : LineItem[l] = i}
LinesOutside(L, i) == {l \in Line \ L : LineItem[l] = i}

\* All holds h of an item are covered by the stock s.
Fits(h, s) == \A i \in Item : TotalOn(h, LinesOf(i)) <= s[i]

HoldsAreOrdered == \A l \in Line : hold[l] <= LineQty[l]

OneItemEach == \A o \in Order : OneLinePerItem(Current(o))

\* Of all documents that hand order o over only d, at most, has anything out.
Issuers(o) == {o} \cup SalesOf(o)
OnlyOne(o, d) == \A e \in Issuers(o) : e # d => issued[e] = NoUnits

Issues(o) ==
    IF status[o] = "COMPLETED"
    THEN actual[o] # NoUnits /\ \E d \in Issuers(o) : issued[d] = actual[o] /\ OnlyOne(o, d)
    ELSE \A e \in Issuers(o) : issued[e] = NoUnits

SalesIssue ==
    \A s \in Sale : /\ sale[s] = "COMPLETED" <=> issued[s] # NoUnits
                    /\ SaleOrder[s] = Counter /\ sale[s] # "NONE" => content[s] # NoUnits

OneActiveSale == \A o \in Order : \A s, t \in ActiveSales(o) : s = t

IInv ==
    /\ TypeOK
    /\ Fits(hold, stock)
    /\ HoldsAreOrdered
    /\ ClosedReleasesComposition
    /\ OneItemEach
    /\ \A o \in Order : Issues(o)
    /\ SalesIssue
    /\ OneActiveSale

-----------------------------------------------------------------------------
\* Holds.

LEMMA CoveredMeansFits ==
    /\ Inventory!Covered <=> Fits(hold, stock)
    /\ Inventory!Covered' <=> Fits(hold', stock')
<1>1. \A f, S : Inventory!TotalOn(f, S) = TotalOn(f, S)
  BY DEF Inventory!TotalOn, Inventory!Units, Inventory!Cardinality, TotalOn, Units, Cardinality
<1>2. \A i \in Item : Inventory!LinesFor(i) = LinesOf(i)
  BY DEF Inventory!LinesFor, LinesOf
<1> QED
  BY <1>1, <1>2, Zenon DEF Inventory!Covered, Fits

LEMMA LinesFinite ==
    ASSUME NEW S, S \subseteq Line, NEW h, h \in [Line -> Nat]
    PROVE  IsFiniteSet(S) /\ TotalOn(h, S) \in Nat
<1>1. IsFiniteSet(S)
  BY LineAssumption, FS_Subset
<1>2. \A l \in S : h[l] \in Nat
  OBVIOUS
<1> QED
  BY <1>1, <1>2, TotalNat

LEMMA GrantedType ==
    ASSUME hold \in [Line -> Nat], NEW units, units \in [Item -> Nat], NEW L, L \subseteq Line,
           NEW held, held = Granted(units, L)
    PROVE  /\ held \in [Line -> Nat]
           /\ \A l \in Line \ L : held[l] = hold[l]
           /\ \A l \in L : /\ held[l] <= LineQty[l]
                           /\ held[l] <= Monus(units[LineItem[l]], HeldByOthers(L, LineItem[l]))
<1>1. \A i : HeldByOthers(L, i) \in Nat
  BY LinesFinite DEF HeldByOthers
<1>2. \A l \in Line : /\ LineQty[l] \in Nat /\ units[LineItem[l]] \in Nat
                      /\ Monus(units[LineItem[l]], HeldByOthers(L, LineItem[l])) \in Nat
  BY <1>1, LineAssumption DEF Monus
<1> QED
  BY <1>2 DEF Granted, Least

\* What lines are granted is there, since none of them is of the same item.
LEMMA GrantedFits ==
    ASSUME hold \in [Line -> Nat], NEW units, units \in [Item -> Nat], NEW L, L \subseteq Line,
           OneLinePerItem(L), Fits(hold, units), NEW held, held = Granted(units, L)
    PROVE  Fits(held, units)
<1> SUFFICES ASSUME NEW i \in Item PROVE TotalOn(held, LinesOf(i)) <= units[i]
  BY DEF Fits
<1> DEFINE out == LinesOutside(L, i)
           own == {l \in L : LineItem[l] = i}
           others == HeldByOthers(L, i)
<1>1. /\ held \in [Line -> Nat]
      /\ \A l \in Line \ L : held[l] = hold[l]
      /\ \A l \in L : held[l] <= Monus(units[LineItem[l]], HeldByOthers(L, LineItem[l]))
  BY GrantedType
<1>2. /\ LinesOf(i) = own \cup out /\ own \cap out = {} /\ own \subseteq Line /\ out \subseteq Line
      /\ out \subseteq LinesOf(i) /\ LinesOf(i) \subseteq Line
  BY DEF LinesOf, LinesOutside
<1>3. others = TotalOn(hold, out)
  BY DEF HeldByOthers, LinesOutside
<1>4. \A l \in out : held[l] = hold[l]
  BY <1>1 DEF LinesOutside
<1>5. \A l \in own : held[l] <= Monus(units[i], others)
  BY <1>1
<1>6. own = {} \/ \E l \in own : own = {l}
  BY DEF OneLinePerItem
<1> HIDE DEF out, own, others
<1>7. /\ IsFiniteSet(out) /\ IsFiniteSet(own) /\ IsFiniteSet(LinesOf(i))
      /\ TotalOn(hold, out) \in Nat /\ TotalOn(held, out) \in Nat /\ TotalOn(held, own) \in Nat
      /\ TotalOn(hold, LinesOf(i)) \in Nat
  BY <1>1, <1>2, LinesFinite
<1>8. TotalOn(held, LinesOf(i)) = TotalOn(held, own) + TotalOn(held, out)
  <2>1. \A l \in own \cup out : held[l] \in Nat
    BY <1>1, <1>2
  <2> QED
    BY <1>2, <1>7, <2>1, TotalSplit, Zenon
<1>9. TotalOn(held, out) = others
  BY <1>3, <1>4, TotalSame, Zenon
<1>10. others <= units[i]
  <2>1. \A l \in LinesOf(i) : hold[l] \in Nat
    BY <1>2
  <2>2. \A l \in out : hold[l] <= hold[l]
    BY <1>2
  <2>3. TotalOn(hold, out) <= TotalOn(hold, LinesOf(i))
    BY <1>2, <1>7, <2>1, <2>2, TotalMono
  <2>4. TotalOn(hold, LinesOf(i)) <= units[i]
    BY DEF Fits
  <2> QED
    BY <1>3, <1>7, <2>3, <2>4
<1>11. TotalOn(held, own) <= Monus(units[i], others)
  <2>1. Monus(units[i], others) \in Nat
    BY <1>3, <1>7 DEF Monus
  <2>2. CASE own = {}
    <3>1. TotalOn(held, own) = 0
      BY <2>2, TotalZero
    <3> QED
      BY <2>1, <3>1
  <2>3. CASE \E l \in own : own = {l}
    <3>1. PICK l \in own : own = {l}
      BY <2>3
    <3>2. TotalOn(held, own) = held[l]
      BY <1>1, <1>2, <3>1, TotalSingle
    <3> QED
      BY <1>5, <3>2
  <2> QED
    BY <1>6, <2>2, <2>3
<1> QED
  BY <1>3, <1>7, <1>8, <1>9, <1>10, <1>11 DEF Monus

\* Fewer holds fit as well.
LEMMA LessFits ==
    ASSUME NEW h, NEW k, NEW s, h \in [Line -> Nat], k \in [Line -> Nat], s \in [Item -> Nat],
           \A l \in Line : k[l] <= h[l], Fits(h, s)
    PROVE  Fits(k, s)
<1> SUFFICES ASSUME NEW i \in Item PROVE TotalOn(k, LinesOf(i)) <= s[i]
  BY DEF Fits
<1> DEFINE S == LinesOf(i)
<1>1. S \subseteq Line
  BY DEF LinesOf
<1>2. TotalOn(h, S) <= s[i]
  BY DEF Fits
<1> HIDE DEF S
<1>3. IsFiniteSet(S) /\ TotalOn(h, S) \in Nat /\ TotalOn(k, S) \in Nat
  BY <1>1, LinesFinite
<1>4. TotalOn(k, S) <= TotalOn(h, S)
  BY <1>1, <1>3, TotalMono
<1> QED
  BY <1>2, <1>3, <1>4 DEF S


LEMMA NoUnitsType == NoUnits \in [Item -> Nat]
BY DEF NoUnits

\* What an issue does to the stock, the holds and the movements.
LEMMA IssueEffect ==
    ASSUME TypeOK, NEW d \in Document, NEW L, NEW want, want \in [Item -> Nat],
           IssueFor(d, L, want)
    PROVE  /\ stock' \in [Item -> Nat]
           /\ hold' \in [Line -> Nat]
           /\ \A l \in Line : hold'[l] = IF l \in L /\ want[LineItem[l]] > 0 THEN 0 ELSE hold[l]
           /\ Fits(hold', stock')
           /\ issued' \in [Document -> [Item -> Nat]]
           /\ issued[d] = NoUnits => issued'[d] = want
           /\ \A e \in Document : e # d => issued'[e] = issued[e]
<1>1. /\ \A i \in Item : want[i] <= stock[i]
      /\ stock' = [i \in Item |-> stock[i] - want[i]]
      /\ hold' = [l \in Line |-> IF l \in L /\ want[LineItem[l]] > 0 THEN 0 ELSE hold[l]]
      /\ Inventory!Covered'
      /\ issued' = [issued EXCEPT ![d] = [i \in Item |-> issued[d][i] + want[i]]]
  BY DEF IssueFor, Inventory!Issue
<1>2. /\ stock \in [Item -> Nat] /\ hold \in [Line -> Nat]
      /\ issued \in [Document -> [Item -> Nat]]
  BY DEF TypeOK
<1>3. stock' \in [Item -> Nat]
  BY <1>1, <1>2
<1>4. /\ hold' \in [Line -> Nat]
      /\ \A l \in Line : hold'[l] = IF l \in L /\ want[LineItem[l]] > 0 THEN 0 ELSE hold[l]
  BY <1>1, <1>2
<1>5. Fits(hold', stock')
  BY <1>1, CoveredMeansFits
<1> DEFINE sum == [i \in Item |-> issued[d][i] + want[i]]
<1>6. sum \in [Item -> Nat] /\ (issued[d] = NoUnits => sum = want)
  BY <1>2 DEF NoUnits
<1>7. issued' = [issued EXCEPT ![d] = sum]
  BY <1>1
<1> HIDE DEF sum
<1>8. /\ issued' \in [Document -> [Item -> Nat]] /\ issued'[d] = sum
      /\ \A e \in Document : e # d => issued'[e] = issued[e]
  BY <1>2, <1>6, <1>7
<1> QED
  BY <1>3, <1>4, <1>5, <1>6, <1>8

\* What s had issued comes back.
LEMMA BackEffect ==
    ASSUME TypeOK, NEW s \in Sale, GiveBack(s, issued[s])
    PROVE  /\ stock' \in [Item -> Nat]
           /\ \A i \in Item : stock[i] <= stock'[i]
           /\ issued' \in [Document -> [Item -> Nat]]
           /\ issued'[s] = NoUnits
           /\ \A e \in Document : e # s => issued'[e] = issued[e]
           /\ sale' = [sale EXCEPT ![s] = IF sale[s] = "COMPLETED" THEN "ANNULLED" ELSE sale[s]]
<1>1. /\ stock' = [i \in Item |-> stock[i] + issued[s][i]]
      /\ issued' = [issued EXCEPT ![s] = [i \in Item |-> issued[s][i] - issued[s][i]]]
      /\ sale' = [sale EXCEPT ![s] = IF sale[s] = "COMPLETED" THEN "ANNULLED" ELSE sale[s]]
  BY DEF GiveBack, Turn
<1>2. stock \in [Item -> Nat] /\ issued \in [Document -> [Item -> Nat]] /\ s \in Document
  BY DEF TypeOK, Document
<1>3. [i \in Item |-> issued[s][i] - issued[s][i]] = NoUnits
  BY <1>2 DEF NoUnits
<1>4. /\ issued' \in [Document -> [Item -> Nat]] /\ issued'[s] = NoUnits
      /\ \A e \in Document : e # s => issued'[e] = issued[e]
  BY <1>1, <1>2, <1>3, NoUnitsType
<1> QED
  BY <1>1, <1>2, <1>4

-----------------------------------------------------------------------------
LEMMA InitInv == Init => IInv
<1> SUFFICES ASSUME Init PROVE IInv
  OBVIOUS
<1>1. TypeOK
  BY NoUnitsType DEF Init, TypeOK, OrderStatus, SaleStatus
<1>2. Fits(hold, stock)
  <2> SUFFICES ASSUME NEW i \in Item PROVE TotalOn(hold, LinesOf(i)) <= stock[i]
    BY DEF Fits
  <2>1. \A l \in LinesOf(i) : hold[l] = 0
    BY DEF Init, LinesOf
  <2>2. TotalOn(hold, LinesOf(i)) = 0
    BY <2>1, TotalZero
  <2> QED
    BY <2>2 DEF Init, NoUnits
<1>3. HoldsAreOrdered /\ ClosedReleasesComposition
  BY LineAssumption DEF Init, HoldsAreOrdered, ClosedReleasesComposition
<1>4. OneItemEach
  BY DEF Init, OneItemEach, Current, OneLinePerItem
<1>5. \A o \in Order : Issues(o)
  BY DEF Init, Issues, Issuers, SalesOf, Document
<1>6. SalesIssue
  BY DEF Init, SalesIssue, Document
<1>7. OneActiveSale
  BY DEF Init, OneActiveSale, ActiveSales
<1> QED
  BY <1>1, <1>2, <1>3, <1>4, <1>5, <1>6, <1>7 DEF IInv

-----------------------------------------------------------------------------
(***************************************************************************)
(* The steps that leave the composition, the sales and the movements alone *)
(* and the order open: they may reserve for its lines and record a         *)
(* composition.                                                            *)
(***************************************************************************)
LEMMA OpenStep ==
    ASSUME IInv, NEW o \in Order, TypeOK',
           status[o] # "COMPLETED", status'[o] \notin {"COMPLETED", "CANCELLED"},
           \A p \in Order : p # o => status'[p] = status[p] /\ actual'[p] = actual[p],
           Fits(hold', stock'), HoldsAreOrdered',
           \A l \in Line : l \notin Current(o) => hold'[l] = hold[l],
           UNCHANGED <<line, sale, content, issued>>
    PROVE  IInv'
<1>1. ClosedReleasesComposition'
  <2> SUFFICES ASSUME NEW l \in Line,
                      \/ line[l] = "NEW"
                      \/ line[l] = "CURRENT" /\ status'[LineOrder[l]] = "CANCELLED"
                      \/ line[l] = "CURRENT" /\ status'[LineOrder[l]] = "COMPLETED"
                         /\ actual'[LineOrder[l]][LineItem[l]] > 0
               PROVE  hold'[l] = 0
    BY DEF ClosedReleasesComposition
  <2>1. LineOrder[l] \in Order
    BY LineAssumption
  <2>2. l \notin Current(o)
    BY <2>1 DEF Current
  <2>3. hold'[l] = hold[l]
    BY <2>2
  <2>4. CASE line[l] = "NEW"
    BY <2>3, <2>4 DEF IInv, ClosedReleasesComposition
  <2>5. CASE line[l] = "CURRENT" /\ LineOrder[l] # o
    <3>1. /\ status'[LineOrder[l]] = status[LineOrder[l]]
          /\ actual'[LineOrder[l]] = actual[LineOrder[l]]
      BY <2>1, <2>5
    <3> QED
      BY <2>3, <2>5, <3>1 DEF IInv, ClosedReleasesComposition
  <2> QED
    BY <2>4, <2>5
<1>2. OneItemEach'
  BY DEF IInv, OneItemEach, Current, OneLinePerItem
<1>3. ASSUME NEW p \in Order PROVE Issues(p)'
  <2>1. Issues(p)
    BY DEF IInv
  <2>2. CASE p = o
    BY <2>1, <2>2 DEF Issues, Issuers, SalesOf
  <2>3. CASE p # o
    BY <2>1, <2>3 DEF Issues, Issuers, SalesOf, OnlyOne
  <2> QED
    BY <2>2, <2>3
<1>4. SalesIssue' /\ OneActiveSale'
  BY DEF IInv, SalesIssue, OneActiveSale, ActiveSales
<1> QED
  BY <1>1, <1>2, <1>3, <1>4 DEF IInv

\* An order that takes no part in a step.
LEMMA QuietStep ==
    ASSUME IInv, TypeOK', Fits(hold', stock'),
           UNCHANGED <<hold, line, status, actual, sale, content, issued>>
    PROVE  IInv'
<1>1. ClosedReleasesComposition' /\ HoldsAreOrdered'
  BY DEF IInv, ClosedReleasesComposition, HoldsAreOrdered
<1>2. OneItemEach'
  BY DEF IInv, OneItemEach, Current, OneLinePerItem
<1>3. ASSUME NEW p \in Order PROVE Issues(p)'
  BY DEF IInv, Issues, Issuers, SalesOf, OnlyOne
<1>4. SalesIssue' /\ OneActiveSale'
  BY DEF IInv, SalesIssue, OneActiveSale, ActiveSales
<1> QED
  BY <1>1, <1>2, <1>3, <1>4 DEF IInv

LEMMA ArriveStep == ASSUME IInv, NEW i \in Item, Arrive(i) PROVE IInv'
<1>1. stock' \in [Item -> Nat] /\ \A j \in Item : stock[j] <= stock'[j]
  BY DEF IInv, TypeOK, Arrive
<1>2. UNCHANGED <<hold, line, status, actual, frozen, version, assigned, sale, content, issued>>
  BY DEF Arrive, orderVars, saleVars
<1>3. TypeOK'
  BY <1>1, <1>2 DEF IInv, TypeOK
<1>4. Fits(hold', stock')
  <2> SUFFICES ASSUME NEW j \in Item PROVE TotalOn(hold', LinesOf(j)) <= stock'[j]
    BY DEF Fits
  <2>1. TotalOn(hold, LinesOf(j)) <= stock[j]
    BY DEF IInv, Fits
  <2>2. TotalOn(hold, LinesOf(j)) \in Nat
    BY LinesFinite DEF IInv, TypeOK, LinesOf
  <2>3. stock[j] \in Nat /\ stock'[j] \in Nat /\ stock[j] <= stock'[j]
    BY <1>1 DEF IInv, TypeOK
  <2> QED
    BY <1>2, <2>1, <2>2, <2>3
<1> QED
  BY <1>2, <1>3, <1>4, QuietStep

\* The assignment of a florist, and its end.
LEMMA AssignStep ==
    ASSUME IInv, NEW o \in Order, Assign(o, View(o)) \/ ReleaseAssignment(o)
    PROVE  IInv'
<1>1. /\ assigned' \in [Order -> BOOLEAN]
      /\ UNCHANGED <<stock, hold, line, status, actual, frozen, version, sale, content, issued>>
  BY DEF IInv, TypeOK, Assign, ReleaseAssignment, stockVars, saleVars
<1>2. TypeOK'
  BY <1>1 DEF IInv, TypeOK
<1>3. Fits(hold', stock')
  BY <1>1 DEF IInv
<1> QED
  BY <1>1, <1>2, <1>3, QuietStep

LEMMA CreateStep == ASSUME IInv, NEW o \in Order, CreateOrder(o) PROVE IInv'
<1>1. /\ status[o] = "NONE"
      /\ status' = [status EXCEPT ![o] = "CONFIRMED"]
      /\ UNCHANGED <<stock, hold, line, actual, frozen, version, assigned, sale, content, issued>>
  BY DEF CreateOrder, stockVars, saleVars
<1>2. TypeOK'
  BY <1>1 DEF IInv, TypeOK, OrderStatus
<1>3. Fits(hold', stock') /\ HoldsAreOrdered'
  BY <1>1 DEF IInv, HoldsAreOrdered
<1>4. /\ status'[o] = "CONFIRMED"
      /\ \A p \in Order : p # o => status'[p] = status[p] /\ actual'[p] = actual[p]
  BY <1>1 DEF IInv, TypeOK
<1> QED
  BY <1>1, <1>2, <1>3, <1>4, OpenStep

\* What an order reserves for its composition is there, and nobody else loses.
LEMMA ReservedFits ==
    ASSUME IInv, NEW o \in Order, NEW held, held = Granted(stock, Current(o))
    PROVE  /\ held \in [Line -> Nat]
           /\ Fits(held, stock)
           /\ \A l \in Line : held[l] <= LineQty[l]
           /\ \A l \in Line : l \notin Current(o) => held[l] = hold[l]
<1>1. /\ hold \in [Line -> Nat] /\ stock \in [Item -> Nat] /\ Current(o) \subseteq Line
      /\ OneLinePerItem(Current(o)) /\ Fits(hold, stock)
      /\ \A l \in Line : hold[l] <= LineQty[l]
  BY DEF IInv, TypeOK, OneItemEach, HoldsAreOrdered, Current
<1>2. /\ held \in [Line -> Nat]
      /\ \A l \in Line \ Current(o) : held[l] = hold[l]
      /\ \A l \in Current(o) : held[l] <= LineQty[l]
  BY <1>1, GrantedType
<1>3. Fits(held, stock)
  BY <1>1, GrantedFits
<1> QED
  BY <1>1, <1>2, <1>3

LEMMA OutcomeType ==
    ASSUME NEW L, NEW held
    PROVE  Outcome(L, held) \in {"RESERVED", "PARTIALLY_RESERVED", "CONFIRMED"}
BY DEF Outcome

LEMMA SeedType == ASSUME NEW L, L \subseteq Line PROVE Seed(L) \in [Item -> Nat]
<1> SUFFICES ASSUME NEW i \in Item PROVE TotalOn(LineQty, {l \in L : LineItem[l] = i}) \in Nat
  BY DEF Seed
<1>1. LineQty \in [Line -> Nat]
  BY LineAssumption
<1> QED
  BY <1>1, LinesFinite

LEMMA ReserveStep == ASSUME IInv, NEW o \in Order, ReserveOrder(o, View(o)) PROVE IInv'
<1> DEFINE held == Granted(stock, Current(o))
           found == Outcome(Current(o), held)
<1>1. /\ status[o] \in {"CONFIRMED", "PARTIALLY_RESERVED", "RESERVED"}
      /\ hold' = held
      /\ status' = [status EXCEPT ![o] = found]
      /\ UNCHANGED <<stock, line, actual, frozen, version, assigned, sale, content, issued>>
  BY DEF ReserveOrder, CanReserve, View, saleVars
<1>2. /\ held \in [Line -> Nat] /\ Fits(held, stock)
      /\ \A l \in Line : held[l] <= LineQty[l]
      /\ \A l \in Line : l \notin Current(o) => held[l] = hold[l]
  BY ReservedFits
<1>3. found \in {"RESERVED", "PARTIALLY_RESERVED", "CONFIRMED"}
  BY OutcomeType
<1> HIDE DEF held, found
<1>4. TypeOK'
  BY <1>1, <1>2, <1>3 DEF IInv, TypeOK, OrderStatus
<1>5. Fits(hold', stock') /\ HoldsAreOrdered'
  BY <1>1, <1>2 DEF HoldsAreOrdered
<1>6. /\ status'[o] = found
      /\ \A p \in Order : p # o => status'[p] = status[p] /\ actual'[p] = actual[p]
  BY <1>1 DEF IInv, TypeOK
<1>7. \A l \in Line : l \notin Current(o) => hold'[l] = hold[l]
  BY <1>1, <1>2
<1> QED
  BY <1>1, <1>3, <1>4, <1>5, <1>6, <1>7, OpenStep

LEMMA AssembleStep == ASSUME IInv, NEW o \in Order, AssembleOrder(o, View(o)) PROVE IInv'
<1> DEFINE retry == status[o] \in {"CONFIRMED", "PARTIALLY_RESERVED"}
           held == IF retry THEN Granted(stock, Current(o)) ELSE hold
           found == IF retry THEN Outcome(Current(o), held) ELSE status[o]
           next == IF found = "CONFIRMED" THEN found ELSE "READY"
           seed == Seed(Current(o))
<1>1. /\ status[o] \in {"CONFIRMED", "PARTIALLY_RESERVED", "RESERVED", "IN_PREPARATION"}
      /\ hold' = held
      /\ status' = [status EXCEPT ![o] = next]
      /\ frozen' = [frozen EXCEPT ![o] = found # "CONFIRMED"]
      /\ actual' = IF found \in {"RESERVED", "PARTIALLY_RESERVED"}
                   THEN [actual EXCEPT ![o] = seed] ELSE actual
      /\ UNCHANGED <<stock, line, version, assigned, sale, content, issued>>
  BY DEF AssembleOrder, CanAssemble, View, saleVars
<1>2. /\ held \in [Line -> Nat] /\ Fits(held, stock)
      /\ \A l \in Line : held[l] <= LineQty[l]
      /\ \A l \in Line : l \notin Current(o) => held[l] = hold[l]
  <2>1. CASE retry
    BY <2>1, ReservedFits
  <2>2. CASE ~retry
    BY <2>2 DEF IInv, TypeOK, HoldsAreOrdered
  <2> QED
    BY <2>1, <2>2
<1>3. next \in {"CONFIRMED", "READY"}
  OBVIOUS
<1>4. seed \in [Item -> Nat]
  BY SeedType DEF Current
<1>5. frozen' \in [Order -> BOOLEAN]
  BY <1>1 DEF IInv, TypeOK
<1>6. /\ actual' \in [Order -> [Item -> Nat]]
      /\ \A p \in Order : p # o => actual'[p] = actual[p]
  BY <1>1, <1>4 DEF IInv, TypeOK
<1> HIDE DEF held, found, next, seed
<1>7. TypeOK'
  BY <1>1, <1>2, <1>3, <1>5, <1>6 DEF IInv, TypeOK, OrderStatus
<1>8. Fits(hold', stock') /\ HoldsAreOrdered'
  BY <1>1, <1>2 DEF HoldsAreOrdered
<1>9. status'[o] = next /\ \A p \in Order : p # o => status'[p] = status[p]
  BY <1>1 DEF IInv, TypeOK
<1>10. \A l \in Line : l \notin Current(o) => hold'[l] = hold[l]
  BY <1>1, <1>2
<1> QED
  BY <1>1, <1>3, <1>6, <1>7, <1>8, <1>9, <1>10, OpenStep

LEMMA StartStep == ASSUME IInv, NEW o \in Order, StartPreparation(o, View(o)) PROVE IInv'
<1> DEFINE seed == Seed(Current(o))
<1>1. /\ status[o] \in {"RESERVED", "PARTIALLY_RESERVED"}
      /\ actual' = [actual EXCEPT ![o] = seed]
      /\ status' = [status EXCEPT ![o] = "IN_PREPARATION"]
      /\ UNCHANGED <<stock, hold, line, frozen, version, assigned, sale, content, issued>>
  BY DEF StartPreparation, CanStartPreparation, View, stockVars, saleVars
<1>2. seed \in [Item -> Nat]
  BY SeedType DEF Current
<1> HIDE DEF seed
<1>3. TypeOK'
  BY <1>1, <1>2 DEF IInv, TypeOK, OrderStatus
<1>4. Fits(hold', stock') /\ HoldsAreOrdered'
  BY <1>1 DEF IInv, HoldsAreOrdered
<1>5. /\ status'[o] = "IN_PREPARATION"
      /\ \A p \in Order : p # o => status'[p] = status[p] /\ actual'[p] = actual[p]
  BY <1>1 DEF IInv, TypeOK
<1> QED
  BY <1>1, <1>3, <1>4, <1>5, OpenStep

LEMMA UpdateStep ==
    ASSUME IInv, NEW o \in Order, NEW c \in Content, UpdateActualComposition(o, View(o), c)
    PROVE  IInv'
<1>1. /\ status[o] = "IN_PREPARATION"
      /\ version' = [version EXCEPT ![o] = version[o] + 1]
      /\ actual' = [actual EXCEPT ![o] = c]
      /\ UNCHANGED <<stock, hold, line, status, frozen, assigned, sale, content, issued>>
  BY DEF UpdateActualComposition, CanEditActual, View, stockVars, saleVars
<1>2. c \in [Item -> Nat]
  BY ContentAssumption
<1>3. TypeOK'
  BY <1>1, <1>2 DEF IInv, TypeOK
<1>4. Fits(hold', stock') /\ HoldsAreOrdered'
  BY <1>1 DEF IInv, HoldsAreOrdered
<1>5. \A p \in Order : p # o => status'[p] = status[p] /\ actual'[p] = actual[p]
  BY <1>1 DEF IInv, TypeOK
<1> QED
  BY <1>1, <1>3, <1>4, <1>5, OpenStep

LEMMA ReadyStep == ASSUME IInv, NEW o \in Order, MarkReady(o, View(o)) PROVE IInv'
<1>1. /\ status[o] = "IN_PREPARATION"
      /\ frozen' = [frozen EXCEPT ![o] = TRUE]
      /\ status' = [status EXCEPT ![o] = "READY"]
      /\ UNCHANGED <<stock, hold, line, actual, version, assigned, sale, content, issued>>
  BY DEF MarkReady, CanMarkReady, View, stockVars, saleVars
<1>2. TypeOK'
  BY <1>1 DEF IInv, TypeOK, OrderStatus
<1>3. Fits(hold', stock') /\ HoldsAreOrdered'
  BY <1>1 DEF IInv, HoldsAreOrdered
<1>4. /\ status'[o] = "READY"
      /\ \A p \in Order : p # o => status'[p] = status[p] /\ actual'[p] = actual[p]
  BY <1>1 DEF IInv, TypeOK
<1> QED
  BY <1>1, <1>2, <1>3, <1>4, OpenStep

-----------------------------------------------------------------------------
\* Editing the composition: rows of the order come and go, nothing else.
LEMMA ReplaceStep ==
    ASSUME IInv, NEW o \in Order, CanEdit(View(o)), NEW L, ReplaceLines(o, L),
           \A l \in L : l \in Line /\ LineOrder[l] = o
    PROVE  IInv'
<1>1. /\ status[o] \in {"CONFIRMED", "PARTIALLY_RESERVED", "RESERVED"}
      /\ OneLinePerItem(L)
      /\ line' = [l \in Line |->
            IF l \in L THEN "CURRENT"
            ELSE IF LineOrder[l] = o /\ line[l] = "CURRENT" THEN "GONE" ELSE line[l]]
      /\ UNCHANGED <<stock, hold, status, actual, frozen, version, assigned, sale, content, issued>>
  BY DEF ReplaceLines, CanEdit, View, stockVars, saleVars
<1>2. TypeOK'
  BY <1>1 DEF IInv, TypeOK
<1>3. Fits(hold', stock') /\ HoldsAreOrdered'
  BY <1>1 DEF IInv, HoldsAreOrdered
<1>4. ClosedReleasesComposition'
  <2> SUFFICES ASSUME NEW l \in Line,
                      \/ line'[l] = "NEW"
                      \/ line'[l] = "CURRENT" /\ status[LineOrder[l]] = "CANCELLED"
                      \/ line'[l] = "CURRENT" /\ status[LineOrder[l]] = "COMPLETED"
                         /\ actual[LineOrder[l]][LineItem[l]] > 0
               PROVE  hold[l] = 0
    BY <1>1 DEF ClosedReleasesComposition
  <2>1. LineOrder[l] # o \/ line'[l] = "NEW"
    BY <1>1
  <2>2. l \notin L /\ line'[l] = line[l]
    BY <1>1, <2>1
  <2> QED
    BY <2>2 DEF IInv, ClosedReleasesComposition
<1>5. ASSUME NEW p \in Order PROVE OneLinePerItem(Current(p)')
  <2>1. CASE p = o
    <3>1. Current(p)' \subseteq L
      BY <1>1, <2>1 DEF Current
    <3> QED
      BY <1>1, <3>1 DEF OneLinePerItem
  <2>2. CASE p # o
    <3>1. Current(p)' = Current(p)
      BY <1>1, <2>2 DEF Current
    <3> QED
      BY <3>1 DEF IInv, OneItemEach
  <2> QED
    BY <2>1, <2>2
<1>6. OneItemEach'
  BY <1>5 DEF OneItemEach, OneLinePerItem
<1>7. ASSUME NEW p \in Order PROVE Issues(p)'
  BY <1>1 DEF IInv, Issues, Issuers, SalesOf, OnlyOne
<1>8. SalesIssue' /\ OneActiveSale'
  BY <1>1 DEF IInv, SalesIssue, OneActiveSale, ActiveSales
<1> QED
  BY <1>2, <1>3, <1>4, <1>6, <1>7, <1>8 DEF IInv

LEMMA EditStep ==
    ASSUME IInv, NEW o \in Order,
           \/ \E L \in SUBSET New(o) : SetPlannedComposition(o, View(o), L)
           \/ \E l \in New(o) : AddCompositionItem(o, View(o), l)
           \/ \E l \in Current(o) : RemoveCompositionItem(o, View(o), l)
    PROVE  IInv'
<1>1. ASSUME NEW L \in SUBSET New(o), SetPlannedComposition(o, View(o), L) PROVE IInv'
  <2>1. CanEdit(View(o)) /\ ReplaceLines(o, L) /\ \A l \in L : l \in Line /\ LineOrder[l] = o
    BY <1>1 DEF SetPlannedComposition, New
  <2> QED
    BY <2>1, ReplaceStep
<1>2. ASSUME NEW l \in New(o), AddCompositionItem(o, View(o), l) PROVE IInv'
  <2> DEFINE L == {m \in Current(o) : LineItem[m] # LineItem[l]} \cup {l}
  <2>1. CanEdit(View(o)) /\ ReplaceLines(o, L)
    BY <1>2 DEF AddCompositionItem, View
  <2>2. \A m \in L : m \in Line /\ LineOrder[m] = o
    BY DEF New, Current
  <2> HIDE DEF L
  <2> QED
    BY <2>1, <2>2, ReplaceStep
<1>3. ASSUME NEW l \in Current(o), RemoveCompositionItem(o, View(o), l) PROVE IInv'
  <2> DEFINE L == Current(o) \ {l}
  <2>1. CanEdit(View(o)) /\ ReplaceLines(o, L)
    BY <1>3 DEF RemoveCompositionItem, View
  <2>2. \A m \in L : m \in Line /\ LineOrder[m] = o
    BY DEF Current
  <2> HIDE DEF L
  <2> QED
    BY <2>1, <2>2, ReplaceStep
<1> QED
  BY <1>1, <1>2, <1>3

-----------------------------------------------------------------------------
LEMMA CancelStep == ASSUME IInv, NEW o \in Order, CancelOrder(o, View(o)) PROVE IInv'
<1>1. /\ status[o] # "COMPLETED"
      /\ hold' = [l \in Line |-> IF l \in Current(o) THEN 0 ELSE hold[l]]
      /\ assigned' = [assigned EXCEPT ![o] = @ /\ ~assigned[o]]
      /\ status' = [status EXCEPT ![o] = "CANCELLED"]
      /\ UNCHANGED <<stock, line, actual, frozen, version, sale, content, issued>>
  BY DEF CancelOrder, CanCancel, View, saleVars
<1>2. /\ hold \in [Line -> Nat] /\ hold' \in [Line -> Nat]
      /\ \A l \in Line : hold'[l] <= hold[l]
  BY <1>1 DEF IInv, TypeOK
<1>3. assigned' \in [Order -> BOOLEAN]
  BY <1>1 DEF IInv, TypeOK
<1>4. /\ status' \in [Order -> OrderStatus] /\ status'[o] = "CANCELLED"
      /\ \A p \in Order : p # o => status'[p] = status[p]
  BY <1>1 DEF IInv, TypeOK, OrderStatus
<1>5. TypeOK'
  BY <1>1, <1>2, <1>3, <1>4 DEF IInv, TypeOK
<1>6. Fits(hold', stock')
  <2>1. stock \in [Item -> Nat] /\ Fits(hold, stock)
    BY DEF IInv, TypeOK
  <2>2. Fits(hold', stock)
    BY <1>2, <2>1, LessFits
  <2> QED
    BY <1>1, <2>2
<1>7. HoldsAreOrdered'
  BY <1>1, <1>2, LineAssumption DEF IInv, HoldsAreOrdered
<1>8. ClosedReleasesComposition'
  <2> SUFFICES ASSUME NEW l \in Line,
                      \/ line[l] = "NEW"
                      \/ line[l] = "CURRENT" /\ status'[LineOrder[l]] = "CANCELLED"
                      \/ line[l] = "CURRENT" /\ status'[LineOrder[l]] = "COMPLETED"
                         /\ actual[LineOrder[l]][LineItem[l]] > 0
               PROVE  hold'[l] = 0
    BY <1>1 DEF ClosedReleasesComposition
  <2>1. LineOrder[l] \in Order
    BY LineAssumption
  <2>2. CASE l \in Current(o)
    BY <1>1, <2>2
  <2>3. CASE l \notin Current(o)
    <3>1. hold'[l] = hold[l] /\ (LineOrder[l] # o \/ line[l] # "CURRENT")
      BY <1>1, <2>3 DEF Current
    <3> QED
      BY <1>4, <2>1, <3>1 DEF IInv, ClosedReleasesComposition
  <2> QED
    BY <2>2, <2>3
<1>9. OneItemEach'
  BY <1>1 DEF IInv, OneItemEach, Current, OneLinePerItem
<1>10. ASSUME NEW p \in Order PROVE Issues(p)'
  <2>1. Issues(p)
    BY DEF IInv
  <2> QED
    BY <1>1, <1>4, <2>1 DEF Issues, Issuers, SalesOf, OnlyOne
<1>11. SalesIssue' /\ OneActiveSale'
  BY <1>1 DEF IInv, SalesIssue, OneActiveSale, ActiveSales
<1> QED
  BY <1>5, <1>6, <1>7, <1>8, <1>9, <1>10, <1>11 DEF IInv

(***************************************************************************)
(* The hand-over of a READY order, by document d: the order itself or a    *)
(* sale of it.                                                             *)
(***************************************************************************)
LEMMA HandOver ==
    ASSUME IInv, NEW o \in Order, NEW d \in Issuers(o), status[o] = "READY",
           actual[o] # NoUnits, IssueFor(d, Current(o), actual[o]),
           status' = [status EXCEPT ![o] = "COMPLETED"],
           UNCHANGED <<line, actual, frozen, version, assigned, content>>
    PROVE  /\ sale' \in [Sale -> SaleStatus] => TypeOK'
           /\ Fits(hold', stock') /\ HoldsAreOrdered' /\ ClosedReleasesComposition'
           /\ OneItemEach'
           /\ \A p \in Order : Issues(p)'
           /\ issued[d] = NoUnits /\ issued'[d] = actual[o]
           /\ \A e \in Document : e # d => issued'[e] = issued[e]
<1>1. TypeOK /\ d \in Document /\ actual[o] \in [Item -> Nat]
  BY DEF IInv, TypeOK, Issuers, SalesOf, Document
<1>2. /\ stock' \in [Item -> Nat]
      /\ hold' \in [Line -> Nat]
      /\ \A l \in Line :
            hold'[l] = IF l \in Current(o) /\ actual[o][LineItem[l]] > 0 THEN 0 ELSE hold[l]
      /\ Fits(hold', stock')
      /\ issued' \in [Document -> [Item -> Nat]]
      /\ issued[d] = NoUnits => issued'[d] = actual[o]
      /\ \A e \in Document : e # d => issued'[e] = issued[e]
  BY <1>1, IssueEffect
<1>3. \A e \in Issuers(o) : issued[e] = NoUnits
  <2>1. Issues(o)
    BY DEF IInv
  <2> QED
    BY <2>1 DEF Issues
<1>4. /\ status' \in [Order -> OrderStatus] /\ status'[o] = "COMPLETED"
      /\ \A p \in Order : p # o => status'[p] = status[p]
  BY DEF IInv, TypeOK, OrderStatus
<1>5. ASSUME sale' \in [Sale -> SaleStatus] PROVE TypeOK'
  BY <1>2, <1>4, <1>5 DEF IInv, TypeOK
<1>6. HoldsAreOrdered'
  BY <1>2, LineAssumption DEF IInv, HoldsAreOrdered
<1>7. ClosedReleasesComposition'
  <2> SUFFICES ASSUME NEW l \in Line,
                      \/ line[l] = "NEW"
                      \/ line[l] = "CURRENT" /\ status'[LineOrder[l]] = "CANCELLED"
                      \/ line[l] = "CURRENT" /\ status'[LineOrder[l]] = "COMPLETED"
                         /\ actual[LineOrder[l]][LineItem[l]] > 0
               PROVE  hold'[l] = 0
    BY DEF ClosedReleasesComposition
  <2>1. LineOrder[l] \in Order
    BY LineAssumption
  <2>2. CASE l \in Current(o)
    <3>1. LineOrder[l] = o /\ line[l] = "CURRENT"
      BY <2>2 DEF Current
    <3> QED
      BY <1>2, <1>4, <2>2, <3>1
  <2>3. CASE l \notin Current(o)
    <3>1. hold'[l] = hold[l] /\ (LineOrder[l] # o \/ line[l] # "CURRENT")
      BY <1>2, <2>3 DEF Current
    <3> QED
      BY <1>4, <2>1, <3>1 DEF IInv, ClosedReleasesComposition
  <2> QED
    BY <2>2, <2>3
<1>8. OneItemEach'
  BY DEF IInv, OneItemEach, Current, OneLinePerItem
<1>9. ASSUME NEW p \in Order PROVE Issues(p)'
  <2>1. Issues(p) /\ Issuers(p) \subseteq Document /\ Issuers(p)' = Issuers(p)
    BY DEF IInv, Issuers, SalesOf, Document
  <2>2. CASE p = o
    <3>1. issued'[d] = actual'[o] /\ actual'[o] # NoUnits
      BY <1>2, <1>3
    <3>2. OnlyOne(o, d)'
      BY <1>2, <1>3, <2>1, <2>2 DEF OnlyOne
    <3> QED
      BY <1>4, <2>1, <2>2, <3>1, <3>2 DEF Issues
  <2>3. CASE p # o
    <3>1. d \notin Issuers(p)
      BY <2>3, SaleAssumption DEF Issuers, SalesOf
    <3>2. \A e \in Issuers(p) : issued'[e] = issued[e]
      BY <1>2, <2>1, <3>1
    <3> QED
      BY <1>4, <2>1, <2>3, <3>2 DEF Issues, OnlyOne
  <2> QED
    BY <2>2, <2>3
<1> QED
  BY <1>2, <1>3, <1>5, <1>6, <1>7, <1>8, <1>9

LEMMA CompleteOrderStep == ASSUME IInv, NEW o \in Order, CompleteOrder(o, View(o)) PROVE IInv'
<1>1. /\ status[o] = "READY" /\ actual[o] # NoUnits
      /\ IssueFor(o, Current(o), actual[o])
      /\ status' = [status EXCEPT ![o] = "COMPLETED"]
      /\ UNCHANGED <<line, actual, frozen, version, assigned, sale, content>>
  BY DEF CompleteOrder, CanComplete, View, saleVars
<1>2. o \in Issuers(o)
  BY DEF Issuers
<1>3. /\ sale' \in [Sale -> SaleStatus] => TypeOK'
      /\ Fits(hold', stock') /\ HoldsAreOrdered' /\ ClosedReleasesComposition'
      /\ OneItemEach' /\ \A p \in Order : Issues(p)'
      /\ \A e \in Document : e # o => issued'[e] = issued[e]
  BY <1>1, <1>2, HandOver
<1>4. sale' \in [Sale -> SaleStatus]
  BY <1>1 DEF IInv, TypeOK
<1>5. \A s \in Sale : issued'[s] = issued[s]
  BY <1>3, SaleAssumption DEF Document
<1>6. SalesIssue' /\ OneActiveSale'
  BY <1>1, <1>5 DEF IInv, SalesIssue, OneActiveSale, ActiveSales
<1> QED
  BY <1>3, <1>4, <1>6 DEF IInv

LEMMA CompleteSaleStep ==
    ASSUME IInv, NEW o \in Order, NEW s \in SalesOf(o), sale[s] = "DRAFT",
           CompleteSaleFromOrder(s, View(o))
    PROVE  IInv'
<1>1. s \in Sale /\ SaleOrder[s] = o /\ s \in Issuers(o)
  BY DEF SalesOf, Issuers
<1>2. /\ status[o] = "READY" /\ actual[o] # NoUnits
      /\ IssueFor(s, Current(o), actual[o])
      /\ sale' = [sale EXCEPT ![s] = "COMPLETED"]
      /\ status' = [status EXCEPT ![o] = "COMPLETED"]
      /\ UNCHANGED <<line, actual, frozen, version, assigned, content>>
  BY <1>1 DEF CompleteSaleFromOrder, ForSale, View, Turn, MoveOrder
<1>3. /\ sale' \in [Sale -> SaleStatus] => TypeOK'
      /\ Fits(hold', stock') /\ HoldsAreOrdered' /\ ClosedReleasesComposition'
      /\ OneItemEach' /\ \A p \in Order : Issues(p)'
      /\ issued'[s] = actual[o]
      /\ \A e \in Document : e # s => issued'[e] = issued[e]
  BY <1>1, <1>2, HandOver
<1>4. /\ sale' \in [Sale -> SaleStatus] /\ sale'[s] = "COMPLETED"
      /\ \A t \in Sale : t # s => sale'[t] = sale[t]
  BY <1>1, <1>2 DEF IInv, TypeOK, SaleStatus
<1>5. SalesIssue'
  <2> SUFFICES ASSUME NEW t \in Sale
               PROVE  /\ sale'[t] = "COMPLETED" <=> issued'[t] # NoUnits
                      /\ SaleOrder[t] = Counter /\ sale'[t] # "NONE" => content'[t] # NoUnits
    BY DEF SalesIssue
  <2>1. CASE t = s
    BY <1>1, <1>2, <1>3, <1>4, <2>1, SaleAssumption
  <2>2. CASE t # s
    BY <1>2, <1>3, <1>4, <2>2 DEF IInv, SalesIssue, Document
  <2> QED
    BY <2>1, <2>2
<1>6. OneActiveSale'
  <2>1. \A p \in Order : ActiveSales(p)' = ActiveSales(p)
    BY <1>1, <1>4 DEF ActiveSales
  <2> QED
    BY <2>1 DEF IInv, OneActiveSale
<1> QED
  BY <1>3, <1>4, <1>5, <1>6 DEF IInv

-----------------------------------------------------------------------------
\* Holds that fit go on fitting when the stock grows.
LEMMA MoreStockFits ==
    ASSUME NEW h, NEW s, NEW t, h \in [Line -> Nat], s \in [Item -> Nat], t \in [Item -> Nat],
           \A i \in Item : s[i] <= t[i], Fits(h, s)
    PROVE  Fits(h, t)
<1> SUFFICES ASSUME NEW i \in Item PROVE TotalOn(h, LinesOf(i)) <= t[i]
  BY DEF Fits
<1>1. TotalOn(h, LinesOf(i)) <= s[i]
  BY DEF Fits
<1>2. TotalOn(h, LinesOf(i)) \in Nat
  BY LinesFinite DEF LinesOf
<1> QED
  BY <1>1, <1>2

\* A sale that is made from its order, or over the counter.
LEMMA CreateSaleStep ==
    ASSUME IInv, NEW o \in Order, NEW s \in SalesOf(o), CreateSaleFromOrder(s, View(o))
    PROVE  IInv'
<1>1. s \in Sale /\ SaleOrder[s] = o
  BY DEF SalesOf
<1>2. /\ sale[s] = "NONE" /\ ActiveSales(o) = {}
      /\ sale' = [sale EXCEPT ![s] = "DRAFT"]
      /\ UNCHANGED <<stock, hold, line, status, actual, frozen, version, assigned, content, issued>>
  BY <1>1 DEF CreateSaleFromOrder, stockVars, orderVars
<1>3. /\ sale' \in [Sale -> SaleStatus] /\ sale'[s] = "DRAFT"
      /\ \A t \in Sale : t # s => sale'[t] = sale[t]
  BY <1>1, <1>2 DEF IInv, TypeOK, SaleStatus
<1>4. TypeOK'
  BY <1>2, <1>3 DEF IInv, TypeOK
<1>5. Fits(hold', stock') /\ HoldsAreOrdered' /\ ClosedReleasesComposition'
  BY <1>2 DEF IInv, HoldsAreOrdered, ClosedReleasesComposition
<1>6. OneItemEach'
  BY <1>2 DEF IInv, OneItemEach, Current, OneLinePerItem
<1>7. ASSUME NEW p \in Order PROVE Issues(p)'
  BY <1>2 DEF IInv, Issues, Issuers, SalesOf, OnlyOne
<1>8. SalesIssue'
  BY <1>1, <1>2, <1>3, SaleAssumption DEF IInv, SalesIssue
<1>9. OneActiveSale'
  <2> SUFFICES ASSUME NEW p \in Order, NEW t \in ActiveSales(p)', NEW u \in ActiveSales(p)'
               PROVE  t = u
    BY DEF OneActiveSale
  <2>1. CASE p = o
    BY <1>2, <1>3, <2>1 DEF ActiveSales
  <2>2. CASE p # o
    <3>1. t \in ActiveSales(p) /\ u \in ActiveSales(p)
      BY <1>1, <1>3, <2>2 DEF ActiveSales
    <3> QED
      BY <3>1 DEF IInv, OneActiveSale
  <2> QED
    BY <2>1, <2>2
<1> QED
  BY <1>4, <1>5, <1>6, <1>7, <1>8, <1>9 DEF IInv

LEMMA AnnulStep ==
    ASSUME IInv, NEW o \in Order, NEW s \in SalesOf(o), sale[s] = "COMPLETED",
           AnnulSaleOfOrder(s, issued[s])
    PROVE  IInv'
<1>1. s \in Sale /\ SaleOrder[s] = o /\ s \in Issuers(o) /\ s \in Document
  BY DEF SalesOf, Issuers, Document
<1>2. /\ GiveBack(s, issued[s])
      /\ status' = [status EXCEPT ![o] = "READY"]
      /\ hold' = Granted(stock', Current(o))
      /\ UNCHANGED <<line, actual, frozen, version, assigned, content>>
  BY <1>1 DEF AnnulSaleOfOrder, MoveOrder
<1>3. TypeOK
  BY DEF IInv
<1>4. /\ stock' \in [Item -> Nat]
      /\ \A i \in Item : stock[i] <= stock'[i]
      /\ issued' \in [Document -> [Item -> Nat]]
      /\ issued'[s] = NoUnits
      /\ \A e \in Document : e # s => issued'[e] = issued[e]
      /\ sale' = [sale EXCEPT ![s] = "ANNULLED"]
  BY <1>1, <1>2, <1>3, BackEffect
<1>5. /\ sale' \in [Sale -> SaleStatus] /\ sale'[s] = "ANNULLED"
      /\ \A t \in Sale : t # s => sale'[t] = sale[t]
  BY <1>1, <1>4 DEF IInv, TypeOK, SaleStatus
<1>6. /\ status' \in [Order -> OrderStatus] /\ status'[o] = "READY"
      /\ \A p \in Order : p # o => status'[p] = status[p]
  BY <1>2 DEF IInv, TypeOK, OrderStatus
<1>7. /\ hold' \in [Line -> Nat] /\ Fits(hold', stock') /\ HoldsAreOrdered'
      /\ \A l \in Line : l \notin Current(o) => hold'[l] = hold[l]
  <2>1. /\ hold \in [Line -> Nat] /\ stock \in [Item -> Nat] /\ Current(o) \subseteq Line
        /\ OneLinePerItem(Current(o)) /\ Fits(hold, stock)
        /\ \A l \in Line : hold[l] <= LineQty[l]
    BY DEF IInv, TypeOK, OneItemEach, HoldsAreOrdered, Current
  <2>2. Fits(hold, stock')
    BY <1>4, <2>1, MoreStockFits
  <2>3. /\ hold' \in [Line -> Nat]
        /\ \A l \in Line \ Current(o) : hold'[l] = hold[l]
        /\ \A l \in Current(o) : hold'[l] <= LineQty[l]
    BY <1>2, <1>4, <2>1, GrantedType
  <2>4. Fits(hold', stock')
    BY <1>2, <1>4, <2>1, <2>2, GrantedFits
  <2> QED
    BY <2>1, <2>3, <2>4 DEF HoldsAreOrdered
<1>8. TypeOK'
  BY <1>2, <1>4, <1>5, <1>6, <1>7 DEF IInv, TypeOK
<1>9. ClosedReleasesComposition'
  <2> SUFFICES ASSUME NEW l \in Line,
                      \/ line[l] = "NEW"
                      \/ line[l] = "CURRENT" /\ status'[LineOrder[l]] = "CANCELLED"
                      \/ line[l] = "CURRENT" /\ status'[LineOrder[l]] = "COMPLETED"
                         /\ actual[LineOrder[l]][LineItem[l]] > 0
               PROVE  hold'[l] = 0
    BY <1>2 DEF ClosedReleasesComposition
  <2>1. LineOrder[l] \in Order
    BY LineAssumption
  <2>2. l \notin Current(o) /\ (LineOrder[l] # o \/ line[l] # "CURRENT")
    BY <1>6, <2>1 DEF Current
  <2>3. hold'[l] = hold[l]
    BY <1>7, <2>2
  <2> QED
    BY <1>6, <2>1, <2>2, <2>3 DEF IInv, ClosedReleasesComposition
<1>10. OneItemEach'
  BY <1>2 DEF IInv, OneItemEach, Current, OneLinePerItem
<1>11. ASSUME NEW p \in Order PROVE Issues(p)'
  <2>1. Issues(p) /\ Issuers(p) \subseteq Document /\ Issuers(p)' = Issuers(p)
    BY DEF IInv, Issuers, SalesOf, Document
  <2>2. CASE p = o
    \* It is s that had handed the order over, since s has something out.
    <3>1. issued[s] # NoUnits
      BY <1>1 DEF IInv, SalesIssue
    <3>2. \A e \in Issuers(o) : e # s => issued[e] = NoUnits
      BY <1>1, <2>1, <2>2, <3>1 DEF Issues, OnlyOne
    <3>3. \A e \in Issuers(o) : issued'[e] = NoUnits
      BY <1>4, <2>1, <2>2, <3>2
    <3> QED
      BY <1>6, <2>1, <2>2, <3>3 DEF Issues
  <2>3. CASE p # o
    <3>1. s \notin Issuers(p)
      BY <1>1, <2>3, SaleAssumption DEF Issuers, SalesOf
    <3>2. \A e \in Issuers(p) : issued'[e] = issued[e]
      BY <1>4, <2>1, <3>1
    <3> QED
      BY <1>2, <1>6, <2>1, <2>3, <3>2 DEF Issues, OnlyOne
  <2> QED
    BY <2>2, <2>3
<1>12. SalesIssue'
  <2> SUFFICES ASSUME NEW t \in Sale
               PROVE  /\ sale'[t] = "COMPLETED" <=> issued'[t] # NoUnits
                      /\ SaleOrder[t] = Counter /\ sale'[t] # "NONE" => content[t] # NoUnits
    BY <1>2 DEF SalesIssue
  <2>1. CASE t = s
    BY <1>1, <1>4, <1>5, <2>1, SaleAssumption
  <2>2. CASE t # s
    BY <1>4, <1>5, <2>2 DEF IInv, SalesIssue, Document
  <2> QED
    BY <2>1, <2>2
<1>13. OneActiveSale'
  <2>1. \A p \in Order : ActiveSales(p)' \subseteq ActiveSales(p)
    BY <1>1, <1>5 DEF ActiveSales
  <2> QED
    BY <2>1 DEF IInv, OneActiveSale
<1> QED
  BY <1>7, <1>8, <1>9, <1>10, <1>11, <1>12, <1>13 DEF IInv

(***************************************************************************)
(* The sales over the counter leave the orders alone.                      *)
(***************************************************************************)
LEMMA CounterStep ==
    ASSUME IInv, NEW s \in SalesOf(Counter), TypeOK', Fits(hold', stock'), hold' = hold,
           UNCHANGED <<line, status, actual>>,
           \A t \in Sale : t # s => sale'[t] = sale[t] /\ content'[t] = content[t],
           \A d \in Document : d # s => issued'[d] = issued[d],
           sale'[s] = "COMPLETED" <=> issued'[s] # NoUnits,
           sale'[s] # "NONE" => content'[s] # NoUnits
    PROVE  IInv'
<1>1. s \in Sale /\ SaleOrder[s] = Counter
  BY DEF SalesOf
<1>2. HoldsAreOrdered' /\ ClosedReleasesComposition'
  BY DEF IInv, HoldsAreOrdered, ClosedReleasesComposition
<1>3. OneItemEach'
  BY DEF IInv, OneItemEach, Current, OneLinePerItem
<1>4. ASSUME NEW p \in Order PROVE Issues(p)'
  <2>1. Issues(p) /\ Issuers(p) \subseteq Document /\ Issuers(p)' = Issuers(p)
    BY DEF IInv, Issuers, SalesOf, Document
  <2>2. s \notin Issuers(p)
    BY <1>1, SaleAssumption DEF Issuers, SalesOf
  <2>3. \A e \in Issuers(p) : issued'[e] = issued[e]
    BY <2>1, <2>2
  <2> QED
    BY <2>1, <2>3 DEF Issues, OnlyOne
<1>5. SalesIssue'
  BY <1>1 DEF IInv, SalesIssue, Document
<1>6. OneActiveSale'
  <2>1. \A p \in Order : ActiveSales(p)' = ActiveSales(p)
    BY <1>1, SaleAssumption DEF ActiveSales
  <2> QED
    BY <2>1 DEF IInv, OneActiveSale
<1> QED
  BY <1>2, <1>3, <1>4, <1>5, <1>6 DEF IInv

LEMMA CreateDirectStep ==
    ASSUME IInv, NEW s \in SalesOf(Counter), NEW c \in Content, CreateDirectSale(s, c)
    PROVE  IInv'
<1>1. s \in Sale /\ SaleOrder[s] = Counter /\ s \in Document /\ c \in [Item -> Nat]
  BY ContentAssumption DEF SalesOf, Document
<1>2. /\ sale[s] = "NONE" /\ c # NoUnits
      /\ sale' = [sale EXCEPT ![s] = "DRAFT"]
      /\ content' = [content EXCEPT ![s] = c]
      /\ UNCHANGED <<stock, hold, line, status, actual, frozen, version, assigned, issued>>
  BY DEF CreateDirectSale, stockVars, orderVars
<1>3. /\ sale' \in [Sale -> SaleStatus] /\ content' \in [Sale -> [Item -> Nat]]
      /\ sale'[s] = "DRAFT" /\ content'[s] = c
      /\ \A t \in Sale : t # s => sale'[t] = sale[t] /\ content'[t] = content[t]
  BY <1>1, <1>2 DEF IInv, TypeOK, SaleStatus
<1>4. TypeOK' /\ Fits(hold', stock')
  BY <1>2, <1>3 DEF IInv, TypeOK
<1>5. issued[s] = NoUnits
  BY <1>1, <1>2 DEF IInv, SalesIssue
<1> QED
  BY <1>2, <1>3, <1>4, <1>5, CounterStep

LEMMA CompleteDirectStep ==
    ASSUME IInv, NEW s \in SalesOf(Counter), sale[s] = "DRAFT", CompleteDirectSale(s)
    PROVE  IInv'
<1>1. s \in Sale /\ SaleOrder[s] = Counter /\ s \in Document
  BY DEF SalesOf, Document
<1>2. /\ IssueFor(s, {}, content[s])
      /\ sale' = [sale EXCEPT ![s] = "COMPLETED"]
      /\ UNCHANGED <<line, status, actual, frozen, version, assigned, content>>
  BY DEF CompleteDirectSale, Turn, orderVars
<1>3. TypeOK /\ content[s] \in [Item -> Nat] /\ hold \in [Line -> Nat]
  BY <1>1 DEF IInv, TypeOK
<1>4. /\ stock' \in [Item -> Nat]
      /\ hold' \in [Line -> Nat]
      /\ \A l \in Line : hold'[l] = hold[l]
      /\ Fits(hold', stock')
      /\ issued' \in [Document -> [Item -> Nat]]
      /\ issued[s] = NoUnits => issued'[s] = content[s]
      /\ \A e \in Document : e # s => issued'[e] = issued[e]
  BY <1>1, <1>2, <1>3, IssueEffect
<1>5. hold' = hold
  BY <1>3, <1>4
<1>6. /\ sale' \in [Sale -> SaleStatus] /\ sale'[s] = "COMPLETED"
      /\ \A t \in Sale : t # s => sale'[t] = sale[t]
  BY <1>1, <1>2 DEF IInv, TypeOK, SaleStatus
<1>7. TypeOK'
  BY <1>2, <1>4, <1>6 DEF IInv, TypeOK
<1>8. issued[s] = NoUnits /\ content[s] # NoUnits
  BY <1>1 DEF IInv, SalesIssue
<1> QED
  BY <1>2, <1>4, <1>5, <1>6, <1>7, <1>8, CounterStep

LEMMA AnnulDirectStep ==
    ASSUME IInv, NEW s \in SalesOf(Counter), sale[s] = "COMPLETED", AnnulDirectSale(s, issued[s])
    PROVE  IInv'
<1>1. s \in Sale /\ SaleOrder[s] = Counter /\ s \in Document
  BY DEF SalesOf, Document
<1>2. /\ GiveBack(s, issued[s])
      /\ UNCHANGED <<hold, line, status, actual, frozen, version, assigned, content>>
  BY DEF AnnulDirectSale, orderVars
<1>3. TypeOK /\ hold \in [Line -> Nat] /\ stock \in [Item -> Nat] /\ Fits(hold, stock)
  BY DEF IInv, TypeOK
<1>4. /\ stock' \in [Item -> Nat]
      /\ \A i \in Item : stock[i] <= stock'[i]
      /\ issued' \in [Document -> [Item -> Nat]]
      /\ issued'[s] = NoUnits
      /\ \A e \in Document : e # s => issued'[e] = issued[e]
      /\ sale' = [sale EXCEPT ![s] = "ANNULLED"]
  BY <1>1, <1>2, <1>3, BackEffect
<1>5. /\ sale' \in [Sale -> SaleStatus] /\ sale'[s] = "ANNULLED"
      /\ \A t \in Sale : t # s => sale'[t] = sale[t]
  BY <1>1, <1>4 DEF IInv, TypeOK, SaleStatus
<1>6. TypeOK'
  BY <1>2, <1>4, <1>5 DEF IInv, TypeOK
<1>7. Fits(hold', stock')
  BY <1>2, <1>3, <1>4, MoreStockFits
<1>8. content[s] # NoUnits
  BY <1>1 DEF IInv, SalesIssue
<1> QED
  BY <1>2, <1>4, <1>5, <1>6, <1>7, <1>8, CounterStep

-----------------------------------------------------------------------------
LEMMA NextInv == ASSUME IInv, Next PROVE IInv'
<1>1. CASE \E i \in Item : Arrive(i)
  BY <1>1, ArriveStep
<1>2. ASSUME NEW o \in Order,
             \/ CreateOrder(o)
             \/ \E L \in SUBSET New(o) : SetPlannedComposition(o, View(o), L)
             \/ \E l \in New(o) : AddCompositionItem(o, View(o), l)
             \/ \E l \in Current(o) : RemoveCompositionItem(o, View(o), l)
             \/ ReserveOrder(o, View(o))
             \/ Assign(o, View(o))
             \/ ReleaseAssignment(o)
             \/ StartPreparation(o, View(o))
             \/ \E c \in Content : UpdateActualComposition(o, View(o), c)
             \/ MarkReady(o, View(o))
             \/ AssembleOrder(o, View(o))
             \/ CompleteOrder(o, View(o))
             \/ CancelOrder(o, View(o))
      PROVE  IInv'
  BY <1>2, CreateStep, EditStep, ReserveStep, AssignStep, StartStep, UpdateStep, ReadyStep,
     AssembleStep, CompleteOrderStep, CancelStep
<1>3. ASSUME NEW o \in Order, NEW s \in SalesOf(o),
             \/ CreateSaleFromOrder(s, View(o))
             \/ sale[s] = "DRAFT" /\ CompleteSaleFromOrder(s, View(o))
             \/ sale[s] = "COMPLETED" /\ AnnulSaleOfOrder(s, issued[s])
      PROVE  IInv'
  BY <1>3, CreateSaleStep, CompleteSaleStep, AnnulStep
<1>4. ASSUME NEW s \in SalesOf(Counter),
             \/ \E c \in Content : CreateDirectSale(s, c)
             \/ sale[s] = "DRAFT" /\ CompleteDirectSale(s)
             \/ sale[s] = "COMPLETED" /\ AnnulDirectSale(s, issued[s])
      PROVE  IInv'
  BY <1>4, CreateDirectStep, CompleteDirectStep, AnnulDirectStep
<1> QED
  BY <1>1, <1>2, <1>3, <1>4 DEF Next

LEMMA StutterInv == ASSUME IInv, UNCHANGED vars PROVE IInv'
<1>1. UNCHANGED <<stock, hold, line, status, actual, frozen, version, assigned, sale, content, issued>>
  BY DEF vars, stockVars, orderVars, saleVars
<1>2. TypeOK' /\ Fits(hold', stock')
  BY <1>1 DEF IInv, TypeOK
<1> QED
  BY <1>1, <1>2, QuietStep

LEMMA InvHolds == Spec => []IInv
<1>1. IInv /\ [Next]_vars => IInv'
  BY NextInv, StutterInv
<1> QED
  BY InitInv, <1>1, PTL DEF Spec

(***************************************************************************)
(* Every quantity stays a natural number and every status one the schema   *)
(* knows: no use case of orders or sales takes more than there is.         *)
(***************************************************************************)
THEOREM TypeCorrect == Spec => []TypeOK
<1>1. IInv => TypeOK
  BY DEF IInv
<1> QED
  BY <1>1, InvHolds, PTL

(***************************************************************************)
(* A bouquet leaves the stock once: of a COMPLETED order exactly one       *)
(* document, completeOrder's or completeSale's, has the actual composition *)
(* out, and of any other order none, however often sales are annulled.     *)
(***************************************************************************)
THEOREM HandedOverAlwaysOnce == Spec => []HandedOverOnce
<1>1. IInv => HandedOverOnce
  <2> SUFFICES ASSUME IInv, NEW o \in Order
               PROVE  IF status[o] = "COMPLETED"
                      THEN \E d \in Issuers(o) : HandedOver(o) = {d} /\ issued[d] = actual[o]
                      ELSE HandedOver(o) = {}
    BY DEF HandedOverOnce, Issuers
  <2>1. Issues(o) /\ HandedOver(o) = {d \in Issuers(o) : issued[d] # NoUnits}
    BY DEF IInv, HandedOver, Issuers
  <2>2. CASE status[o] = "COMPLETED"
    <3>1. PICK d \in Issuers(o) : issued[d] = actual[o] /\ OnlyOne(o, d)
      BY <2>1, <2>2 DEF Issues
    <3>2. issued[d] # NoUnits
      BY <2>1, <2>2, <3>1 DEF Issues
    <3>3. HandedOver(o) = {d}
      BY <2>1, <3>1, <3>2 DEF OnlyOne
    <3> QED
      BY <2>2, <3>1, <3>3
  <2>3. CASE status[o] # "COMPLETED"
    BY <2>1, <2>3 DEF Issues
  <2> QED
    BY <2>2, <2>3
<1> QED
  BY <1>1, InvHolds, PTL

(***************************************************************************)
(* What reserveComposition promises is there, through every edit, hand-    *)
(* over and annulment, and an order that is over promises nothing it could *)
(* have used.                                                              *)
(***************************************************************************)
THEOREM PromisesAlwaysHold == Spec => []PromisesHold
<1>1. IInv => PromisesHold
  BY CoveredMeansFits DEF IInv, PromisesHold, PromisesAreCovered, HoldsAreOrdered
<1> QED
  BY <1>1, InvHolds, PTL

(***************************************************************************)
(* A sale is COMPLETED exactly while it has something out of the stock,    *)
(* whatever completeSale and annulSale did before, and an order has at     *)
(* most one sale that is not ANNULLED.                                     *)
(***************************************************************************)
THEOREM SalesAlwaysMatchIssues == Spec => []SalesMatchIssues
<1>1. IInv => SalesMatchIssues
  <2> SUFFICES ASSUME IInv PROVE SalesMatchIssues
    OBVIOUS
  <2>1. \A s \in Sale : sale[s] = "COMPLETED" <=> issued[s] # NoUnits
    BY DEF IInv, SalesIssue
  <2>2. ASSUME NEW s \in Sale, NEW t \in Sale,
               SaleOrder[s] = SaleOrder[t], SaleOrder[s] # Counter,
               {sale[s], sale[t]} \subseteq {"DRAFT", "COMPLETED"}
        PROVE  s = t
    <3>1. SaleOrder[s] \in Order
      BY <2>2, SaleAssumption
    <3>2. s \in ActiveSales(SaleOrder[s]) /\ t \in ActiveSales(SaleOrder[s])
      BY <2>2 DEF ActiveSales
    <3> QED
      BY <3>1, <3>2 DEF IInv, OneActiveSale
  <2> QED
    BY <2>1, <2>2 DEF SalesMatchIssues
<1> QED
  BY <1>1, InvHolds, PTL

-----------------------------------------------------------------------------
(***************************************************************************)
(* Requests that overlap (FulfilmentRace).                                 *)
(*                                                                         *)
(* A request acts on a view that may be out of date, so little of IInv     *)
(* survives: an order can be COMPLETED without having issued, or CANCELLED *)
(* with a sale.  What stays true is what the rows' own keys enforce, and   *)
(* each request's memory of its sale goes on being true in one respect: a  *)
(* sale never returns to an earlier phase.                                 *)
(***************************************************************************)
OrderSale == Sale \ SalesOf(Counter)
Over == {"COMPLETED", "ANNULLED"}

\* The keys say which phase a sale has reached, and so does what it has out.
PhaseFits(s) ==
    /\ sale[s] = "COMPLETED" <=> issued[s] # NoUnits
    /\ keyed[s] <=> sale[s] \in Over
    /\ reversed[s] <=> sale[s] = "ANNULLED"

KeysFit ==
    /\ keyed \in [Document -> BOOLEAN]
    /\ reversed \in [Sale -> BOOLEAN]
    /\ OneKey => \A s \in Sale : PhaseFits(s)

AtMost(u, v) == \A i \in Item : u[i] <= v[i]

Rows ==
    /\ TypeOK
    /\ Fits(hold, stock)
    /\ HoldsAreOrdered
    /\ OneItemEach
    /\ OneActiveSale
    /\ KeysFit

\* What request q knows for certain of the rows, although others change them.
Knows(q, sl, ky, rv, is) ==
    /\ q.do \in OrderKinds \cup SaleKinds => OneLinePerItem(q.view.lines)
    /\ q.do \in OrderKinds => q.doc = q.order
    /\ q.do \in SaleKinds => q.doc \in OrderSale /\ q.order = SaleOrder[q.doc]
    /\ q.do = "sale to complete" => q.doc \in OrderSale /\ sl[q.doc] # "NONE"
    /\ q.do = "completeSale" => sl[q.doc] # "NONE" /\ (q.replay => OneKey /\ ky[q.doc])
    /\ q.do = "sale to annul" => q.doc \in OrderSale /\ sl[q.doc] \in Over
    /\ q.do = "annulSale" =>
          /\ sl[q.doc] \in Over
          /\ IF q.replay THEN rv[q.doc] /\ q.back = NoUnits
             ELSE \/ rv[q.doc]
                  \/ AtMost(q.back, is[q.doc]) /\ (OneKey => q.back = is[q.doc])

\* The requests in flight, f, and what they know of the rows.
Aware(f, sl, ky, rv, is) ==
    /\ f \in [Request -> InFlight]
    /\ \A r \in Request : Knows(f[r], sl, ky, rv, is)

RInv == Rows /\ Aware(flight, sale, keyed, reversed, issued)

\* What s has out stays out, and with one key nothing is added.
StaysOut(s) == AtMost(issued[s], issued'[s]) /\ (OneKey => issued'[s] = issued[s])

\* No sale returns to an earlier phase, and what it has out comes back at once.
Onward ==
    \A s \in Sale :
        /\ sale[s] # "NONE" => sale'[s] # "NONE"
        /\ sale[s] \in Over => sale'[s] \in Over /\ (reversed'[s] \/ StaysOut(s))
        /\ keyed[s] => keyed'[s]
        /\ reversed[s] => reversed'[s]

LEMMA OrderSales ==
    ASSUME NEW s \in OrderSale
    PROVE  s \in Sale /\ SaleOrder[s] \in Order /\ s \in Document
BY SaleAssumption DEF OrderSale, SalesOf, Document

\* The parts of a request that has read its order.
LEMMA Remembered ==
    ASSUME NEW q \in InFlight, q.do \in OrderKinds \cup SaleKinds
    PROVE  /\ q.doc \in Document /\ q.order \in Order
           /\ q.view \in Views
           /\ q.replay \in BOOLEAN /\ q.back \in [Item -> Nat]
<1> DEFINE Full == [do : OrderKinds \cup SaleKinds, doc : Document, order : Order, view : Views,
                    replay : BOOLEAN, back : [Item -> Nat]]
<1>1. q # Idle
  BY DEF Idle, OrderKinds, SaleKinds
<1>2. q \notin [do : {"sale to complete", "sale to annul"}, doc : Sale]
  BY DEF OrderKinds, SaleKinds
<1>3. q \in Full
  BY <1>1, <1>2 DEF InFlight
<1> QED
  BY <1>3

LEMMA ViewParts ==
    ASSUME NEW v \in Views
    PROVE  /\ v.status \in OrderStatus /\ v.lines \subseteq Line /\ v.actual \in [Item -> Nat]
           /\ v.frozen \in BOOLEAN /\ v.version \in Nat /\ v.assigned \in BOOLEAN
BY DEF Views

LEMMA ViewFits ==
    ASSUME Rows, NEW o \in Order
    PROVE  View(o) \in Views /\ OneLinePerItem(View(o).lines)
<1>1. /\ status[o] \in OrderStatus /\ actual[o] \in [Item -> Nat] /\ frozen[o] \in BOOLEAN
      /\ version[o] \in Nat /\ assigned[o] \in BOOLEAN /\ Current(o) \in SUBSET Line
  BY DEF Rows, TypeOK, Current
<1>2. View(o) \in Views
  BY <1>1 DEF View, Views
<1>3. OneLinePerItem(Current(o))
  BY DEF Rows, OneItemEach
<1> QED
  BY <1>2, <1>3 DEF View

LEMMA SameStaysOut ==
    ASSUME TypeOK, NEW s \in Sale, issued'[s] = issued[s]
    PROVE  StaysOut(s)
<1>1. issued[s] \in [Item -> Nat]
  BY DEF TypeOK, Document
<1> QED
  BY <1>1 DEF StaysOut, AtMost

\* Knowledge lasts.
LEMMA KnowledgeLasts ==
    ASSUME Rows, Rows', Onward, NEW q, q \in InFlight, Knows(q, sale, keyed, reversed, issued)
    PROVE  Knows(q, sale', keyed', reversed', issued')
<1>1. CASE q.do = "completeSale"
  <2>1. q.doc \in Sale
    BY <1>1, OrderSales DEF Knows, SaleKinds
  <2> QED
    BY <1>1, <2>1 DEF Knows, Onward, OrderKinds, SaleKinds
<1>2. CASE q.do = "annulSale"
  <2> DEFINE s == q.doc
  <2>1. s \in Sale /\ s \in Document /\ q.back \in [Item -> Nat]
    BY <1>2, OrderSales, Remembered DEF Knows, SaleKinds
  <2>2. issued[s] \in [Item -> Nat] /\ issued'[s] \in [Item -> Nat]
    BY <2>1 DEF Rows, TypeOK
  <2>3. sale[s] \in Over
    BY <1>2 DEF Knows
  <2>4. sale'[s] \in Over /\ (reversed'[s] \/ StaysOut(s)) /\ (reversed[s] => reversed'[s])
    BY <2>1, <2>3 DEF Onward
  <2> HIDE DEF s
  <2>5. StaysOut(s) /\ AtMost(q.back, issued[s]) => AtMost(q.back, issued'[s])
    BY <2>1, <2>2 DEF StaysOut, AtMost
  <2>6. StaysOut(s) /\ (OneKey => q.back = issued[s]) => (OneKey => q.back = issued'[s])
    BY DEF StaysOut
  <2>7. IF q.replay THEN reversed[s] /\ q.back = NoUnits
        ELSE \/ reversed[s]
             \/ AtMost(q.back, issued[s]) /\ (OneKey => q.back = issued[s])
    BY <1>2 DEF Knows, s
  <2>8. IF q.replay THEN reversed'[s] /\ q.back = NoUnits
        ELSE \/ reversed'[s]
             \/ AtMost(q.back, issued'[s]) /\ (OneKey => q.back = issued'[s])
    BY <2>4, <2>5, <2>6, <2>7
  <2> QED
    BY <1>2, <2>4, <2>8 DEF Knows, s
<1>3. CASE q.do \in {"sale to complete", "sale to annul"}
  <2>1. q.doc \in Sale
    BY <1>3, OrderSales DEF Knows
  <2> QED
    BY <1>3, <2>1 DEF Knows, Onward, OrderKinds, SaleKinds
<1>4. CASE q.do \notin {"completeSale", "annulSale", "sale to complete", "sale to annul"}
  BY <1>4 DEF Knows
<1> QED
  BY <1>1, <1>2, <1>3, <1>4

LEMMA OthersStayAware ==
    ASSUME Aware(flight, sale, keyed, reversed, issued), Rows, Rows', Onward, NEW r \in Request,
           NEW q, flight' = [flight EXCEPT ![r] = q], q \in InFlight,
           Knows(q, sale', keyed', reversed', issued')
    PROVE  Aware(flight', sale', keyed', reversed', issued')
<1>1. flight \in [Request -> InFlight] /\ flight' \in [Request -> InFlight] /\ flight'[r] = q
  BY DEF Aware
<1>2. ASSUME NEW p \in Request PROVE Knows(flight'[p], sale', keyed', reversed', issued')
  <2>1. CASE p = r
    BY <1>1, <2>1
  <2>2. CASE p # r
    <3>1. flight'[p] = flight[p] /\ flight[p] \in InFlight
      BY <1>1, <2>2
    <3>2. Knows(flight[p], sale, keyed, reversed, issued)
      BY DEF Aware
    <3> QED
      BY <3>1, <3>2, KnowledgeLasts
  <2> QED
    BY <2>1, <2>2
<1> QED
  BY <1>1, <1>2 DEF Aware

-----------------------------------------------------------------------------
\* The steps that leave the sales and the movements alone.
Calm == UNCHANGED <<sale, content, issued, keyed, reversed>>

LEMMA CalmStep ==
    ASSUME Rows, Calm, TypeOK', Fits(hold', stock'), HoldsAreOrdered', OneItemEach'
    PROVE  Rows' /\ Onward
<1>1. KeysFit' /\ OneActiveSale'
  BY DEF Rows, Calm, KeysFit, PhaseFits, OneActiveSale, ActiveSales
<1>2. Onward
  BY SameStaysOut DEF Rows, Calm, Onward
<1> QED
  BY <1>1, <1>2 DEF Rows

\* The steps that leave the composition alone as well.
LEMMA SameLines ==
    ASSUME Rows, Calm, TypeOK', Fits(hold', stock'), HoldsAreOrdered', UNCHANGED line
    PROVE  Rows' /\ Onward
<1>1. OneItemEach'
  BY DEF Rows, OneItemEach, Current, OneLinePerItem
<1> QED
  BY <1>1, CalmStep

\* And the stock.
LEMMA SameStock ==
    ASSUME Rows, Calm, TypeOK', UNCHANGED <<stock, hold, line>>
    PROVE  Rows' /\ Onward
<1>1. Fits(hold', stock') /\ HoldsAreOrdered'
  BY DEF Rows, HoldsAreOrdered
<1> QED
  BY <1>1, SameLines

\* What the lines of an old view reserve is there all the same.
LEMMA OldViewFits ==
    ASSUME Rows, NEW L, L \subseteq Line, OneLinePerItem(L),
           NEW held, held = Granted(stock, L)
    PROVE  /\ held \in [Line -> Nat]
           /\ Fits(held, stock)
           /\ \A l \in Line : held[l] <= LineQty[l]
<1>1. /\ hold \in [Line -> Nat] /\ stock \in [Item -> Nat] /\ Fits(hold, stock)
      /\ \A l \in Line : hold[l] <= LineQty[l]
  BY DEF Rows, TypeOK, HoldsAreOrdered
<1>2. /\ held \in [Line -> Nat]
      /\ \A l \in Line \ L : held[l] = hold[l]
      /\ \A l \in L : held[l] <= LineQty[l]
  BY <1>1, GrantedType
<1>3. Fits(held, stock)
  BY <1>1, GrantedFits
<1> QED
  BY <1>1, <1>2, <1>3

LEMMA RaceArrive ==
    ASSUME Rows, NEW i \in Item, Arrive(i), UNCHANGED <<keyed, reversed>>
    PROVE  Rows' /\ Onward
<1>1. /\ stock' \in [Item -> Nat] /\ \A j \in Item : stock[j] <= stock'[j]
      /\ stock \in [Item -> Nat] /\ hold \in [Line -> Nat] /\ Fits(hold, stock)
  BY DEF Rows, TypeOK, Arrive
<1>2. UNCHANGED <<hold, line, status, actual, frozen, version, assigned, sale, content, issued>>
  BY DEF Arrive, orderVars, saleVars
<1>3. TypeOK'
  BY <1>1, <1>2 DEF Rows, TypeOK
<1>4. Fits(hold', stock')
  BY <1>1, <1>2, MoreStockFits
<1>5. HoldsAreOrdered' /\ Calm
  BY <1>2 DEF Rows, HoldsAreOrdered, Calm
<1> QED
  BY <1>2, <1>3, <1>4, <1>5, SameLines

LEMMA RaceCreate ==
    ASSUME Rows, NEW o \in Order, CreateOrder(o), UNCHANGED <<keyed, reversed>>
    PROVE  Rows' /\ Onward
<1>1. /\ status' = [status EXCEPT ![o] = "CONFIRMED"]
      /\ UNCHANGED <<stock, hold, line, actual, frozen, version, assigned, sale, content, issued>>
  BY DEF CreateOrder, stockVars, saleVars
<1>2. TypeOK' /\ Calm
  BY <1>1 DEF Rows, TypeOK, OrderStatus, Calm
<1> QED
  BY <1>1, <1>2, SameStock

LEMMA RaceAssign ==
    ASSUME Rows, NEW o \in Order, NEW v, Assign(o, v), UNCHANGED <<keyed, reversed>>
    PROVE  Rows' /\ Onward
<1>1. /\ assigned' = [assigned EXCEPT ![o] = TRUE]
      /\ UNCHANGED <<stock, hold, line, status, actual, frozen, version, sale, content, issued>>
  BY DEF Assign, stockVars, saleVars
<1>2. TypeOK' /\ Calm
  BY <1>1 DEF Rows, TypeOK, Calm
<1> QED
  BY <1>1, <1>2, SameStock

LEMMA RacePlan ==
    ASSUME Rows, NEW o \in Order, NEW v, NEW L \in SUBSET New(o),
           SetPlannedComposition(o, v, L), UNCHANGED <<keyed, reversed>>
    PROVE  Rows' /\ Onward
<1>1. /\ OneLinePerItem(L)
      /\ line' = [l \in Line |->
            IF l \in L THEN "CURRENT"
            ELSE IF LineOrder[l] = o /\ line[l] = "CURRENT" THEN "GONE" ELSE line[l]]
      /\ UNCHANGED <<stock, hold, status, actual, frozen, version, assigned, sale, content, issued>>
  BY DEF SetPlannedComposition, ReplaceLines, stockVars, saleVars
<1>2. TypeOK' /\ Calm
  BY <1>1 DEF Rows, TypeOK, Calm
<1>3. Fits(hold', stock') /\ HoldsAreOrdered'
  BY <1>1 DEF Rows, HoldsAreOrdered
<1>4. ASSUME NEW p \in Order PROVE OneLinePerItem(Current(p)')
  <2>1. \A l \in L : LineOrder[l] = o
    BY DEF New
  <2>2. CASE p = o
    <3>1. Current(p)' \subseteq L
      BY <1>1, <2>2 DEF Current
    <3> QED
      BY <1>1, <3>1 DEF OneLinePerItem
  <2>3. CASE p # o
    <3>1. Current(p)' = Current(p)
      BY <1>1, <2>1, <2>3 DEF Current
    <3> QED
      BY <3>1 DEF Rows, OneItemEach
  <2> QED
    BY <2>2, <2>3
<1>5. OneItemEach'
  BY <1>4 DEF OneItemEach, OneLinePerItem
<1> QED
  BY <1>2, <1>3, <1>5, CalmStep

LEMMA RaceReserve ==
    ASSUME Rows, NEW o \in Order, NEW v \in Views, OneLinePerItem(v.lines),
           ReserveOrder(o, v), UNCHANGED <<keyed, reversed>>
    PROVE  Rows' /\ Onward
<1> DEFINE held == Granted(stock, v.lines)
           found == Outcome(v.lines, held)
<1>1. /\ hold' = held
      /\ status' = [status EXCEPT ![o] = found]
      /\ UNCHANGED <<stock, line, actual, frozen, version, assigned, sale, content, issued>>
  BY DEF ReserveOrder, saleVars
<1>2. /\ held \in [Line -> Nat] /\ Fits(held, stock)
      /\ \A l \in Line : held[l] <= LineQty[l]
  BY ViewParts, OldViewFits
<1>3. found \in {"RESERVED", "PARTIALLY_RESERVED", "CONFIRMED"}
  BY OutcomeType
<1> HIDE DEF held, found
<1>4. TypeOK' /\ Calm
  BY <1>1, <1>2, <1>3 DEF Rows, TypeOK, OrderStatus, Calm
<1>5. Fits(hold', stock') /\ HoldsAreOrdered'
  BY <1>1, <1>2 DEF HoldsAreOrdered
<1> QED
  BY <1>1, <1>4, <1>5, SameLines

LEMMA RaceAssemble ==
    ASSUME Rows, NEW o \in Order, NEW v \in Views, OneLinePerItem(v.lines),
           AssembleOrder(o, v), UNCHANGED <<keyed, reversed>>
    PROVE  Rows' /\ Onward
<1> DEFINE retry == v.status \in {"CONFIRMED", "PARTIALLY_RESERVED"}
           held == IF retry THEN Granted(stock, v.lines) ELSE hold
           found == IF retry THEN Outcome(v.lines, held) ELSE v.status
           next == IF found = "CONFIRMED" THEN found ELSE "READY"
           seed == Seed(v.lines)
<1>1. /\ hold' = held
      /\ status' = [status EXCEPT ![o] = next]
      /\ frozen' = [frozen EXCEPT ![o] = found # "CONFIRMED"]
      /\ actual' = IF found \in {"RESERVED", "PARTIALLY_RESERVED"}
                   THEN [actual EXCEPT ![o] = seed] ELSE actual
      /\ UNCHANGED <<stock, line, version, assigned, sale, content, issued>>
  BY DEF AssembleOrder, saleVars
<1>2. /\ held \in [Line -> Nat] /\ Fits(held, stock)
      /\ \A l \in Line : held[l] <= LineQty[l]
  <2>1. CASE retry
    BY <2>1, ViewParts, OldViewFits
  <2>2. CASE ~retry
    BY <2>2 DEF Rows, TypeOK, HoldsAreOrdered
  <2> QED
    BY <2>1, <2>2
<1>3. next \in {"CONFIRMED", "READY"}
  OBVIOUS
<1>4. seed \in [Item -> Nat]
  BY ViewParts, SeedType
<1>5. frozen' \in [Order -> BOOLEAN]
  BY <1>1 DEF Rows, TypeOK
<1>6. actual' \in [Order -> [Item -> Nat]]
  BY <1>1, <1>4 DEF Rows, TypeOK
<1> HIDE DEF held, found, next, seed
<1>7. TypeOK' /\ Calm
  BY <1>1, <1>2, <1>3, <1>5, <1>6 DEF Rows, TypeOK, OrderStatus, Calm
<1>8. Fits(hold', stock') /\ HoldsAreOrdered'
  BY <1>1, <1>2 DEF HoldsAreOrdered
<1> QED
  BY <1>1, <1>7, <1>8, SameLines

\* The florist's records, on whatever the order has become.
LEMMA RaceRecord ==
    ASSUME Rows, NEW o \in Order, NEW v \in Views,
           \/ StartPreparation(o, v)
           \/ \E c \in Content : UpdateActualComposition(o, v, c)
           \/ MarkReady(o, v),
           UNCHANGED <<keyed, reversed>>
    PROVE  Rows' /\ Onward
<1>1. CASE StartPreparation(o, v)
  <2> DEFINE seed == Seed(v.lines)
  <2>1. /\ actual' = [actual EXCEPT ![o] = seed]
        /\ status' = [status EXCEPT ![o] = "IN_PREPARATION"]
        /\ UNCHANGED <<stock, hold, line, frozen, version, assigned, sale, content, issued>>
    BY <1>1 DEF StartPreparation, stockVars, saleVars
  <2>2. seed \in [Item -> Nat]
    BY ViewParts, SeedType
  <2> HIDE DEF seed
  <2>3. TypeOK' /\ Calm
    BY <2>1, <2>2 DEF Rows, TypeOK, OrderStatus, Calm
  <2> QED
    BY <2>1, <2>3, SameStock
<1>2. ASSUME NEW c \in Content, UpdateActualComposition(o, v, c) PROVE Rows' /\ Onward
  <2>1. /\ version' = [version EXCEPT ![o] = version[o] + 1]
        /\ actual' = [actual EXCEPT ![o] = c]
        /\ UNCHANGED <<stock, hold, line, status, frozen, assigned, sale, content, issued>>
    BY <1>2 DEF UpdateActualComposition, stockVars, saleVars
  <2>2. c \in [Item -> Nat]
    BY ContentAssumption
  <2>3. TypeOK' /\ Calm
    BY <2>1, <2>2 DEF Rows, TypeOK, Calm
  <2> QED
    BY <2>1, <2>3, SameStock
<1>3. CASE MarkReady(o, v)
  <2>1. /\ frozen' = [frozen EXCEPT ![o] = TRUE]
        /\ status' = [status EXCEPT ![o] = "READY"]
        /\ UNCHANGED <<stock, hold, line, actual, version, assigned, sale, content, issued>>
    BY <1>3 DEF MarkReady, stockVars, saleVars
  <2>2. TypeOK' /\ Calm
    BY <2>1 DEF Rows, TypeOK, OrderStatus, Calm
  <2> QED
    BY <2>1, <2>2, SameStock
<1> QED
  BY <1>1, <1>2, <1>3

LEMMA RaceCancel ==
    ASSUME Rows, NEW o \in Order, NEW v \in Views, CancelOrder(o, v), UNCHANGED <<keyed, reversed>>
    PROVE  Rows' /\ Onward
<1>1. /\ hold' = [l \in Line |-> IF l \in v.lines THEN 0 ELSE hold[l]]
      /\ assigned' = [assigned EXCEPT ![o] = @ /\ ~v.assigned]
      /\ status' = [status EXCEPT ![o] = "CANCELLED"]
      /\ UNCHANGED <<stock, line, actual, frozen, version, sale, content, issued>>
  BY DEF CancelOrder, saleVars
<1>2. /\ hold \in [Line -> Nat] /\ hold' \in [Line -> Nat]
      /\ \A l \in Line : hold'[l] <= hold[l]
  BY <1>1 DEF Rows, TypeOK
<1>3. assigned' \in [Order -> BOOLEAN]
  BY <1>1, ViewParts DEF Rows, TypeOK
<1>4. TypeOK' /\ Calm
  BY <1>1, <1>2, <1>3 DEF Rows, TypeOK, OrderStatus, Calm
<1>5. Fits(hold', stock')
  <2>1. stock \in [Item -> Nat] /\ Fits(hold, stock)
    BY DEF Rows, TypeOK
  <2>2. Fits(hold', stock)
    BY <1>2, <2>1, LessFits
  <2> QED
    BY <1>1, <2>2
<1>6. HoldsAreOrdered'
  BY <1>1, <1>2, LineAssumption DEF Rows, HoldsAreOrdered
<1> QED
  BY <1>1, <1>4, <1>5, <1>6, SameLines

-----------------------------------------------------------------------------
LEMMA RaceCreateSale ==
    ASSUME Rows, NEW s \in OrderSale, NEW v, CreateSaleFromOrder(s, v),
           UNCHANGED <<keyed, reversed>>
    PROVE  Rows' /\ Onward
<1>1. s \in Sale /\ SaleOrder[s] \in Order
  BY OrderSales
<1>2. /\ sale[s] = "NONE" /\ ActiveSales(SaleOrder[s]) = {}
      /\ sale' = [sale EXCEPT ![s] = "DRAFT"]
      /\ UNCHANGED <<stock, hold, line, status, actual, frozen, version, assigned, content, issued>>
  BY DEF CreateSaleFromOrder, stockVars, orderVars
<1>3. /\ sale' \in [Sale -> SaleStatus] /\ sale'[s] = "DRAFT"
      /\ \A t \in Sale : t # s => sale'[t] = sale[t]
  BY <1>1, <1>2 DEF Rows, TypeOK, SaleStatus
<1>4. TypeOK'
  BY <1>2, <1>3 DEF Rows, TypeOK
<1>5. Fits(hold', stock') /\ HoldsAreOrdered' /\ OneItemEach'
  BY <1>2 DEF Rows, HoldsAreOrdered, OneItemEach, Current, OneLinePerItem
<1>6. KeysFit'
  BY <1>1, <1>2, <1>3 DEF Rows, KeysFit, PhaseFits, Over
<1>7. OneActiveSale'
  <2> SUFFICES ASSUME NEW p \in Order, NEW t \in ActiveSales(p)', NEW u \in ActiveSales(p)'
               PROVE  t = u
    BY DEF OneActiveSale
  <2>1. CASE p = SaleOrder[s]
    BY <1>2, <1>3, <2>1 DEF ActiveSales
  <2>2. CASE p # SaleOrder[s]
    <3>1. t \in ActiveSales(p) /\ u \in ActiveSales(p)
      BY <1>1, <1>3, <2>2 DEF ActiveSales
    <3> QED
      BY <3>1 DEF Rows, OneActiveSale
  <2> QED
    BY <2>1, <2>2
<1>8. Onward
  BY <1>1, <1>2, <1>3, SameStaysOut DEF Rows, Onward, Over
<1> QED
  BY <1>4, <1>5, <1>6, <1>7, <1>8 DEF Rows

\* completeOrder touches no sale, whether or not its issue was posted before.
LEMMA RaceCompleteOrder ==
    ASSUME Rows, NEW q \in InFlight, q.do = "completeOrder",
           Knows(q, sale, keyed, reversed, issued), WriteCompleteOrder(q)
    PROVE  Rows' /\ Onward
<1> DEFINE o == q.order
           L == q.view.lines
           want == q.view.actual
<1>1. o \in Order /\ q.doc = o /\ want \in [Item -> Nat] /\ L \subseteq Line
  BY Remembered, ViewParts DEF Knows, OrderKinds
<1>2. UNCHANGED reversed
  BY DEF WriteCompleteOrder
<1> HIDE DEF L, want
<1>3. CASE q.replay
  <2>1. /\ status' = [status EXCEPT ![o] = "COMPLETED"]
        /\ UNCHANGED <<stock, hold, line, actual, frozen, version, assigned, sale, content, issued, keyed>>
    BY <1>3 DEF WriteCompleteOrder, IssueOnce, stockVars, saleVars
  <2>2. TypeOK' /\ Calm
    BY <1>2, <2>1 DEF Rows, TypeOK, OrderStatus, Calm
  <2> QED
    BY <2>1, <2>2, SameStock
<1>4. CASE ~q.replay
  <2>1. /\ keyed' = [keyed EXCEPT ![o] = TRUE]
        /\ IssueFor(o, L, want)
        /\ status' = [status EXCEPT ![o] = "COMPLETED"]
        /\ UNCHANGED <<line, actual, frozen, version, assigned, sale, content>>
    BY <1>1, <1>4 DEF WriteCompleteOrder, IssueOnce, CompleteOrder, saleVars, L, want
  <2>2. TypeOK /\ o \in Document /\ o \notin Sale
    BY <1>1, SaleAssumption DEF Rows, Document
  <2>3. /\ stock' \in [Item -> Nat]
        /\ hold' \in [Line -> Nat]
        /\ \A l \in Line : hold'[l] = IF l \in L /\ want[LineItem[l]] > 0 THEN 0 ELSE hold[l]
        /\ Fits(hold', stock')
        /\ issued' \in [Document -> [Item -> Nat]]
        /\ \A e \in Document : e # o => issued'[e] = issued[e]
    BY <1>1, <2>1, <2>2, IssueEffect
  <2>4. \A s \in Sale : issued'[s] = issued[s] /\ keyed'[s] = keyed[s]
    BY <2>1, <2>2, <2>3 DEF Rows, KeysFit, Document
  <2>5. TypeOK'
    BY <2>1, <2>3 DEF Rows, TypeOK, OrderStatus
  <2>6. HoldsAreOrdered'
    BY <2>3, LineAssumption DEF Rows, HoldsAreOrdered
  <2>7. OneItemEach' /\ OneActiveSale'
    BY <2>1 DEF Rows, OneItemEach, Current, OneLinePerItem, OneActiveSale, ActiveSales
  <2>8. KeysFit'
    BY <1>2, <2>1, <2>4 DEF Rows, KeysFit, PhaseFits
  <2>9. Onward
    BY <1>2, <2>1, <2>2, <2>4, SameStaysOut DEF Onward
  <2> QED
    BY <2>3, <2>5, <2>6, <2>7, <2>8, <2>9 DEF Rows
<1> QED
  BY <1>3, <1>4

(***************************************************************************)
(* completeSale: with one key it is free while the sale is in preparation, *)
(* and only then.                                                          *)
(***************************************************************************)
LEMMA RaceCompleteSale ==
    ASSUME Rows, NEW q \in InFlight, q.do = "completeSale",
           Knows(q, sale, keyed, reversed, issued), WriteCompleteSale(q)
    PROVE  Rows' /\ Onward
<1> DEFINE s == q.doc
           o == q.order
           L == q.view.lines
           want == q.view.actual
<1>1. /\ s \in Sale /\ s \in Document /\ o \in Order /\ SaleOrder[s] = o
      /\ want \in [Item -> Nat] /\ L \subseteq Line
      /\ sale[s] # "NONE" /\ (q.replay => OneKey /\ keyed[s])
  BY Remembered, ViewParts, OrderSales DEF Knows, OrderKinds, SaleKinds
<1>2. UNCHANGED reversed
  BY DEF WriteCompleteSale
<1>3. sale \in [Sale -> SaleStatus] /\ sale[s] \in {"DRAFT", "COMPLETED", "ANNULLED"}
  BY <1>1 DEF Rows, TypeOK, SaleStatus
<1>4. OneKey => PhaseFits(s)
  BY <1>1 DEF Rows, KeysFit
<1> HIDE DEF s, L, want
<1>5. CASE q.replay
  <2>1. /\ Turn(s, "DRAFT", "COMPLETED")
        /\ status' = [status EXCEPT ![o] = "COMPLETED"]
        /\ UNCHANGED <<stock, hold, line, actual, frozen, version, assigned, content, issued, keyed>>
    BY <1>5 DEF WriteCompleteSale, IssueOnce, MoveOrder, stockVars, s
  <2>2. sale[s] \in Over
    BY <1>1, <1>4, <1>5 DEF PhaseFits
  <2>3. sale' = sale
    BY <1>3, <2>1, <2>2 DEF Turn, Over
  <2>4. TypeOK' /\ Calm
    BY <1>2, <2>1, <2>3 DEF Rows, TypeOK, OrderStatus, Calm
  <2> QED
    BY <2>1, <2>4, SameStock
<1>6. CASE ~q.replay
  <2>1. /\ OneKey => ~keyed[s]
        /\ keyed' = [keyed EXCEPT ![s] = TRUE]
        /\ want # NoUnits
        /\ IssueFor(s, L, want)
        /\ Turn(s, "DRAFT", "COMPLETED")
        /\ status' = [status EXCEPT ![o] = "COMPLETED"]
        /\ UNCHANGED <<line, actual, frozen, version, assigned, content>>
    BY <1>1, <1>6 DEF WriteCompleteSale, IssueOnce, KeyIsFree, CompleteSaleFromOrder, ForSale,
                      MoveOrder, s, L, want
  <2>2. TypeOK
    BY DEF Rows
  <2>3. /\ stock' \in [Item -> Nat]
        /\ hold' \in [Line -> Nat]
        /\ \A l \in Line : hold'[l] = IF l \in L /\ want[LineItem[l]] > 0 THEN 0 ELSE hold[l]
        /\ Fits(hold', stock')
        /\ issued' \in [Document -> [Item -> Nat]]
        /\ issued[s] = NoUnits => issued'[s] = want
        /\ \A e \in Document : e # s => issued'[e] = issued[e]
    BY <1>1, <2>1, <2>2, IssueEffect
  <2>4. AtMost(issued[s], issued'[s])
    <3>1. issued'[s] = [i \in Item |-> issued[s][i] + want[i]]
      BY <1>1, <2>1, <2>2 DEF IssueFor, TypeOK
    <3> QED
      BY <1>1, <2>2, <3>1 DEF AtMost, TypeOK
  <2>5. /\ sale' \in [Sale -> SaleStatus]
        /\ sale'[s] = IF sale[s] = "DRAFT" THEN "COMPLETED" ELSE sale[s]
        /\ \A t \in Sale : t # s => sale'[t] = sale[t]
    BY <1>1, <1>3, <2>1 DEF Turn, SaleStatus
  <2>6. /\ keyed' \in [Document -> BOOLEAN] /\ keyed'[s]
        /\ \A t \in Sale : t # s => keyed'[t] = keyed[t]
    BY <1>1, <2>1 DEF Rows, KeysFit, Document
  <2>7. \A t \in Sale : t # s => issued'[t] = issued[t]
    BY <2>3 DEF Document
  <2>8. TypeOK'
    BY <2>1, <2>3, <2>5 DEF Rows, TypeOK, OrderStatus
  <2>9. HoldsAreOrdered'
    BY <2>3, LineAssumption DEF Rows, HoldsAreOrdered
  <2>10. OneItemEach'
    BY <2>1 DEF Rows, OneItemEach, Current, OneLinePerItem
  <2>11. OneActiveSale'
    <3>1. \A p \in Order : ActiveSales(p)' \subseteq ActiveSales(p)
      BY <1>1, <1>3, <2>5 DEF ActiveSales
    <3> QED
      BY <3>1 DEF Rows, OneActiveSale
  <2>12. ASSUME OneKey PROVE sale[s] = "DRAFT" /\ issued[s] = NoUnits /\ ~reversed[s]
    BY <1>3, <1>4, <2>1, <2>12 DEF PhaseFits, Over
  <2>13. ASSUME OneKey, NEW t \in Sale PROVE PhaseFits(t)'
    <3>1. CASE t = s
      BY <1>2, <2>1, <2>3, <2>5, <2>6, <2>12, <2>13, <3>1 DEF PhaseFits, Over
    <3>2. CASE t # s
      BY <1>2, <2>5, <2>6, <2>7, <2>13, <3>2 DEF Rows, KeysFit, PhaseFits
    <3> QED
      BY <3>1, <3>2
  <2>14. KeysFit'
    BY <1>2, <2>6, <2>13 DEF Rows, KeysFit
  <2>15. sale[s] \in Over => StaysOut(s)
    BY <2>4, <2>12 DEF StaysOut, Over
  <2>16. Onward
    BY <1>2, <1>3, <2>2, <2>5, <2>6, <2>7, <2>15, SameStaysOut DEF Onward, Over
  <2> QED
    BY <2>3, <2>8, <2>9, <2>10, <2>11, <2>14, <2>16 DEF Rows
<1> QED
  BY <1>5, <1>6

\* What comes back when s has at least that out.
LEMMA BackPart ==
    ASSUME TypeOK, NEW s \in Sale, NEW back, back \in [Item -> Nat], AtMost(back, issued[s]),
           GiveBack(s, back)
    PROVE  /\ stock' \in [Item -> Nat]
           /\ \A i \in Item : stock[i] <= stock'[i]
           /\ issued' \in [Document -> [Item -> Nat]]
           /\ back = issued[s] => issued'[s] = NoUnits
           /\ \A e \in Document : e # s => issued'[e] = issued[e]
           /\ sale' = [sale EXCEPT ![s] = IF sale[s] = "COMPLETED" THEN "ANNULLED" ELSE sale[s]]
<1>1. /\ stock' = [i \in Item |-> stock[i] + back[i]]
      /\ issued' = [issued EXCEPT ![s] = [i \in Item |-> issued[s][i] - back[i]]]
      /\ sale' = [sale EXCEPT ![s] = IF sale[s] = "COMPLETED" THEN "ANNULLED" ELSE sale[s]]
  BY DEF GiveBack, Turn
<1>2. stock \in [Item -> Nat] /\ issued \in [Document -> [Item -> Nat]] /\ s \in Document
  BY DEF TypeOK, Document
<1> DEFINE left == [i \in Item |-> issued[s][i] - back[i]]
<1>3. left \in [Item -> Nat]
  BY <1>2 DEF AtMost
<1>4. back = issued[s] => left = NoUnits
  BY <1>2 DEF NoUnits
<1>5. issued' = [issued EXCEPT ![s] = left]
  BY <1>1
<1> HIDE DEF left
<1>6. /\ issued' \in [Document -> [Item -> Nat]] /\ issued'[s] = left
      /\ \A e \in Document : e # s => issued'[e] = issued[e]
  BY <1>2, <1>3, <1>5
<1> QED
  BY <1>1, <1>2, <1>4, <1>6

\* annulSale: what it saw leave is still out, or has been reversed by another.
LEMMA RaceAnnul ==
    ASSUME Rows, NEW q \in InFlight, q.do = "annulSale",
           Knows(q, sale, keyed, reversed, issued), WriteAnnulSale(q)
    PROVE  Rows' /\ Onward
<1> DEFINE s == q.doc
           o == SaleOrder[s]
           back == q.back
<1>1. /\ s \in Sale /\ s \in Document /\ o \in Order /\ sale[s] \in Over
      /\ back \in [Item -> Nat]
  BY Remembered, OrderSales DEF Knows, SaleKinds
<1>2. IF q.replay THEN reversed[s] /\ back = NoUnits
      ELSE \/ reversed[s]
           \/ AtMost(back, issued[s]) /\ (OneKey => back = issued[s])
  BY DEF Knows
<1>3. /\ UNCHANGED keyed
      /\ q.replay \/ ~reversed[s]
      /\ reversed' = [reversed EXCEPT ![s] = TRUE]
      /\ AnnulSaleOfOrder(s, back)
  BY DEF WriteAnnulSale, NotReversedYet
<1>4. TypeOK /\ issued[s] \in [Item -> Nat] /\ (OneKey => PhaseFits(s))
  BY <1>1 DEF Rows, TypeOK, KeysFit
<1> HIDE DEF s, back
<1>5. AtMost(back, issued[s])
  BY <1>2, <1>3, <1>4 DEF AtMost, NoUnits
<1>6. OneKey => back = issued[s]
  \* A sale that has been reversed has nothing out.
  BY <1>2, <1>3, <1>4 DEF PhaseFits
<1>7. /\ GiveBack(s, back)
      /\ status' = [status EXCEPT ![o] = "READY"]
      /\ hold' = Granted(stock', Current(o))
      /\ UNCHANGED <<line, actual, frozen, version, assigned, content>>
  BY <1>3 DEF AnnulSaleOfOrder, MoveOrder
<1>8. /\ stock' \in [Item -> Nat]
      /\ \A i \in Item : stock[i] <= stock'[i]
      /\ issued' \in [Document -> [Item -> Nat]]
      /\ back = issued[s] => issued'[s] = NoUnits
      /\ \A e \in Document : e # s => issued'[e] = issued[e]
      /\ sale' = [sale EXCEPT ![s] = IF sale[s] = "COMPLETED" THEN "ANNULLED" ELSE sale[s]]
  BY <1>1, <1>4, <1>5, <1>7, BackPart
<1>9. /\ sale' \in [Sale -> SaleStatus] /\ sale'[s] = "ANNULLED"
      /\ \A t \in Sale : t # s => sale'[t] = sale[t]
  BY <1>1, <1>8 DEF Rows, TypeOK, SaleStatus, Over
<1>10. /\ hold' \in [Line -> Nat] /\ Fits(hold', stock') /\ HoldsAreOrdered'
  <2>1. /\ hold \in [Line -> Nat] /\ stock \in [Item -> Nat] /\ Current(o) \subseteq Line
        /\ OneLinePerItem(Current(o)) /\ Fits(hold, stock)
        /\ \A l \in Line : hold[l] <= LineQty[l]
    BY <1>1 DEF Rows, TypeOK, OneItemEach, HoldsAreOrdered, Current
  <2>2. Fits(hold, stock')
    BY <1>8, <2>1, MoreStockFits
  <2>3. /\ hold' \in [Line -> Nat]
        /\ \A l \in Line \ Current(o) : hold'[l] = hold[l]
        /\ \A l \in Current(o) : hold'[l] <= LineQty[l]
    BY <1>7, <1>8, <2>1, GrantedType
  <2>4. Fits(hold', stock')
    BY <1>7, <1>8, <2>1, <2>2, GrantedFits
  <2> QED
    BY <2>1, <2>3, <2>4 DEF HoldsAreOrdered
<1>11. TypeOK'
  BY <1>7, <1>8, <1>9, <1>10 DEF Rows, TypeOK, OrderStatus
<1>12. OneItemEach'
  BY <1>7 DEF Rows, OneItemEach, Current, OneLinePerItem
<1>13. OneActiveSale'
  <2>1. \A p \in Order : ActiveSales(p)' \subseteq ActiveSales(p)
    BY <1>1, <1>9 DEF ActiveSales
  <2> QED
    BY <2>1 DEF Rows, OneActiveSale
<1>14. /\ reversed' \in [Sale -> BOOLEAN] /\ reversed'[s]
       /\ \A t \in Sale : t # s => reversed'[t] = reversed[t]
  BY <1>1, <1>3 DEF Rows, KeysFit
<1>15. \A t \in Sale : t # s => issued'[t] = issued[t]
  BY <1>8 DEF Document
<1>16. ASSUME OneKey, NEW t \in Sale PROVE PhaseFits(t)'
  <2>1. CASE t = s
    BY <1>1, <1>3, <1>4, <1>6, <1>8, <1>9, <1>14, <1>16, <2>1 DEF PhaseFits, Over
  <2>2. CASE t # s
    BY <1>3, <1>9, <1>14, <1>15, <1>16, <2>2 DEF Rows, KeysFit, PhaseFits
  <2> QED
    BY <2>1, <2>2
<1>17. KeysFit'
  BY <1>3, <1>14, <1>16 DEF Rows, KeysFit
<1>18. Onward
  BY <1>3, <1>4, <1>9, <1>14, <1>15, SameStaysOut DEF Onward, Over
<1> QED
  BY <1>10, <1>11, <1>12, <1>13, <1>17, <1>18 DEF Rows

-----------------------------------------------------------------------------
\* What a request remembers of what it reads.

WithView == [do : OrderKinds \cup SaleKinds, doc : Document, order : Order, view : Views,
             replay : BOOLEAN, back : [Item -> Nat]]

SeenAs(q, kind, d, o) ==
    /\ q \in WithView
    /\ q.do = kind /\ q.doc = d /\ q.order = o
    /\ OneLinePerItem(q.view.lines)

LEMMA SeenFits ==
    ASSUME Rows, NEW kind, kind \in OrderKinds \cup SaleKinds, NEW d \in Document, NEW o \in Order
    PROVE  SeenAs(Sees(kind, d, o), kind, d, o)
<1>1. View(o) \in Views /\ OneLinePerItem(View(o).lines)
  BY ViewFits
<1>2. keyed[d] \in BOOLEAN
  BY DEF Rows, KeysFit
<1>3. Sees(kind, d, o) \in WithView
  BY <1>1, <1>2, NoUnitsType DEF Sees, WithView
<1>4. /\ Sees(kind, d, o).do = kind /\ Sees(kind, d, o).doc = d
      /\ Sees(kind, d, o).order = o /\ Sees(kind, d, o).view = View(o)
  BY DEF Sees
<1> QED
  BY <1>1, <1>3, <1>4 DEF SeenAs

LEMMA SeenInFlight ==
    ASSUME NEW q, NEW kind, NEW d, NEW o, SeenAs(q, kind, d, o)
    PROVE  q \in InFlight
BY DEF SeenAs, WithView, InFlight

LEMMA IdleFits == Idle \in InFlight /\ Knows(Idle, sale, keyed, reversed, issued)
BY DEF Idle, InFlight, Knows, OrderKinds, SaleKinds

LEMMA ReadStep ==
    ASSUME RInv, NEW r \in Request, NEW q \in InFlight,
           Knows(q, sale, keyed, reversed, issued), Reads(r, q)
    PROVE  RInv'
<1>1. /\ flight' = [flight EXCEPT ![r] = q]
      /\ UNCHANGED <<stock, hold, line, status, actual, frozen, version, assigned, sale, content,
                     issued, keyed, reversed>>
  BY DEF Reads, vars, stockVars, orderVars, saleVars
<1>2. Rows /\ Aware(flight, sale, keyed, reversed, issued)
  BY DEF RInv
<1>3. TypeOK' /\ Calm
  BY <1>1, <1>2 DEF Rows, TypeOK, Calm
<1>4. Rows' /\ Onward
  BY <1>1, <1>2, <1>3, SameStock
<1>5. Knows(q, sale', keyed', reversed', issued')
  BY <1>1
<1>6. Aware(flight', sale', keyed', reversed', issued')
  BY <1>1, <1>2, <1>4, <1>5, OthersStayAware
<1> QED
  BY <1>2, <1>4, <1>6 DEF RInv

LEMMA ReadOrderStep ==
    ASSUME RInv, NEW r \in Request, NEW kind \in OrderKinds, NEW o \in Order,
           ReadOrder(r, kind, o)
    PROVE  RInv'
<1> DEFINE q == Sees(kind, o, o)
<1>1. Reads(r, q)
  BY DEF ReadOrder
<1>2. Rows /\ o \in Document
  BY DEF RInv, Document
<1>3. SeenAs(q, kind, o, o)
  BY <1>2, SeenFits
<1> HIDE DEF q
<1>4. Knows(q, sale, keyed, reversed, issued)
  BY <1>3 DEF SeenAs, Knows, OrderKinds, SaleKinds
<1>5. q \in InFlight
  BY <1>3, SeenInFlight
<1> QED
  BY <1>1, <1>4, <1>5, ReadStep

LEMMA ReadForSaleStep ==
    ASSUME RInv, NEW r \in Request, NEW s \in OrderSale, ReadOrderForSale(r, s)
    PROVE  RInv'
<1> DEFINE o == SaleOrder[s]
           q == Sees("createSale", s, o)
<1>1. Reads(r, q)
  BY DEF ReadOrderForSale
<1>2. Rows /\ s \in Document /\ o \in Order
  BY OrderSales DEF RInv
<1>3. SeenAs(q, "createSale", s, o)
  BY <1>2, SeenFits DEF SaleKinds
<1> HIDE DEF q
<1>4. Knows(q, sale, keyed, reversed, issued)
  BY <1>3 DEF SeenAs, Knows, OrderKinds, SaleKinds
<1>5. q \in InFlight
  BY <1>3, SeenInFlight
<1> QED
  BY <1>1, <1>4, <1>5, ReadStep

LEMMA ReadSaleStep ==
    ASSUME RInv, NEW r \in Request, NEW s \in OrderSale, ReadSale(r, s)
    PROVE  RInv'
<1>1. PICK step \in {"sale to complete", "sale to annul"} :
         /\ Reads(r, SeesSale(step, s))
         /\ step = "sale to complete" => sale[s] = "DRAFT"
         /\ step = "sale to annul" => sale[s] = "COMPLETED"
  BY DEF ReadSale
<1> DEFINE q == SeesSale(step, s)
<1>2. s \in Sale
  BY OrderSales
<1>3. q \in InFlight
  BY <1>2 DEF SeesSale, InFlight
<1>4. q.do = step /\ q.doc = s
  BY DEF SeesSale
<1> HIDE DEF q
<1>5. Knows(q, sale, keyed, reversed, issued)
  BY <1>1, <1>4 DEF Knows, Over, OrderKinds, SaleKinds
<1>6. Reads(r, q)
  BY <1>1 DEF q
<1> QED
  BY <1>3, <1>5, <1>6, ReadStep

\* completeSale: the sale has left NONE, and a replay has found its key.
LEMMA ReadOrderOfSaleStep ==
    ASSUME RInv, NEW r \in Request, ReadOrderOfSale(r)
    PROVE  RInv'
<1> DEFINE s == flight[r].doc
           o == SaleOrder[s]
           q == [Sees("completeSale", s, o) EXCEPT !.replay = OneKey /\ @]
<1>1. flight[r].do = "sale to complete" /\ Reads(r, q)
  BY DEF ReadOrderOfSale
<1>2. Knows(flight[r], sale, keyed, reversed, issued)
  BY DEF RInv, Aware
<1>3. s \in OrderSale /\ sale[s] # "NONE"
  BY <1>1, <1>2 DEF Knows
<1> HIDE DEF s
<1>4. Rows /\ keyed[s] \in BOOLEAN /\ s \in Document /\ o \in Order
  BY <1>3, OrderSales DEF RInv, Rows, KeysFit
<1> DEFINE seeing == Sees("completeSale", s, o)
<1>5. SeenAs(seeing, "completeSale", s, o)
  BY <1>4, SeenFits DEF SaleKinds
<1>6. seeing.replay = keyed[s]
  BY DEF Sees
<1>7. q = [seeing EXCEPT !.replay = OneKey /\ @]
  OBVIOUS
<1> HIDE DEF seeing, q
<1>8. SeenAs(q, "completeSale", s, o) /\ (q.replay => OneKey /\ keyed[s])
  BY <1>4, <1>5, <1>6, <1>7 DEF SeenAs, WithView
<1>9. Knows(q, sale, keyed, reversed, issued)
  BY <1>3, <1>8 DEF SeenAs, Knows, OrderKinds, SaleKinds
<1>10. q \in InFlight
  BY <1>8, SeenInFlight
<1> QED
  BY <1>1, <1>9, <1>10, ReadStep

\* annulSale: the movements it found are what the sale has out.
LEMMA ReadMovementsStep ==
    ASSUME RInv, NEW r \in Request, ReadMovements(r)
    PROVE  RInv'
<1> DEFINE s == flight[r].doc
           o == SaleOrder[s]
           units == IF reversed[s] THEN NoUnits ELSE issued[s]
           q == [Sees("annulSale", s, o) EXCEPT !.replay = reversed[s], !.back = units]
<1>1. flight[r].do = "sale to annul" /\ Reads(r, q)
  BY DEF ReadMovements
<1>2. Knows(flight[r], sale, keyed, reversed, issued)
  BY DEF RInv, Aware
<1>3. s \in OrderSale /\ sale[s] \in Over
  BY <1>1, <1>2 DEF Knows
<1> HIDE DEF s
<1>4. Rows /\ reversed[s] \in BOOLEAN /\ s \in Document /\ o \in Order
  BY <1>3, OrderSales DEF RInv, Rows, KeysFit
<1>5. /\ units \in [Item -> Nat]
      /\ IF reversed[s] THEN units = NoUnits ELSE units = issued[s] /\ AtMost(units, issued[s])
  BY <1>4, NoUnitsType DEF Rows, TypeOK, AtMost
<1> HIDE DEF units
<1> DEFINE seeing == Sees("annulSale", s, o)
<1>6. SeenAs(seeing, "annulSale", s, o)
  BY <1>4, SeenFits DEF SaleKinds
<1>7. q = [seeing EXCEPT !.replay = reversed[s], !.back = units]
  OBVIOUS
<1> HIDE DEF seeing, q
<1>8. SeenAs(q, "annulSale", s, o) /\ q.replay = reversed[s] /\ q.back = units
  BY <1>4, <1>5, <1>6, <1>7 DEF SeenAs, WithView
<1>9. Knows(q, sale, keyed, reversed, issued)
  BY <1>3, <1>4, <1>5, <1>8 DEF SeenAs, Knows, OrderKinds, SaleKinds
<1>10. q \in InFlight
  BY <1>8, SeenInFlight
<1> QED
  BY <1>1, <1>9, <1>10, ReadStep

-----------------------------------------------------------------------------
LEMMA WriteRows ==
    ASSUME Rows, NEW q \in InFlight, Knows(q, sale, keyed, reversed, issued),
           \/ q.do \in OrderKinds \cup {"createSale"} /\ WriteOrder(q)
           \/ q.do = "completeOrder" /\ WriteCompleteOrder(q)
           \/ q.do = "completeSale" /\ WriteCompleteSale(q)
           \/ q.do = "annulSale" /\ WriteAnnulSale(q)
    PROVE  Rows' /\ Onward
<1>1. CASE q.do \in OrderKinds \cup {"createSale"} /\ WriteOrder(q)
  <2> DEFINE o == q.order
             v == q.view
  <2>1. q.do \in OrderKinds \cup SaleKinds
    BY <1>1 DEF SaleKinds
  <2>2. o \in Order /\ v \in Views /\ OneLinePerItem(v.lines) /\ UNCHANGED <<keyed, reversed>>
    BY <1>1, <2>1, Remembered DEF Knows, WriteOrder
  <2>3. \/ ReserveOrder(o, v)
        \/ \E L \in SUBSET New(o) : SetPlannedComposition(o, v, L)
        \/ StartPreparation(o, v)
        \/ \E c \in Content : UpdateActualComposition(o, v, c)
        \/ MarkReady(o, v)
        \/ AssembleOrder(o, v)
        \/ CancelOrder(o, v)
        \/ q.do = "createSale" /\ CreateSaleFromOrder(q.doc, v)
    BY <1>1 DEF WriteOrder
  <2>4. q.do = "createSale" => q.doc \in OrderSale
    BY DEF Knows, SaleKinds
  <2> HIDE DEF o, v
  <2> QED
    BY <2>2, <2>3, <2>4, RaceReserve, RacePlan, RaceRecord, RaceAssemble, RaceCancel, RaceCreateSale
<1> QED
  BY <1>1, RaceCompleteOrder, RaceCompleteSale, RaceAnnul

LEMMA WriteStep == ASSUME RInv, NEW r \in Request, Write(r) PROVE RInv'
<1> DEFINE q == flight[r]
<1>1. Rows /\ Aware(flight, sale, keyed, reversed, issued)
  BY DEF RInv
<1>2. q \in InFlight /\ Knows(q, sale, keyed, reversed, issued)
  BY <1>1 DEF Aware
<1>3. /\ \/ q.do \in OrderKinds \cup {"createSale"} /\ WriteOrder(q)
         \/ q.do = "completeOrder" /\ WriteCompleteOrder(q)
         \/ q.do = "completeSale" /\ WriteCompleteSale(q)
         \/ q.do = "annulSale" /\ WriteAnnulSale(q)
      /\ flight' = [flight EXCEPT ![r] = Idle]
  BY DEF Write
<1> HIDE DEF q
<1>4. Rows' /\ Onward
  BY <1>1, <1>2, <1>3, WriteRows
<1>5. Idle \in InFlight /\ Knows(Idle, sale', keyed', reversed', issued')
  BY DEF Idle, InFlight, Knows, OrderKinds, SaleKinds
<1>6. Aware(flight', sale', keyed', reversed', issued')
  BY <1>1, <1>3, <1>4, <1>5, OthersStayAware
<1> QED
  BY <1>1, <1>4, <1>6 DEF RInv

LEMMA PrepareStep == ASSUME RInv, Prepare PROVE RInv'
<1>1. Rows /\ Aware(flight, sale, keyed, reversed, issued)
  BY DEF RInv
<1>2. UNCHANGED <<keyed, reversed>> /\ UNCHANGED flight
  BY DEF Prepare
<1>3. ASSUME NEW i \in Item, Arrive(i) PROVE Rows' /\ Onward
  BY <1>1, <1>2, <1>3, RaceArrive
<1>4. ASSUME NEW o \in Order,
             \/ CreateOrder(o)
             \/ \E L \in SUBSET New(o) : SetPlannedComposition(o, View(o), L)
             \/ AssembleOrder(o, View(o))
             \/ Assign(o, View(o))
      PROVE  Rows' /\ Onward
  <2>1. View(o) \in Views /\ OneLinePerItem(View(o).lines)
    BY <1>1, ViewFits
  <2>2. CASE CreateOrder(o)
    BY <1>1, <1>2, <2>2, RaceCreate
  <2>3. ASSUME NEW L \in SUBSET New(o), SetPlannedComposition(o, View(o), L)
        PROVE  Rows' /\ Onward
    BY <1>1, <1>2, <2>3, RacePlan
  <2>4. CASE AssembleOrder(o, View(o))
    BY <1>1, <1>2, <2>1, <2>4, RaceAssemble
  <2>5. CASE Assign(o, View(o))
    BY <1>1, <1>2, <2>5, RaceAssign
  <2> QED
    BY <1>4, <2>2, <2>3, <2>4, <2>5
<1>5. Rows' /\ Onward
  BY <1>3, <1>4 DEF Prepare
<1>6. \A r \in Request : Knows(flight[r], sale', keyed', reversed', issued')
  BY <1>1, <1>5, KnowledgeLasts DEF Aware
<1>7. Aware(flight', sale', keyed', reversed', issued')
  BY <1>1, <1>2, <1>6 DEF Aware
<1> QED
  BY <1>1, <1>5, <1>7 DEF RInv

LEMMA RaceInitInv == RaceInit => RInv
<1> SUFFICES ASSUME RaceInit PROVE RInv
  OBVIOUS
<1>1. IInv
  BY InitInv DEF RaceInit
<1>2. KeysFit
  BY DEF RaceInit, Init, KeysFit, PhaseFits, Over, Document
<1>3. Rows
  BY <1>1, <1>2 DEF IInv, Rows
<1>4. Aware(flight, sale, keyed, reversed, issued)
  BY IdleFits DEF RaceInit, Aware
<1> QED
  BY <1>3, <1>4 DEF RInv

LEMMA RaceNextInv == ASSUME RInv, RaceNext PROVE RInv'
<1>1. CASE Prepare
  BY <1>1, PrepareStep
<1>2. ASSUME NEW r \in Request,
             \/ \E kind \in Kinds \cap OrderKinds, o \in Order : ReadOrder(r, kind, o)
             \/ \E s \in OrderSale : ReadOrderForSale(r, s) \/ ReadSale(r, s)
             \/ ReadOrderOfSale(r)
             \/ ReadMovements(r)
             \/ Fail(r)
             \/ Write(r)
      PROVE  RInv'
  <2>1. CASE Fail(r)
    BY <2>1, IdleFits, ReadStep DEF Fail
  <2> QED
    BY <1>2, <2>1, ReadOrderStep, ReadForSaleStep, ReadSaleStep, ReadOrderOfSaleStep,
       ReadMovementsStep, WriteStep
<1> QED
  BY <1>1, <1>2 DEF RaceNext, OrderSale

LEMMA RaceStutterInv == ASSUME RInv, UNCHANGED raceVars PROVE RInv'
<1>1. UNCHANGED <<stock, hold, line, status, actual, frozen, version, assigned, sale, content,
                  issued, flight, keyed, reversed>>
  BY DEF raceVars, vars, stockVars, orderVars, saleVars
<1>2. Rows /\ Aware(flight, sale, keyed, reversed, issued)
  BY DEF RInv
<1>3. TypeOK' /\ Calm
  BY <1>1, <1>2 DEF Rows, TypeOK, Calm
<1>4. Rows'
  BY <1>1, <1>2, <1>3, SameStock
<1>5. Aware(flight', sale', keyed', reversed', issued')
  BY <1>1, <1>2
<1> QED
  BY <1>2, <1>4, <1>5 DEF RInv

LEMMA RaceInvHolds == RaceSpec => []RInv
<1>1. RInv /\ [RaceNext]_raceVars => RInv'
  BY RaceNextInv, RaceStutterInv
<1> QED
  BY RaceInitInv, <1>1, PTL DEF RaceSpec

LEMMA RacePromises == RInv => RaceTypeOK /\ PromisesAreCovered
<1> SUFFICES ASSUME RInv PROVE RaceTypeOK /\ PromisesAreCovered
  OBVIOUS
<1>1. RaceTypeOK
  BY DEF RInv, Rows, Aware, KeysFit, RaceTypeOK
<1>2. PromisesAreCovered
  BY CoveredMeansFits DEF RInv, Rows, PromisesAreCovered, HoldsAreOrdered
<1> QED
  BY <1>1, <1>2

(***************************************************************************)
(* However many requests overlap, however old their views are and whatever *)
(* idempotency keys they carry: no quantity goes below zero, every row     *)
(* stays what the schema allows, and no unit is promised twice.            *)
(***************************************************************************)
THEOREM OverlapsNeverOversell == RaceSpec => [](RaceTypeOK /\ PromisesAreCovered)
BY RaceInvHolds, RacePromises, PTL

(***************************************************************************)
(* If, besides, each client completes a sale with one Idempotency-Key, a   *)
(* sale is COMPLETED exactly while it has something out of the stock, and  *)
(* an order has one sale at most that is not ANNULLED.  Without that       *)
(* (OneKey FALSE) a second completeSale can issue after annulSale has read *)
(* what there is to give back, and the ANNULLED sale keeps that issue.     *)
(***************************************************************************)
THEOREM OverlapsAlwaysKeepTheStock == OneKey => (RaceSpec => []OverlapsKeepTheStock)
<1>1. OneKey /\ RInv => OverlapsKeepTheStock
  <2> SUFFICES ASSUME OneKey, RInv PROVE OverlapsKeepTheStock
    OBVIOUS
  <2>1. ASSUME NEW s \in Sale, NEW t \in Sale,
               SaleOrder[s] = SaleOrder[t], SaleOrder[s] # Counter,
               {sale[s], sale[t]} \subseteq {"DRAFT", "COMPLETED"}
        PROVE  s = t
    <3>1. SaleOrder[s] \in Order
      BY <2>1, SaleAssumption
    <3>2. s \in ActiveSales(SaleOrder[s]) /\ t \in ActiveSales(SaleOrder[s])
      BY <2>1 DEF ActiveSales
    <3> QED
      BY <3>1, <3>2 DEF RInv, Rows, OneActiveSale
  <2>2. SalesMatchIssues
    BY <2>1 DEF RInv, Rows, KeysFit, PhaseFits, SalesMatchIssues
  <2> QED
    BY <2>2, RacePromises DEF OverlapsKeepTheStock
<1>2. (OneKey /\ RInv) /\ [RaceNext]_raceVars => (OneKey /\ RInv)'
  BY RaceNextInv, RaceStutterInv
<1> QED
  BY RaceInitInv, <1>1, <1>2, PTL DEF RaceSpec

=============================================================================
