------------------------ MODULE ReservationRaceProofs ------------------------
(***************************************************************************)
(* Proofs about ReservationRace, for any number of transactions, orders    *)
(* and items: whatever requests overlap, no more is reserved of an item    *)
(* than there is, and balances are the sums of their reservations as long  *)
(* as no two requests for one order overlap.                               *)
(*                                                                         *)
(* A transaction that holds the lock of a balance knows the reservations   *)
(* of the item as they will be when it commits: nobody else commits a      *)
(* change to them, since everybody locks the balances of all rows written  *)
(* before committing.  So what it sees, and not what is committed, has to  *)
(* fit the balance it is going to write.                                   *)
(***************************************************************************)
EXTENDS ReservationRace, QuantitiesProofs, FiniteSetTheorems, TLAPS

IsPart(f, D, R) == DOMAIN f \subseteq D /\ f \in [DOMAIN f -> R]

Bal == {b \in [onHand : Nat, reserved : Nat] : b.reserved <= b.onHand}

\* r is a record of a transaction.
IsTx(r) ==
    r = [pc |-> r.pc, op |-> r.op, order |-> r.order, want |-> r.want, found |-> r.found,
         next |-> r.next, wrote |-> r.wrote, locked |-> r.locked]

UnderWay(r) == r.pc \in {"find", "release", "lines", "rows"}

\* The item of the line that r is at.
LineOf(r) == Lines[r.order][r.next]

\* What r, the state of transaction t, has found, written and locked.
Shaped(t, r) ==
    /\ IsTx(r)
    /\ r.pc \in {"idle", "find", "release", "lines", "rows", "committed", "aborted"}
    /\ IsPart(r.found, Row, Nat)
    /\ IsPart(r.wrote, Row, Nat)
    /\ IsPart(r.locked, Item, Bal)
    /\ r.next \in Nat \ {0}
    /\ UnderWay(r) => r.order \in Order /\ r.want \in [Item -> Nat]

\* It writes rows of its order, positive ones only of its own for lines it has
\* been at, and locks the balances of what it has written before it goes on.
Orderly(t, r) ==
    /\ r.pc \notin {"release", "lines", "rows"} => DOMAIN r.wrote = {} /\ DOMAIN r.locked = {}
    /\ \A x \in DOMAIN r.wrote :
          /\ x.order = r.order
          /\ r.wrote[x] > 0 => /\ x.by = t
                               /\ \E k \in 1 .. r.next - 1 : x.item = Lines[r.order][k]
    /\ r.pc = "release" =>
          /\ \A x \in DOMAIN r.found : x.order = r.order
          /\ DOMAIN r.wrote \subseteq DOMAIN r.found
          /\ \A x \in DOMAIN r.wrote : r.wrote[x] = 0
          /\ DOMAIN r.locked # {} => DOMAIN r.found \subseteq DOMAIN r.wrote
    /\ r.pc \in {"lines", "rows"} => \A x \in DOMAIN r.wrote : x.item \in DOMAIN r.locked
    /\ r.pc = "rows" =>
          /\ r.next <= Len(Lines[r.order])
          /\ LineOf(r) \in DOMAIN r.locked
          /\ \A x \in DOMAIN r.found : x.order = r.order /\ x.item = LineOf(r)

\* What it sees fits what it is going to store as stock, ...
Fits(r, rows) ==
    \A i \in DOMAIN r.locked : TotalOn(r.wrote ++ rows, RowsOf(i)) <= r.locked[i].onHand

\* ... and is what it is going to store as reserved.
Reckoned(r, rows) ==
    \A i \in DOMAIN r.locked : TotalOn(r.wrote ++ rows, RowsOf(i)) = r.locked[i].reserved

\* What it has found under the lock is what it still sees.
Holds(r, rows) ==
    r.pc = "rows" => \A x \in DOMAIN r.found : r.found[x] = (r.wrote ++ rows)[x]

\* What it has found without a lock is still there.
StillThere(r, rows) ==
    r.pc = "release" => \A x \in DOMAIN r.found : r.found[x] = rows[x]

\* Its own rows are not yet committed.
Fresh(t, r, rows) ==
    r.pc \notin {"committed", "aborted"} => \A x \in Row : x.by = t => rows[x] = 0

LocksApart(q, r) == DOMAIN q.locked \cap DOMAIN r.locked = {}

OrdersApart(q, r) == UnderWay(q) /\ UnderWay(r) => q.order # r.order

CommittedOK ==
    /\ row \in [Row -> Nat]
    /\ balance \in [Item -> Bal]
    /\ tx = [t \in Tx |-> tx[t]]
    /\ NeverOverReserved
    /\ ReservedIsActive

\* Of transaction t, whatever others do.
Sound(t, r, rows) == Shaped(t, r) /\ Orderly(t, r) /\ Fits(r, rows) /\ Holds(r, rows) /\ Fresh(t, r, rows)

\* Of transaction t, while requests for its order do not overlap.
Exact(r, rows) == Reckoned(r, rows) /\ StillThere(r, rows)

IInv ==
    /\ CommittedOK
    /\ \A t \in Tx : Sound(t, tx[t], row)
    /\ \A t, u \in Tx : t # u => LocksApart(tx[t], tx[u])
    /\ ~collided =>
          /\ \A t \in Tx : Exact(tx[t], row)
          /\ \A t, u \in Tx : t # u => OrdersApart(tx[t], tx[u])

-----------------------------------------------------------------------------
(***************************************************************************)
(* What a transaction has prepared to commit: a request that reserves or   *)
(* releases leaves the stock of the items it has locked as it is; one that *)
(* issues takes what it wants of every line it has been at, whose          *)
(* reservations it has ended, and nothing of other items.                  *)
(***************************************************************************)
Visits(r) == {Lines[r.order][k] : k \in 1 .. r.next - 1}

LineRows(o, i) == {x \in Row : x.order = o /\ x.item = i}

Cleared(r, rows, i) == \A x \in LineRows(r.order, i) : (r.wrote ++ rows)[x] = 0

LeavesStock(r, bal) == \A i \in DOMAIN r.locked : r.locked[i].onHand = bal[i].onHand

TakesStock(r, bal) ==
    \A i \in Visits(r) :
        i \in DOMAIN r.locked /\ r.locked[i].onHand = bal[i].onHand - r.want[i]

\* At the rows of its line it has not taken anything yet, and has found them all.
AtRows(r, rows, bal) ==
    r.pc = "rows" =>
        /\ r.locked[LineOf(r)].onHand = bal[LineOf(r)].onHand
        /\ \A x \in LineRows(r.order, LineOf(r)) :
              x \notin DOMAIN r.found => (r.wrote ++ rows)[x] = 0

\* It has touched nothing but the lines it has been at and the one it is at.
KeepsToLines(r) ==
    /\ \A x \in DOMAIN r.wrote : x.item \in Visits(r)
    /\ \A i \in DOMAIN r.locked : i \in Visits(r) \/ (r.pc = "rows" /\ i = LineOf(r))

Issues(r, rows, bal) ==
    /\ r.pc \in {"lines", "rows"} /\ r.want \in [Item -> 1 .. MaxQty]
    /\ KeepsToLines(r)
    /\ TakesStock(r, bal)
    /\ \A i \in Visits(r) : Cleared(r, rows, i)
    /\ AtRows(r, rows, bal)

Work(r, rows, bal) ==
    /\ r.pc = "idle" => r.next = 1
    /\ UnderWay(r) =>
          /\ r.op \in {"reserve", "release", "issue"}
          /\ r.op # "issue" => r.pc # "rows" /\ LeavesStock(r, bal)
          /\ r.op = "issue" => Issues(r, rows, bal)

WInv == IInv /\ \A t \in Tx : Work(tx[t], row, balance)

-----------------------------------------------------------------------------
\* Functions laid over each other.

LEMMA Over ==
    ASSUME NEW f, NEW g
    PROVE  /\ DOMAIN (f ++ g) = DOMAIN f \cup DOMAIN g
           /\ \A x \in DOMAIN f : (f ++ g)[x] = f[x]
           /\ \A x \in DOMAIN g : x \notin DOMAIN f => (f ++ g)[x] = g[x]
BY DEF ++

LEMMA OnlyOne ==
    ASSUME NEW x, NEW v
    PROVE  DOMAIN Only(x, v) = {x} /\ Only(x, v)[x] = v
BY DEF Only

LEMMA OverPart ==
    ASSUME NEW D, NEW R, NEW f, IsPart(f, D, R), NEW g, IsPart(g, D, R)
    PROVE  IsPart(f ++ g, D, R)
<1>1. DOMAIN f \subseteq D /\ DOMAIN g \subseteq D
  BY DEF IsPart
<1>2. \A x \in DOMAIN f \cup DOMAIN g :
        (IF x \in DOMAIN f THEN f[x] ELSE g[x]) \in R
  BY DEF IsPart
<1> QED
  BY <1>1, <1>2 DEF IsPart, ++

LEMMA OnlyPart ==
    ASSUME NEW D, NEW R, NEW x \in D, NEW v \in R
    PROVE  IsPart(Only(x, v), D, R)
BY DEF IsPart, Only

LEMMA OnlyOver ==
    ASSUME NEW f, NEW x, NEW v
    PROVE  /\ DOMAIN (Only(x, v) ++ f) = {x} \cup DOMAIN f
           /\ (Only(x, v) ++ f)[x] = v
           /\ \A y \in DOMAIN f : y # x => (Only(x, v) ++ f)[y] = f[y]
BY DEF ++, Only

LEMMA OnlyOverPart ==
    ASSUME NEW D, NEW R, NEW f, IsPart(f, D, R), NEW x \in D, NEW v \in R
    PROVE  IsPart(Only(x, v) ++ f, D, R)
<1>1. IsPart(Only(x, v), D, R)
  BY OnlyPart
<1> QED
  BY <1>1, OverPart

LEMMA PartAt ==
    ASSUME NEW D, NEW R, NEW f, IsPart(f, D, R), NEW x \in DOMAIN f
    PROVE  x \in D /\ f[x] \in R
BY DEF IsPart

LEMMA NothingPart ==
    ASSUME NEW D, NEW R
    PROVE  DOMAIN <<>> = {} /\ IsPart(<<>>, D, R)
<1>1. DOMAIN <<>> = {}
  OBVIOUS
<1> QED
  BY <1>1 DEF IsPart

\* The rows as they are seen by a transaction that wrote some.
LEMMA SeenType ==
    ASSUME NEW wrote, IsPart(wrote, Row, Nat), NEW rows \in [Row -> Nat]
    PROVE  /\ wrote ++ rows \in [Row -> Nat]
           /\ \A x \in Row : (wrote ++ rows)[x] \in Nat
           /\ \A x \in DOMAIN wrote : x \in Row /\ (wrote ++ rows)[x] = wrote[x]
           /\ \A x \in Row \ DOMAIN wrote : (wrote ++ rows)[x] = rows[x]
<1>1. \A x \in DOMAIN wrote \cup Row :
         (IF x \in DOMAIN wrote THEN wrote[x] ELSE rows[x]) \in Nat
  BY DEF IsPart
<1>2. DOMAIN wrote \cup Row = Row /\ DOMAIN rows = Row
  BY DEF IsPart
<1>3. wrote ++ rows \in [Row -> Nat]
  BY <1>1, <1>2 DEF ++
<1>4. \A x \in Row : (wrote ++ rows)[x] \in Nat
  BY <1>3
<1> QED
  BY <1>2, <1>3, <1>4 DEF ++, IsPart


-----------------------------------------------------------------------------
\* Totals over the rows of an item.

LEMMA RowsFinite ==
    /\ IsFiniteSet(Row)
    /\ \A i : RowsOf(i) \subseteq Row /\ IsFiniteSet(RowsOf(i))
<1> DEFINE P == ((Tx \cup {"before"}) \X Order) \X Item
           m == [p \in P |-> [by |-> p[1][1], order |-> p[1][2], item |-> p[2]]]
<1>1. IsFiniteSet(Tx \cup {"before"})
  BY RaceAssumption, FS_Singleton, FS_Union
<1>2. IsFiniteSet(P)
  BY <1>1, RaceAssumption, FS_Product
<1>3. m \in Surjection(P, Row)
  <2>1. m \in [P -> Row]
    BY DEF Row
  <2>2. ASSUME NEW x \in Row PROVE \E p \in P : m[p] = x
    <3>1. <<<<x.by, x.order>>, x.item>> \in P
      BY DEF Row
    <3>2. m[<<<<x.by, x.order>>, x.item>>] = x
      BY <3>1 DEF Row
    <3> QED
      BY <3>1, <3>2
  <2> QED
    BY <2>1, <2>2 DEF Surjection
<1>4. IsFiniteSet(Row)
  BY <1>2, <1>3, FS_Surjection
<1>5. ASSUME NEW i PROVE RowsOf(i) \subseteq Row /\ IsFiniteSet(RowsOf(i))
  <2>1. RowsOf(i) \in SUBSET Row
    BY DEF RowsOf
  <2> QED
    BY <2>1, <1>4, FS_Subset
<1> QED
  BY <1>4, <1>5

LEMMA RowTotal ==
    ASSUME NEW rows \in [Row -> Nat], NEW S, S \subseteq Row
    PROVE  IsFiniteSet(S) /\ TotalOn(rows, S) \in Nat
<1>1. IsFiniteSet(S)
  BY RowsFinite, FS_Subset
<1>2. \A x \in S : rows[x] \in Nat
  OBVIOUS
<1> QED
  BY <1>1, <1>2, TotalNat

\* Rows that are zero at some more places have no larger total.
LEMMA FewerRows ==
    ASSUME NEW old \in [Row -> Nat], NEW new \in [Row -> Nat], NEW S, S \subseteq Row,
           \A x \in S : new[x] = old[x] \/ new[x] = 0
    PROVE  TotalOn(new, S) <= TotalOn(old, S)
<1>1. IsFiniteSet(S)
  BY RowTotal
<1>2. \A x \in S : new[x] \in Nat /\ old[x] \in Nat /\ new[x] <= old[x]
  OBVIOUS
<1> QED
  BY <1>1, <1>2, TotalMono, Zenon

\* One row more.
LEMMA OneRow ==
    ASSUME NEW old, NEW new, NEW S, NEW x,
           old \in [Row -> Nat], new \in [Row -> Nat], S \subseteq Row, x \in S,
           \A y \in S : y # x => new[y] = old[y]
    PROVE  /\ TotalOn(new, S) = TotalOn(old, S) - old[x] + new[x]
           /\ TotalOn(new, S) \in Nat /\ TotalOn(old, S) \in Nat
<1>1. IsFiniteSet(S)
  BY RowTotal
<1>2. \A y \in S : old[y] \in Nat /\ new[y] \in Nat
  OBVIOUS
<1>3. TotalOn(new, S) = TotalOn(old, S) - old[x] + new[x]
  BY <1>1, <1>2, TotalExcept, Zenon
<1> QED
  BY <1>3, RowTotal

\* The rows of `own` are ended by what the transaction wrote; the others of `all` stand.
Ends(seen, rows, own, all) ==
    /\ own \subseteq all
    /\ \A x \in own : seen[x] = 0
    /\ \A x \in all : x \notin own => seen[x] = rows[x]
LEMMA RowsRelieved ==
    ASSUME NEW rows, NEW seen, NEW own, NEW all,
           rows \in [Row -> Nat], seen \in [Row -> Nat], all \subseteq Row,
           Ends(seen, rows, own, all)
    PROVE  /\ TotalOn(rows, all) = TotalOn(seen, all) + TotalOn(rows, own)
           /\ TotalOn(seen, all) \in Nat /\ TotalOn(rows, own) \in Nat
<1> DEFINE left == all \ own
<1>1. own \cup left = all /\ own \cap left = {} /\ own \subseteq Row
  BY DEF Ends
<1>2. (\A x \in own : seen[x] = 0) /\ \A x \in left : seen[x] = rows[x]
  BY DEF Ends
<1> HIDE DEF left
<1>3. left \subseteq Row /\ IsFiniteSet(own) /\ IsFiniteSet(left)
  BY <1>1, RowTotal
<1>4. \A k \in own \cup left : seen[k] \in Nat /\ rows[k] \in Nat
  BY <1>1, <1>3
<1>5. TotalOn(seen, all) = TotalOn(seen, own) + TotalOn(seen, left)
  BY <1>1, <1>3, <1>4, TotalSplit, Zenon
<1>6. TotalOn(rows, all) = TotalOn(rows, own) + TotalOn(rows, left)
  BY <1>1, <1>3, <1>4, TotalSplit, Zenon
<1>7. TotalOn(seen, own) = 0
  BY <1>2, TotalZero, Zenon
<1>8. TotalOn(seen, left) = TotalOn(rows, left)
  BY <1>2, TotalSame, Zenon
<1>9. TotalOn(rows, own) \in Nat /\ TotalOn(rows, left) \in Nat
  BY <1>1, <1>3, RowTotal
<1> QED
  BY <1>5, <1>6, <1>7, <1>8, <1>9

\* What is laid over what was written is seen, and the rest as before.
LEMMA SeenMore ==
    ASSUME NEW wrote, IsPart(wrote, Row, Nat), NEW rows \in [Row -> Nat],
           NEW d, IsPart(d, Row, Nat)
    PROVE  /\ IsPart(d ++ wrote, Row, Nat)
           /\ (d ++ wrote) ++ rows \in [Row -> Nat]
           /\ \A x \in DOMAIN d : x \in Row /\ ((d ++ wrote) ++ rows)[x] = d[x]
           /\ \A x \in Row \ DOMAIN d : ((d ++ wrote) ++ rows)[x] = (wrote ++ rows)[x]
<1>1. IsPart(d ++ wrote, Row, Nat)
  BY OverPart
<1>2. /\ (d ++ wrote) ++ rows \in [Row -> Nat]
      /\ \A x \in DOMAIN (d ++ wrote) : x \in Row /\ ((d ++ wrote) ++ rows)[x] = (d ++ wrote)[x]
      /\ \A x \in Row \ DOMAIN (d ++ wrote) : ((d ++ wrote) ++ rows)[x] = rows[x]
  BY <1>1, SeenType
<1>3. /\ DOMAIN (d ++ wrote) = DOMAIN d \cup DOMAIN wrote
      /\ \A x \in DOMAIN d : (d ++ wrote)[x] = d[x]
      /\ \A x \in DOMAIN wrote : x \notin DOMAIN d => (d ++ wrote)[x] = wrote[x]
  BY Over
<1>4. /\ \A x \in DOMAIN wrote : x \in Row /\ (wrote ++ rows)[x] = wrote[x]
      /\ \A x \in Row \ DOMAIN wrote : (wrote ++ rows)[x] = rows[x]
  BY SeenType
<1> QED
  BY <1>1, <1>2, <1>3, <1>4


-----------------------------------------------------------------------------
\* What a transaction sees and locks, before it goes on.

\* What is committed.
Stands(rows, bal) ==
    /\ rows \in [Row -> Nat] /\ bal \in [Item -> Bal]
    /\ \A j \in Item : TotalOn(rows, RowsOf(j)) <= bal[j].onHand
AddsUp(rows, bal) == \A j \in Item : bal[j].reserved = TotalOn(rows, RowsOf(j))

LEMMA ShapedParts ==
    ASSUME NEW t, NEW r, Shaped(t, r)
    PROVE  /\ IsPart(r.found, Row, Nat) /\ IsPart(r.wrote, Row, Nat)
           /\ IsPart(r.locked, Item, Bal)
BY DEF Shaped

LEMMA BalanceSeen ==
    ASSUME NEW locked, IsPart(locked, Item, Bal), NEW bal \in [Item -> Bal], NEW i \in Item
    PROVE  /\ (locked ++ bal)[i] \in Bal
           /\ i \in DOMAIN locked => (locked ++ bal)[i] = locked[i]
           /\ i \notin DOMAIN locked => (locked ++ bal)[i] = bal[i]
<1>1. DOMAIN bal = Item /\ bal[i] \in Bal
  OBVIOUS
<1>2. /\ i \in DOMAIN locked => (locked ++ bal)[i] = locked[i]
      /\ i \notin DOMAIN locked => (locked ++ bal)[i] = bal[i]
  BY <1>1 DEF ++
<1>3. i \in DOMAIN locked => locked[i] \in Bal
  BY DEF IsPart
<1> QED
  BY <1>1, <1>2, <1>3

LEMMA SeenFits ==
    ASSUME NEW rows, NEW bal, NEW t, NEW r, NEW i,
           Stands(rows, bal), Sound(t, r, rows), i \in Item
    PROVE  TotalOn(r.wrote ++ rows, RowsOf(i)) <= (r.locked ++ bal)[i].onHand
<1>0. /\ rows \in [Row -> Nat] /\ bal \in [Item -> Bal]
      /\ \A j \in Item : TotalOn(rows, RowsOf(j)) <= bal[j].onHand
  BY DEF Stands
<1>1. IsPart(r.wrote, Row, Nat) /\ IsPart(r.locked, Item, Bal)
  BY ShapedParts DEF Sound
<1>2. /\ i \in DOMAIN r.locked => (r.locked ++ bal)[i] = r.locked[i]
      /\ i \notin DOMAIN r.locked => (r.locked ++ bal)[i] = bal[i]
  BY <1>0, <1>1, BalanceSeen
<1>3. CASE i \in DOMAIN r.locked
  BY <1>2, <1>3 DEF Sound, Fits
<1>4. CASE i \notin DOMAIN r.locked
  <2>1. /\ r.wrote ++ rows \in [Row -> Nat]
        /\ \A x \in DOMAIN r.wrote : x \in Row /\ (r.wrote ++ rows)[x] = r.wrote[x]
        /\ \A x \in Row \ DOMAIN r.wrote : (r.wrote ++ rows)[x] = rows[x]
    BY <1>0, <1>1, SeenType
  <2>2. \A x \in DOMAIN r.wrote : x.item = i => r.wrote[x] = 0
    BY <1>4 DEF Sound, Orderly, Shaped
  <2>3. RowsOf(i) \subseteq Row /\ \A x \in RowsOf(i) : x.item = i
    BY DEF RowsOf
  <2>4. \A x \in RowsOf(i) : (r.wrote ++ rows)[x] = rows[x] \/ (r.wrote ++ rows)[x] = 0
    BY <2>1, <2>2, <2>3
  <2>5. TotalOn(r.wrote ++ rows, RowsOf(i)) <= TotalOn(rows, RowsOf(i))
    BY <1>0, <2>1, <2>3, <2>4, FewerRows
  <2>6. TotalOn(rows, RowsOf(i)) \in Nat /\ TotalOn(r.wrote ++ rows, RowsOf(i)) \in Nat
    BY <1>0, <2>1, <2>3, RowTotal
  <2>7. bal[i].onHand \in Nat
    BY <1>0 DEF Bal
  <2> QED
    BY <1>0, <1>2, <1>4, <2>5, <2>6, <2>7
<1> QED
  BY <1>3, <1>4

\* Rows of an item the transaction has not written are seen as they are.
LEMMA Untouched ==
    ASSUME NEW wrote, IsPart(wrote, Row, Nat), NEW rows \in [Row -> Nat], NEW i,
           \A x \in DOMAIN wrote : x.item # i
    PROVE  /\ \A x \in RowsOf(i) : (wrote ++ rows)[x] = rows[x]
           /\ TotalOn(wrote ++ rows, RowsOf(i)) = TotalOn(rows, RowsOf(i))
<1>1. \A x \in Row \ DOMAIN wrote : (wrote ++ rows)[x] = rows[x]
  BY SeenType
<1>2. \A x \in RowsOf(i) : x \in Row \ DOMAIN wrote
  BY DEF RowsOf
<1>3. \A x \in RowsOf(i) : (wrote ++ rows)[x] = rows[x]
  BY <1>1, <1>2
<1> QED
  BY <1>3, TotalSame, Zenon

LEMMA SeenReckoned ==
    ASSUME NEW rows, NEW bal, NEW t, NEW r, NEW i,
           Stands(rows, bal), AddsUp(rows, bal), Sound(t, r, rows), Reckoned(r, rows),
           r.pc \in {"lines", "rows"}, i \in Item
    PROVE  TotalOn(r.wrote ++ rows, RowsOf(i)) = (r.locked ++ bal)[i].reserved
<1>0. /\ rows \in [Row -> Nat] /\ bal \in [Item -> Bal]
      /\ bal[i].reserved = TotalOn(rows, RowsOf(i))
  BY DEF Stands, AddsUp
<1>1. IsPart(r.wrote, Row, Nat) /\ IsPart(r.locked, Item, Bal)
  BY ShapedParts DEF Sound
<1>2. /\ i \in DOMAIN r.locked => (r.locked ++ bal)[i] = r.locked[i]
      /\ i \notin DOMAIN r.locked => (r.locked ++ bal)[i] = bal[i]
  BY <1>0, <1>1, BalanceSeen
<1>3. CASE i \in DOMAIN r.locked
  BY <1>2, <1>3 DEF Reckoned
<1>4. CASE i \notin DOMAIN r.locked
  <2>1. \A x \in DOMAIN r.wrote : x.item # i
    BY <1>4 DEF Sound, Orderly
  <2> QED
    BY <1>0, <1>1, <1>2, <1>4, <2>1, Untouched
<1> QED
  BY <1>3, <1>4


-----------------------------------------------------------------------------
\* One transaction moves: the state that r becomes.

Begun(r, op, o, want) ==
    [r EXCEPT !.pc = IF op = "issue" THEN "lines" ELSE "find",
              !.op = op, !.order = o, !.want = want]
Finding(r, A, rows) == [r EXCEPT !.pc = "release", !.found = [x \in A |-> (r.wrote ++ rows)[x]]]
Releasing(r, x) == [r EXCEPT !.wrote = Only(x, 0) ++ @]
Relieving(r, i, b) == [r EXCEPT !.locked = Only(i, b) ++ @]
FoundOf(r, i) == {x \in DOMAIN r.found : x.item = i}
Told(r, i, b, rows) == b.reserved + TotalOn(r.found, FoundOf(r, i)) = TotalOn(rows, RowsOf(i))
LocksOneMore(q, r, i) == DOMAIN q.locked = {i} \cup DOMAIN r.locked
MayRelieve(r, i, b, bal) ==
    /\ r.pc = "release" /\ DOMAIN r.found \subseteq DOMAIN r.wrote
    /\ i \in Item /\ i \notin DOMAIN r.locked /\ b \in Bal /\ b.onHand = bal[i].onHand
Released(r) == [r EXCEPT !.pc = "lines"]

\* The balance of its line as r sees it.
BalanceOf(r, bal) == (r.locked ++ bal)[LineOf(r)]

NewRow(t, r) == [by |-> t, order |-> r.order, item |-> LineOf(r)]
Granted(r, rows, bal) ==
    Least(Least(r.want[LineOf(r)], Monus(BalanceOf(r, bal).onHand, BalanceOf(r, bal).reserved)),
          Monus(BalanceOf(r, bal).onHand, TotalOn(r.wrote ++ rows, RowsOf(LineOf(r)))))
Raised(b, g) == [b EXCEPT !.reserved = @ + g]
Created(wrote, x, g) == IF g > 0 THEN Only(x, g) ++ wrote ELSE wrote
Reserving(t, r, rows, bal) ==
    [r EXCEPT !.next = @ + 1,
              !.locked = Only(LineOf(r), Raised(BalanceOf(r, bal), Granted(r, rows, bal))) ++ @,
              !.wrote = Created(@, NewRow(t, r), Granted(r, rows, bal))]

LockingLine(r, A, rows, bal) ==
    [r EXCEPT !.pc = "rows", !.locked = Only(LineOf(r), BalanceOf(r, bal)) ++ @,
              !.found = [x \in A |-> (r.wrote ++ rows)[x]]]

Held(r) == TotalOn(r.found, DOMAIN r.found)
Covered(r, rows, bal) ==
    /\ Monus(r.want[LineOf(r)], Held(r))
         <= Monus(BalanceOf(r, bal).onHand - Least(r.want[LineOf(r)], Held(r)),
                  TotalOn(r.wrote ++ rows, RowsOf(LineOf(r)) \ DOMAIN r.found))
    /\ Held(r) <= BalanceOf(r, bal).reserved
    /\ BalanceOf(r, bal).reserved - Held(r) <= BalanceOf(r, bal).onHand - r.want[LineOf(r)]
Less(b, want, held) == [onHand |-> b.onHand - want, reserved |-> b.reserved - held]
Zeros(own) == [x \in own |-> 0]
Issuing(r, bal) ==
    [r EXCEPT !.pc = "lines", !.next = @ + 1,
              !.locked = Only(LineOf(r), Less(BalanceOf(r, bal), r.want[LineOf(r)], Held(r))) ++ @,
              !.wrote = Zeros(DOMAIN r.found) ++ @]

\* Begin.
LEMMA BeginSound ==
    ASSUME NEW rows, NEW t, NEW r, NEW o, NEW want, NEW op, NEW q, q = Begun(r, op, o, want),
           Sound(t, r, rows), r.pc = "idle", o \in Order, want \in [Item -> 1 .. MaxQty]
    PROVE  Sound(t, q, rows) /\ Exact(q, rows) /\ q.order = o /\ q.locked = r.locked
<1>1. /\ IsTx(q) /\ q.pc \in {"lines", "find"} /\ q.order = o /\ q.want = want /\ q.found = r.found
      /\ q.next = r.next /\ q.wrote = r.wrote /\ q.locked = r.locked
  BY DEF Sound, Shaped, IsTx, Begun
<1>2. want \in [Item -> Nat]
  OBVIOUS
<1>3. DOMAIN r.wrote = {} /\ DOMAIN r.locked = {}
  BY DEF Sound, Orderly
<1>4. Shaped(t, q)
  BY <1>1, <1>2 DEF Sound, Shaped
<1>5. Orderly(t, q)
  BY <1>1, <1>3 DEF Orderly
<1>6. Fits(q, rows) /\ Reckoned(q, rows)
  BY <1>1, <1>3 DEF Fits, Reckoned
<1>7. Holds(q, rows) /\ StillThere(q, rows)
  BY <1>1 DEF Holds, StillThere
<1>8. Fresh(t, q, rows)
  BY <1>1 DEF Sound, Fresh
<1> QED
  BY <1>1, <1>4, <1>5, <1>6, <1>7, <1>8 DEF Sound, Exact

\* Find.
LEMMA FindSound ==
    ASSUME NEW rows, NEW t, NEW r, NEW A, NEW q, q = Finding(r, A, rows),
           rows \in [Row -> Nat], Sound(t, r, rows), r.pc = "find",
           A \subseteq Row, \A x \in A : x.order = r.order
    PROVE  Sound(t, q, rows) /\ Exact(q, rows) /\ q.order = r.order /\ q.locked = r.locked
<1> DEFINE F == [x \in A |-> (r.wrote ++ rows)[x]]
<1>1. /\ IsTx(q) /\ q.pc = "release" /\ q.order = r.order /\ q.want = r.want /\ q.found = F
      /\ q.next = r.next /\ q.wrote = r.wrote /\ q.locked = r.locked
  BY DEF Sound, Shaped, IsTx, Finding
<1>2. DOMAIN r.wrote = {} /\ DOMAIN r.locked = {}
  BY DEF Sound, Orderly
<1>3. \A x \in Row : (r.wrote ++ rows)[x] \in Nat /\ (r.wrote ++ rows)[x] = rows[x]
  BY <1>2, ShapedParts, SeenType DEF Sound
<1>4. IsPart(F, Row, Nat) /\ DOMAIN F = A /\ \A x \in A : F[x] = rows[x]
  BY <1>3 DEF IsPart
<1> HIDE DEF F
<1>5. Shaped(t, q)
  BY <1>1, <1>4 DEF Sound, Shaped, UnderWay
<1>6. Orderly(t, q)
  BY <1>1, <1>2, <1>4 DEF Orderly
<1>7. Fits(q, rows) /\ Reckoned(q, rows)
  BY <1>1, <1>2 DEF Fits, Reckoned
<1>8. Holds(q, rows) /\ StillThere(q, rows)
  BY <1>1, <1>4 DEF Holds, StillThere
<1>9. Fresh(t, q, rows)
  BY <1>1 DEF Sound, Fresh
<1> QED
  BY <1>1, <1>5, <1>6, <1>7, <1>8, <1>9 DEF Sound, Exact

\* ReleaseRow.
LEMMA ReleaseSound ==
    ASSUME NEW rows, NEW t, NEW r, NEW x, NEW q, q = Releasing(r, x),
           rows \in [Row -> Nat], Sound(t, r, rows), r.pc = "release",
           x \in DOMAIN r.found, x \notin DOMAIN r.wrote
    PROVE  /\ Sound(t, q, rows) /\ q.order = r.order /\ q.locked = r.locked
           /\ Exact(r, rows) => Exact(q, rows)
<1>1. /\ IsTx(q) /\ q.pc = "release" /\ q.order = r.order /\ q.want = r.want /\ q.found = r.found
      /\ q.next = r.next /\ q.wrote = Only(x, 0) ++ r.wrote /\ q.locked = r.locked
  BY DEF Sound, Shaped, IsTx, Releasing
<1>2. IsPart(r.found, Row, Nat) /\ IsPart(r.wrote, Row, Nat)
  BY ShapedParts DEF Sound
<1>3. x \in Row
  BY <1>2, PartAt
<1>4. IsPart(q.wrote, Row, Nat)
  <2>1. 0 \in Nat /\ x \in Row /\ IsPart(r.wrote, Row, Nat)
    BY <1>2, <1>3
  <2> QED
    BY <1>1, <2>1, OnlyOverPart
<1>5. /\ DOMAIN q.wrote = {x} \cup DOMAIN r.wrote
      /\ q.wrote[x] = 0
      /\ \A y \in DOMAIN r.wrote : y # x => q.wrote[y] = r.wrote[y]
  BY <1>1 DEF ++, Only
<1>6. DOMAIN r.locked = {}
  BY DEF Sound, Orderly
<1>7. Shaped(t, q)
  BY <1>1, <1>4 DEF Sound, Shaped, UnderWay
<1>8. Orderly(t, q)
  BY <1>1, <1>5, <1>6 DEF Sound, Orderly
<1>9. Fits(q, rows) /\ Reckoned(q, rows)
  BY <1>1, <1>6 DEF Fits, Reckoned
<1>10. Holds(q, rows) /\ (StillThere(r, rows) => StillThere(q, rows))
  BY <1>1 DEF Holds, StillThere
<1>11. Fresh(t, q, rows)
  BY <1>1 DEF Sound, Fresh
<1> QED
  BY <1>1, <1>7, <1>8, <1>9, <1>10, <1>11 DEF Sound, Exact

\* ReleaseDone.
LEMMA DoneSound ==
    ASSUME NEW rows, NEW t, NEW r, NEW q, q = Released(r),
           Sound(t, r, rows), r.pc = "release",
           {x.item : x \in DOMAIN r.found} \subseteq DOMAIN r.locked
    PROVE  /\ Sound(t, q, rows) /\ q.order = r.order /\ q.locked = r.locked
           /\ Exact(r, rows) => Exact(q, rows)
<1>1. /\ IsTx(q) /\ q.pc = "lines" /\ q.order = r.order /\ q.want = r.want /\ q.found = r.found
      /\ q.next = r.next /\ q.wrote = r.wrote /\ q.locked = r.locked
  BY DEF Sound, Shaped, IsTx, Released
<1>2. Shaped(t, q)
  BY <1>1 DEF Sound, Shaped, UnderWay
<1>3. \A x \in DOMAIN r.wrote : x.item \in DOMAIN r.locked
  BY DEF Sound, Orderly
<1>4. Orderly(t, q)
  BY <1>1, <1>3 DEF Sound, Orderly
<1>5. Fits(q, rows) /\ (Reckoned(r, rows) => Reckoned(q, rows))
  BY <1>1 DEF Sound, Fits, Reckoned
<1>6. Holds(q, rows) /\ StillThere(q, rows)
  BY <1>1 DEF Holds, StillThere
<1>7. Fresh(t, q, rows)
  BY <1>1 DEF Sound, Fresh
<1> QED
  BY <1>1, <1>2, <1>4, <1>5, <1>6, <1>7 DEF Sound, Exact

\* RolledBack.
LEMMA EndedSound ==
    ASSUME NEW rows, NEW t, NEW how \in {"committed", "aborted"}
    PROVE  /\ Sound(t, Ended(how), rows) /\ Exact(Ended(how), rows)
           /\ ~UnderWay(Ended(how)) /\ DOMAIN Ended(how).locked = {}
<1> DEFINE q == Ended(how)
<1>1. /\ IsTx(q) /\ q.pc = how /\ q.found = <<>> /\ q.next = 1 /\ q.wrote = <<>> /\ q.locked = <<>>
  BY DEF Ended, Idle, IsTx
<1> HIDE DEF q
<1>2. DOMAIN q.wrote = {} /\ DOMAIN q.locked = {}
  BY <1>1, NothingPart
<1>3. IsPart(q.found, Row, Nat) /\ IsPart(q.wrote, Row, Nat) /\ IsPart(q.locked, Item, Bal)
  BY <1>1, NothingPart
<1>4. Shaped(t, q) /\ ~UnderWay(q)
  BY <1>1, <1>3 DEF Shaped, UnderWay
<1>5. Orderly(t, q)
  BY <1>1, <1>2 DEF Orderly
<1>6. Fits(q, rows) /\ Reckoned(q, rows) /\ Holds(q, rows) /\ StillThere(q, rows) /\ Fresh(t, q, rows)
  BY <1>1, <1>2 DEF Fits, Reckoned, Holds, StillThere, Fresh
<1> QED
  BY <1>2, <1>4, <1>5, <1>6 DEF Sound, Exact, q


\* Relieve.
LEMMA RelieveSound ==
    ASSUME NEW rows, NEW bal, NEW t, NEW r, NEW i, NEW b, NEW q, q = Relieving(r, i, b),
           Stands(rows, bal), Sound(t, r, rows), MayRelieve(r, i, b, bal)
    PROVE  /\ Sound(t, q, rows) /\ q.order = r.order /\ LocksOneMore(q, r, i)
           /\ (Exact(r, rows) /\ Told(r, i, b, rows)) => Exact(q, rows)
<1>a. r.pc = "release" /\ DOMAIN r.found \subseteq DOMAIN r.wrote
  BY DEF MayRelieve
<1>b. i \in Item /\ i \notin DOMAIN r.locked /\ b \in Bal /\ b.onHand = bal[i].onHand
  BY DEF MayRelieve
<1>1. /\ IsTx(q) /\ q.pc = "release" /\ q.order = r.order /\ q.want = r.want /\ q.found = r.found
      /\ q.next = r.next /\ q.wrote = r.wrote /\ q.locked = Only(i, b) ++ r.locked
  BY <1>a DEF Sound, Shaped, IsTx, Relieving
<1>0. /\ rows \in [Row -> Nat] /\ bal \in [Item -> Bal]
      /\ \A j \in Item : TotalOn(rows, RowsOf(j)) <= bal[j].onHand
  BY DEF Stands
<1>2. /\ IsPart(r.found, Row, Nat) /\ IsPart(r.wrote, Row, Nat) /\ IsPart(r.locked, Item, Bal)
  BY ShapedParts DEF Sound
<1>3. /\ IsPart(q.locked, Item, Bal)
      /\ DOMAIN q.locked = {i} \cup DOMAIN r.locked
      /\ q.locked[i] = b
      /\ \A y \in DOMAIN r.locked : y # i => q.locked[y] = r.locked[y]
  <2>1. IsPart(q.locked, Item, Bal)
    <3>1. b \in Bal /\ i \in Item /\ IsPart(r.locked, Item, Bal)
      BY <1>b, <1>2
    <3> QED
      BY <1>1, <3>1, OnlyOverPart
  <2> QED
    BY <1>1, <2>1 DEF ++, Only
<1>4. Shaped(t, q)
  BY <1>1, <1>3, <1>a, <1>b DEF Sound, Shaped, UnderWay
<1>5. Orderly(t, q)
  BY <1>1, <1>3, <1>a, <1>b DEF Sound, Orderly
<1>6. TotalOn(r.wrote ++ rows, RowsOf(i)) <= (r.locked ++ bal)[i].onHand
  BY <1>b, SeenFits
<1>7. (r.locked ++ bal)[i] = bal[i]
  BY <1>0, <1>2, <1>b, BalanceSeen
<1>8. Fits(q, rows)
  BY <1>1, <1>3, <1>6, <1>7, <1>a, <1>b DEF Sound, Fits
<1>9. Holds(q, rows) /\ (StillThere(r, rows) => StillThere(q, rows))
  BY <1>1, <1>a DEF Holds, StillThere
<1>10. Fresh(t, q, rows)
  BY <1>1, <1>a DEF Sound, Fresh
<1>11. ASSUME Exact(r, rows), Told(r, i, b, rows)
       PROVE  Reckoned(q, rows)
  <2> DEFINE own == FoundOf(r, i)
  <2>1. /\ r.wrote ++ rows \in [Row -> Nat]
        /\ \A x \in DOMAIN r.wrote : x \in Row /\ (r.wrote ++ rows)[x] = r.wrote[x]
        /\ \A x \in Row \ DOMAIN r.wrote : (r.wrote ++ rows)[x] = rows[x]
    BY <1>0, <1>2, SeenType
  <2>2. RowsOf(i) \subseteq Row /\ own \subseteq RowsOf(i)
    BY <1>2 DEF RowsOf, IsPart, FoundOf
  <2>3. DOMAIN r.wrote = DOMAIN r.found /\ \A x \in DOMAIN r.wrote : r.wrote[x] = 0
    BY <1>a DEF Sound, Orderly
  <2>4. \A x \in own : (r.wrote ++ rows)[x] = 0
    BY <2>1, <2>3 DEF FoundOf
  <2>5. \A x \in RowsOf(i) \ own : (r.wrote ++ rows)[x] = rows[x]
    BY <2>1, <2>2, <2>3 DEF RowsOf, FoundOf
  <2>6. \A x \in own : r.found[x] = rows[x]
    BY <1>11, <1>a DEF Exact, StillThere, FoundOf
  <2> HIDE DEF own
  <2>7. /\ TotalOn(rows, RowsOf(i)) = TotalOn(r.wrote ++ rows, RowsOf(i)) + TotalOn(rows, own)
        /\ TotalOn(r.wrote ++ rows, RowsOf(i)) \in Nat /\ TotalOn(rows, own) \in Nat
    <3> DEFINE seen == r.wrote ++ rows
               all == RowsOf(i)
    <3>1. seen \in [Row -> Nat] /\ all \subseteq Row
      BY <2>1, <2>2
    <3>2. Ends(seen, rows, own, all)
      BY <2>2, <2>4, <2>5 DEF Ends
    <3>3. rows \in [Row -> Nat]
      BY <1>0
    <3> HIDE DEF seen, all
    <3>4. /\ TotalOn(rows, all) = TotalOn(seen, all) + TotalOn(rows, own)
          /\ TotalOn(seen, all) \in Nat /\ TotalOn(rows, own) \in Nat
      BY <3>1, <3>2, <3>3, RowsRelieved
    <3> QED
      BY <3>4 DEF seen, all
  <2>8. TotalOn(r.found, own) = TotalOn(rows, own)
    BY <2>6, TotalSame, Zenon
  <2>9. b.reserved + TotalOn(r.found, own) = TotalOn(rows, RowsOf(i)) /\ b.reserved \in Nat
    BY <1>11, <1>b DEF own, Bal, Told
  <2>10. TotalOn(r.wrote ++ rows, RowsOf(i)) = b.reserved
    BY <2>7, <2>8, <2>9
  <2> QED
    BY <1>1, <1>3, <1>11, <1>a, <2>10 DEF Exact, Reckoned
<1> QED
  BY <1>1, <1>3, <1>4, <1>5, <1>8, <1>9, <1>10, <1>11 DEF Sound, Exact, LocksOneMore

\* A line is granted g, at most what the balance and the batch have free.
LEMMA GrantFits ==
    ASSUME NEW b, NEW total, NEW want, NEW g,
           b \in Bal, total \in Nat, total <= b.onHand, want \in Nat,
           g = Least(Least(want, Monus(b.onHand, b.reserved)), Monus(b.onHand, total))
    PROVE  g \in Nat /\ b.reserved + g <= b.onHand /\ total + g <= b.onHand
<1>1. b.onHand \in Nat /\ b.reserved \in Nat /\ b.reserved <= b.onHand
  BY DEF Bal
<1> QED
  BY <1>1 DEF Least, Monus

\* A row is created, or none if nothing is granted.
LEMMA RowCreated ==
    ASSUME NEW rows, NEW wrote, NEW x, NEW g, NEW new, new = Created(wrote, x, g),
           rows \in [Row -> Nat], IsPart(wrote, Row, Nat),
           x \in Row, (wrote ++ rows)[x] = 0, g \in Nat
    PROVE  /\ IsPart(new, Row, Nat)
           /\ new ++ rows \in [Row -> Nat]
           /\ (new ++ rows)[x] = g
           /\ \A y \in Row : y # x => (new ++ rows)[y] = (wrote ++ rows)[y]
           /\ \A y \in DOMAIN new : y = x \/ (y \in DOMAIN wrote /\ new[y] = wrote[y])
<1>1. CASE g > 0
  <2>1. new = Only(x, g) ++ wrote
    BY <1>1 DEF Created
  <2>2. IsPart(new, Row, Nat)
    BY <2>1, OnlyOverPart
  <2>3. DOMAIN Only(x, g) = {x} /\ Only(x, g)[x] = g /\ IsPart(Only(x, g), Row, Nat)
    BY OnlyOne, OnlyPart
  <2>4. /\ new ++ rows \in [Row -> Nat]
        /\ \A y \in {x} : (new ++ rows)[y] = Only(x, g)[y]
        /\ \A y \in Row \ {x} : (new ++ rows)[y] = (wrote ++ rows)[y]
    BY <2>1, <2>3, SeenMore
  <2>5. \A y \in DOMAIN new : y = x \/ (y \in DOMAIN wrote /\ new[y] = wrote[y])
    BY <2>1 DEF ++, Only
  <2> QED
    BY <2>2, <2>3, <2>4, <2>5
<1>2. CASE ~(g > 0)
  <2>1. g = 0 /\ new = wrote
    BY <1>2 DEF Created
  <2>2. new ++ rows \in [Row -> Nat]
    BY <2>1, SeenType
  <2> QED
    BY <2>1, <2>2
<1> QED
  BY <1>1, <1>2

\* The total of an item with one row more.
LEMMA RowAdded ==
    ASSUME NEW old, NEW new, NEW x,
           old \in [Row -> Nat], new \in [Row -> Nat], x \in Row, old[x] = 0,
           \A y \in Row : y # x => new[y] = old[y]
    PROVE  TotalOn(new, RowsOf(x.item)) = TotalOn(old, RowsOf(x.item)) + new[x]
<1> DEFINE S == RowsOf(x.item)
<1>1. S \subseteq Row
  BY DEF RowsOf
<1>2. x \in S
  BY DEF RowsOf
<1>3. \A y \in S : y # x => new[y] = old[y]
  BY <1>1
<1> HIDE DEF S
<1>4. TotalOn(new, S) = TotalOn(old, S) - old[x] + new[x] /\ TotalOn(old, S) \in Nat
  BY <1>1, <1>2, <1>3, OneRow
<1> QED
  BY <1>4 DEF S

\* The row a transaction creates for a line it has not been at is not there.
LEMMA NotYetThere ==
    ASSUME NEW rows, NEW t, NEW r, NEW x, x = NewRow(t, r),
           rows \in [Row -> Nat], t \in Tx, Sound(t, r, rows), r.pc = "lines",
           r.next <= Len(Lines[r.order])
    PROVE  /\ x \in Row /\ LineOf(r) \in Item /\ (r.wrote ++ rows)[x] = 0
           /\ x.item = LineOf(r) /\ x.order = r.order /\ x.by = t
<1>1. /\ IsPart(r.wrote, Row, Nat) /\ r.next \in Nat \ {0} /\ r.order \in Order
  BY DEF Sound, Shaped, UnderWay
<1>2. Lines[r.order] \in Seq(Item) /\ r.next \in DOMAIN Lines[r.order]
      /\ \A k \in 1 .. r.next - 1 : k \in DOMAIN Lines[r.order] /\ k # r.next
  BY <1>1, RaceAssumption
<1>3. LineOf(r) \in Item
  BY <1>2 DEF LineOf
<1>4. x \in Row /\ x.item = LineOf(r) /\ x.order = r.order /\ x.by = t
  BY <1>1, <1>3 DEF Row, NewRow
<1>5. rows[x] = 0
  BY <1>4 DEF Sound, Fresh
<1>6. CASE x \in DOMAIN r.wrote
  <2>1. r.wrote[x] \in Nat
    BY <1>1, <1>6, PartAt
  <2>2. ASSUME r.wrote[x] > 0 PROVE FALSE
    <3>1. PICK k \in 1 .. r.next - 1 : x.item = Lines[r.order][k]
      BY <1>6, <2>2 DEF Sound, Orderly
    <3>2. Lines[r.order][k] = Lines[r.order][r.next]
      BY <3>1, <1>4 DEF LineOf
    <3> QED
      BY <3>1, <3>2, <1>1, <1>2, RaceAssumption
  <2>3. r.wrote[x] = 0
    BY <2>1, <2>2
  <2>4. (r.wrote ++ rows)[x] = r.wrote[x]
    BY <1>6 DEF ++
  <2> QED
    BY <1>3, <1>4, <2>3, <2>4
<1>7. CASE x \notin DOMAIN r.wrote
  <2>1. (r.wrote ++ rows)[x] = rows[x]
    BY <1>4, <1>7 DEF ++
  <2> QED
    BY <1>3, <1>4, <1>5, <2>1
<1> QED
  BY <1>6, <1>7

\* ReserveLine.
LEMMA ReserveSound ==
    ASSUME NEW rows, NEW bal, NEW t, NEW r, NEW q, q = Reserving(t, r, rows, bal),
           Stands(rows, bal), t \in Tx, Sound(t, r, rows), r.pc = "lines",
           r.next <= Len(Lines[r.order])
    PROVE  /\ Sound(t, q, rows) /\ q.order = r.order
           /\ DOMAIN q.locked = {LineOf(r)} \cup DOMAIN r.locked
           /\ Exact(r, rows) /\ AddsUp(rows, bal) => Exact(q, rows)
<1> DEFINE i == LineOf(r)
           b == BalanceOf(r, bal)
           x == NewRow(t, r)
           g == Granted(r, rows, bal)
           seen == r.wrote ++ rows
           c == Raised(b, g)
           now == q.wrote ++ rows
<1>0. /\ rows \in [Row -> Nat] /\ bal \in [Item -> Bal]
      /\ \A j \in Item : TotalOn(rows, RowsOf(j)) <= bal[j].onHand
  BY DEF Stands
<1>1. /\ IsTx(q) /\ q.pc = "lines" /\ q.order = r.order /\ q.want = r.want /\ q.found = r.found
      /\ q.next = r.next + 1 /\ q.locked = Only(i, c) ++ r.locked
      /\ q.wrote = Created(r.wrote, x, g)
  BY DEF Sound, Shaped, IsTx, Reserving
<1>2. /\ IsPart(r.found, Row, Nat) /\ IsPart(r.wrote, Row, Nat) /\ IsPart(r.locked, Item, Bal)
      /\ r.next \in Nat \ {0} /\ r.want \in [Item -> Nat]
  BY DEF Sound, Shaped, UnderWay
<1>3. x \in Row /\ i \in Item /\ seen[x] = 0 /\ x.item = i /\ x.order = r.order /\ x.by = t
  <2>1. x \in Row /\ i \in Item /\ seen[x] = 0
    BY <1>0, NotYetThere
  <2>2. x.item = i /\ x.order = r.order /\ x.by = t
    BY <1>0, NotYetThere
  <2> QED
    BY <2>1, <2>2
<1>4. seen \in [Row -> Nat] /\ TotalOn(seen, RowsOf(i)) \in Nat
  <2>1. seen \in [Row -> Nat]
    BY <1>0, <1>2, SeenType
  <2> QED
    BY <2>1, RowsFinite, RowTotal
<1>5. b \in Bal
  <2>1. (r.locked ++ bal)[i] \in Bal
    BY <1>0, <1>2, <1>3, BalanceSeen
  <2> QED
    BY <2>1 DEF BalanceOf
<1>6. TotalOn(seen, RowsOf(i)) <= b.onHand
  <2>1. TotalOn(seen, RowsOf(i)) <= (r.locked ++ bal)[i].onHand
    BY <1>3, SeenFits
  <2> QED
    BY <2>1 DEF BalanceOf
<1>7. g \in Nat /\ b.reserved + g <= b.onHand /\ TotalOn(seen, RowsOf(i)) + g <= b.onHand
  <2>1. r.want[i] \in Nat
    BY <1>2, <1>3
  <2> QED
    BY <1>4, <1>5, <1>6, <2>1, GrantFits DEF Granted
<1>8. c \in Bal /\ c.onHand = b.onHand /\ c.reserved = b.reserved + g
  BY <1>5, <1>7 DEF Bal, Raised
<1> HIDE DEF i, b, x, g, c, seen, now
<1>9. /\ IsPart(q.wrote, Row, Nat)
      /\ now \in [Row -> Nat]
      /\ now[x] = g
      /\ \A y \in Row : y # x => now[y] = seen[y]
      /\ \A y \in DOMAIN q.wrote : y = x \/ (y \in DOMAIN r.wrote /\ q.wrote[y] = r.wrote[y])
  <2> DEFINE w == r.wrote
             v == q.wrote
  <2>1. IsPart(w, Row, Nat) /\ x \in Row /\ g \in Nat /\ v = Created(w, x, g)
    BY <1>1, <1>2, <1>3, <1>7
  <2>2. seen = w ++ rows /\ now = v ++ rows
    BY DEF seen, now
  <2>3. seen[x] = 0
    BY <1>3
  <2> HIDE DEF w, v
  <2>4. (w ++ rows)[x] = 0
    BY <2>2, <2>3
  <2>5. IsPart(v, Row, Nat)
    BY <1>0, <2>1, <2>4, RowCreated
  <2>6. v ++ rows \in [Row -> Nat]
    BY <1>0, <2>1, <2>4, RowCreated
  <2>7. (v ++ rows)[x] = g
    BY <1>0, <2>1, <2>4, RowCreated
  <2>8. ASSUME NEW y \in Row, y # x PROVE (v ++ rows)[y] = (w ++ rows)[y]
    <3>1. DOMAIN rows = Row
      BY <1>0
    <3> QED
      BY <2>1, <2>8, <3>1 DEF Created, ++, Only
  <2>9. \A y \in DOMAIN v : y = x \/ (y \in DOMAIN w /\ v[y] = w[y])
    BY <2>1 DEF Created, ++, Only
  <2> QED
    BY <2>2, <2>5, <2>6, <2>7, <2>8, <2>9 DEF w, v
<1>10. IsPart(q.locked, Item, Bal)
  BY <1>1, <1>2, <1>3, <1>8, OnlyOverPart
<1>11. /\ DOMAIN q.locked = {i} \cup DOMAIN r.locked /\ q.locked[i] = c
       /\ \A j \in DOMAIN r.locked : j # i => q.locked[j] = r.locked[j]
  <2>1. q.locked = Only(i, c) ++ r.locked
    BY <1>1
  <2> QED
    BY <2>1 DEF ++, Only
<1>12. Shaped(t, q)
  <2>1. q.next \in Nat \ {0}
    BY <1>1, <1>2
  <2>2. q.order \in Order /\ q.want \in [Item -> Nat]
    BY <1>1, <1>2 DEF Sound, Shaped, UnderWay
  <2> QED
    BY <1>1, <1>2, <1>9, <1>10, <2>1, <2>2 DEF Shaped, UnderWay
<1>13. Orderly(t, q)
  <2>1. ASSUME NEW y \in DOMAIN q.wrote
        PROVE  /\ y.order = q.order /\ y.item \in DOMAIN q.locked
               /\ q.wrote[y] > 0 => /\ y.by = t
                                    /\ \E k \in 1 .. q.next - 1 : y.item = Lines[q.order][k]
    <3>1. CASE y = x
      <4>1. y.item = Lines[q.order][r.next] /\ r.next \in 1 .. q.next - 1
        <5>1. y.item = i /\ q.order = r.order /\ q.next = r.next + 1 /\ r.next \in Nat \ {0}
          BY <3>1, <1>1, <1>2, <1>3
        <5>2. r.next \in 1 .. q.next - 1
          BY <5>1
        <5> QED
          BY <5>1, <5>2 DEF LineOf, i
      <4> QED
        BY <3>1, <4>1, <1>1, <1>3, <1>11
    <3>2. CASE y # x
      <4>1. y \in DOMAIN r.wrote /\ q.wrote[y] = r.wrote[y]
        BY <3>2, <1>9
      <4>2. y.order = r.order /\ y.item \in DOMAIN r.locked
        BY <4>1 DEF Sound, Orderly
      <4>3. ASSUME r.wrote[y] > 0
            PROVE  y.by = t /\ \E k \in 1 .. r.next - 1 : y.item = Lines[r.order][k]
        BY <4>1, <4>3 DEF Sound, Orderly
      <4>4. 1 .. r.next - 1 \subseteq 1 .. q.next - 1
        BY <1>1, <1>2
      <4> QED
        BY <4>1, <4>2, <4>3, <4>4, <1>1, <1>11
    <3> QED
      BY <3>1, <3>2
  <2> QED
    BY <1>1, <2>1 DEF Orderly
<1>14. ASSUME NEW j
       PROVE  TotalOn(now, RowsOf(j)) = IF j = i THEN TotalOn(seen, RowsOf(j)) + g
                                                ELSE TotalOn(seen, RowsOf(j))
  <2>1. /\ x \in Row /\ seen[x] = 0 /\ now[x] = g /\ x.item = i
        /\ seen \in [Row -> Nat] /\ now \in [Row -> Nat]
        /\ \A y \in Row : y # x => now[y] = seen[y]
    BY <1>3, <1>4, <1>9
  <2>2. TotalOn(now, RowsOf(x.item)) = TotalOn(seen, RowsOf(x.item)) + now[x]
    BY <2>1, RowAdded
  <2>3. ASSUME j # i PROVE TotalOn(now, RowsOf(j)) = TotalOn(seen, RowsOf(j))
    <3>1. \A y \in RowsOf(j) : now[y] = seen[y]
      BY <2>1, <2>3 DEF RowsOf
    <3> QED
      BY <3>1, TotalSame, Zenon
  <2> QED
    BY <2>1, <2>2, <2>3
<1>15. Fits(q, rows)
  <2> SUFFICES ASSUME NEW j \in DOMAIN q.locked
               PROVE  TotalOn(now, RowsOf(j)) <= q.locked[j].onHand
    BY DEF Fits, now
  <2>1. CASE j = i
    BY <2>1, <1>7, <1>8, <1>11, <1>14
  <2>2. CASE j # i
    <3>1. j \in DOMAIN r.locked /\ q.locked[j] = r.locked[j]
      BY <2>2, <1>11
    <3>2. TotalOn(seen, RowsOf(j)) <= r.locked[j].onHand
      BY <3>1 DEF Sound, Fits, seen
    <3> QED
      BY <2>2, <3>1, <3>2, <1>14
  <2> QED
    BY <2>1, <2>2
<1>16. Holds(q, rows) /\ StillThere(q, rows)
  BY <1>1 DEF Holds, StillThere
<1>17. Fresh(t, q, rows)
  BY <1>1 DEF Sound, Fresh
<1>18. ASSUME Exact(r, rows), AddsUp(rows, bal)
       PROVE  Reckoned(q, rows)
  <2> SUFFICES ASSUME NEW j \in DOMAIN q.locked
               PROVE  TotalOn(now, RowsOf(j)) = q.locked[j].reserved
    BY DEF Reckoned, now
  <2>1. CASE j = i
    <3>1. r.pc \in {"lines", "rows"} /\ Reckoned(r, rows)
      BY <1>18 DEF Exact
    <3>2. TotalOn(r.wrote ++ rows, RowsOf(i)) = (r.locked ++ bal)[i].reserved
      BY <3>1, <1>3, <1>18, SeenReckoned
    <3>3. TotalOn(seen, RowsOf(i)) = b.reserved
      BY <3>2 DEF seen, b, BalanceOf, i
    <3> QED
      BY <2>1, <3>3, <1>8, <1>11, <1>14
  <2>2. CASE j # i
    <3>1. j \in DOMAIN r.locked /\ q.locked[j] = r.locked[j]
      BY <2>2, <1>11
    <3>2. TotalOn(seen, RowsOf(j)) = r.locked[j].reserved
      BY <3>1, <1>18 DEF Exact, Reckoned, seen
    <3> QED
      BY <2>2, <3>1, <3>2, <1>14
  <2> QED
    BY <2>1, <2>2
<1> QED
  BY <1>1, <1>11, <1>12, <1>13, <1>15, <1>16, <1>17, <1>18 DEF Sound, Exact, i

\* LockLine.
LEMMA LockSound ==
    ASSUME NEW rows, NEW bal, NEW t, NEW r, NEW A, NEW q, q = LockingLine(r, A, rows, bal),
           Stands(rows, bal), t \in Tx, Sound(t, r, rows), r.pc = "lines",
           r.next <= Len(Lines[r.order]),
           A \subseteq Row, \A x \in A : x.order = r.order /\ x.item = LineOf(r)
    PROVE  /\ Sound(t, q, rows) /\ q.order = r.order
           /\ DOMAIN q.locked = {LineOf(r)} \cup DOMAIN r.locked
           /\ Exact(r, rows) /\ AddsUp(rows, bal) => Exact(q, rows)
<1> DEFINE F == [x \in A |-> (r.wrote ++ rows)[x]]
           i == LineOf(r)
           b == BalanceOf(r, bal)
<1>0. rows \in [Row -> Nat] /\ bal \in [Item -> Bal]
  BY DEF Stands
<1>1. /\ IsTx(q) /\ q.pc = "rows" /\ q.order = r.order /\ q.want = r.want /\ q.found = F
      /\ q.next = r.next /\ q.locked = Only(i, b) ++ r.locked /\ q.wrote = r.wrote
  BY DEF Sound, Shaped, IsTx, LockingLine
<1>2. /\ IsPart(r.wrote, Row, Nat) /\ IsPart(r.locked, Item, Bal)
      /\ r.next \in Nat \ {0} /\ r.order \in Order /\ r.want \in [Item -> Nat]
  BY DEF Sound, Shaped, UnderWay
<1>3. i \in Item
  BY <1>0, NotYetThere
<1>4. \A x \in Row : (r.wrote ++ rows)[x] \in Nat
  BY <1>0, <1>2, SeenType
<1>5. IsPart(F, Row, Nat) /\ DOMAIN F = A /\ \A x \in A : F[x] = (r.wrote ++ rows)[x]
  BY <1>4 DEF IsPart
<1> HIDE DEF F, i
<1>6. b \in Bal /\ (i \in DOMAIN r.locked => b = r.locked[i])
  <2>1. (r.locked ++ bal)[i] \in Bal /\ (i \in DOMAIN r.locked => (r.locked ++ bal)[i] = r.locked[i])
    BY <1>0, <1>2, <1>3, BalanceSeen
  <2> QED
    BY <2>1 DEF BalanceOf, i
<1> HIDE DEF b
<1>7. IsPart(q.locked, Item, Bal)
  BY <1>1, <1>2, <1>3, <1>6, OnlyOverPart
<1>8. /\ DOMAIN q.locked = {i} \cup DOMAIN r.locked /\ q.locked[i] = b
      /\ \A j \in DOMAIN r.locked : j # i => q.locked[j] = r.locked[j]
  <2>1. q.locked = Only(i, b) ++ r.locked
    BY <1>1
  <2> QED
    BY <2>1 DEF ++, Only
<1>9. Shaped(t, q)
  BY <1>1, <1>2, <1>5, <1>7 DEF Shaped, UnderWay
<1>10. Orderly(t, q)
  <2>1. ASSUME NEW x \in DOMAIN q.wrote
        PROVE  /\ x.order = q.order /\ x.item \in DOMAIN q.locked
               /\ q.wrote[x] > 0 => /\ x.by = t
                                    /\ \E k \in 1 .. q.next - 1 : x.item = Lines[q.order][k]
    BY <1>1, <1>8 DEF Sound, Orderly
  <2>2. /\ q.next <= Len(Lines[q.order]) /\ LineOf(q) = i /\ i \in DOMAIN q.locked
        /\ \A x \in DOMAIN q.found : x.order = q.order /\ x.item = i
    BY <1>1, <1>5, <1>8 DEF LineOf, i
  <2> QED
    BY <1>1, <2>1, <2>2 DEF Orderly
<1>11. TotalOn(r.wrote ++ rows, RowsOf(i)) <= b.onHand
  <2>1. TotalOn(r.wrote ++ rows, RowsOf(i)) <= (r.locked ++ bal)[i].onHand
    BY <1>3, SeenFits
  <2> QED
    BY <2>1 DEF BalanceOf, b, i
<1>12. Fits(q, rows)
  <2> SUFFICES ASSUME NEW j \in DOMAIN q.locked
               PROVE  TotalOn(r.wrote ++ rows, RowsOf(j)) <= q.locked[j].onHand
    BY <1>1 DEF Fits
  <2>1. CASE j = i
    BY <2>1, <1>8, <1>11
  <2>2. CASE j # i
    <3>1. j \in DOMAIN r.locked /\ q.locked[j] = r.locked[j]
      BY <2>2, <1>8
    <3> QED
      BY <3>1 DEF Sound, Fits
  <2> QED
    BY <2>1, <2>2
<1>13. Holds(q, rows)
  BY <1>1, <1>5 DEF Holds
<1>14. StillThere(q, rows)
  BY <1>1 DEF StillThere
<1>15. Fresh(t, q, rows)
  BY <1>1 DEF Sound, Fresh
<1>16. ASSUME Exact(r, rows), AddsUp(rows, bal)
       PROVE  Reckoned(q, rows)
  <2> SUFFICES ASSUME NEW j \in DOMAIN q.locked
               PROVE  TotalOn(r.wrote ++ rows, RowsOf(j)) = q.locked[j].reserved
    BY <1>1 DEF Reckoned
  <2>1. CASE j = i
    <3>1. r.pc \in {"lines", "rows"} /\ Reckoned(r, rows)
      BY <1>16 DEF Exact
    <3>2. TotalOn(r.wrote ++ rows, RowsOf(i)) = (r.locked ++ bal)[i].reserved
      BY <3>1, <1>3, <1>16, SeenReckoned
    <3>3. TotalOn(r.wrote ++ rows, RowsOf(i)) = b.reserved
      BY <3>2 DEF b, BalanceOf, i
    <3> QED
      BY <2>1, <3>3, <1>8
  <2>2. CASE j # i
    <3>1. j \in DOMAIN r.locked /\ q.locked[j] = r.locked[j]
      BY <2>2, <1>8
    <3> QED
      BY <3>1, <1>16 DEF Exact, Reckoned
  <2> QED
    BY <2>1, <2>2
<1> QED
  BY <1>1, <1>8, <1>9, <1>10, <1>12, <1>13, <1>14, <1>15, <1>16 DEF Sound, Exact, i

\* The rows found are ended.
LEMMA RowsOff ==
    ASSUME NEW rows, NEW wrote, NEW own, NEW new, new = Zeros(own) ++ wrote,
           rows \in [Row -> Nat], IsPart(wrote, Row, Nat), own \subseteq Row
    PROVE  /\ IsPart(new, Row, Nat)
           /\ new ++ rows \in [Row -> Nat]
           /\ \A x \in own : (new ++ rows)[x] = 0
           /\ \A x \in Row \ own : (new ++ rows)[x] = (wrote ++ rows)[x]
           /\ \A x \in DOMAIN new : IF x \in own THEN new[x] = 0
                                    ELSE x \in DOMAIN wrote /\ new[x] = wrote[x]
<1> DEFINE d == Zeros(own)
<1>1. IsPart(d, Row, Nat) /\ DOMAIN d = own /\ \A x \in own : d[x] = 0
  BY DEF IsPart, Zeros
<1>2. new = d ++ wrote
  OBVIOUS
<1> HIDE DEF d
<1>3. /\ IsPart(d ++ wrote, Row, Nat)
      /\ (d ++ wrote) ++ rows \in [Row -> Nat]
      /\ \A x \in DOMAIN d : ((d ++ wrote) ++ rows)[x] = d[x]
      /\ \A x \in Row \ DOMAIN d : ((d ++ wrote) ++ rows)[x] = (wrote ++ rows)[x]
  BY <1>1, SeenMore
<1>4. \A x \in DOMAIN new : IF x \in own THEN new[x] = 0
                            ELSE x \in DOMAIN wrote /\ new[x] = wrote[x]
  BY <1>1, <1>2 DEF ++
<1> QED
  BY <1>1, <1>2, <1>3, <1>4

\* IssueLine, when it does not throw.
LEMMA IssueSound ==
    ASSUME NEW rows, NEW bal, NEW t, NEW r, NEW q, q = Issuing(r, bal),
           Stands(rows, bal), Sound(t, r, rows), r.pc = "rows", Covered(r, rows, bal)
    PROVE  /\ Sound(t, q, rows) /\ q.order = r.order
           /\ DOMAIN q.locked = DOMAIN r.locked
           /\ Exact(r, rows) => Exact(q, rows)
<1> DEFINE i == LineOf(r)
           b == BalanceOf(r, bal)
           own == DOMAIN r.found
           held == Held(r)
           seen == r.wrote ++ rows
           c == Less(b, r.want[i], held)
           now == q.wrote ++ rows
           rest == TotalOn(seen, RowsOf(i) \ own)
<1>0. rows \in [Row -> Nat] /\ bal \in [Item -> Bal]
  BY DEF Stands
<1>1. /\ IsTx(q) /\ q.pc = "lines" /\ q.order = r.order /\ q.want = r.want /\ q.found = r.found
      /\ q.next = r.next + 1 /\ q.locked = Only(i, c) ++ r.locked
      /\ q.wrote = Zeros(own) ++ r.wrote
  BY DEF Sound, Shaped, IsTx, Issuing
<1>2. /\ IsPart(r.found, Row, Nat) /\ IsPart(r.wrote, Row, Nat) /\ IsPart(r.locked, Item, Bal)
      /\ r.next \in Nat \ {0} /\ r.order \in Order /\ r.want \in [Item -> Nat]
  BY DEF Sound, Shaped, UnderWay
<1>3. i \in DOMAIN r.locked /\ \A x \in own : x.order = r.order /\ x.item = i
  BY DEF Sound, Orderly
<1>4. i \in Item /\ r.locked[i] \in Bal
  BY <1>2, <1>3, PartAt
<1>5. b = r.locked[i] /\ b \in Bal
  <2>1. (r.locked ++ bal)[i] = r.locked[i]
    BY <1>0, <1>2, <1>3, <1>4, BalanceSeen
  <2> QED
    BY <2>1, <1>4 DEF BalanceOf
<1>6. RowsOf(i) \subseteq Row /\ own \subseteq Row /\ own \subseteq RowsOf(i)
  BY <1>2, <1>3 DEF IsPart, RowsOf
<1>7. /\ seen \in [Row -> Nat]
      /\ TotalOn(seen, RowsOf(i)) \in Nat /\ TotalOn(seen, own) \in Nat /\ rest \in Nat
  <2>1. seen \in [Row -> Nat]
    BY <1>0, <1>2, SeenType
  <2>2. RowsOf(i) \ own \subseteq Row
    BY <1>6
  <2> QED
    BY <2>1, <2>2, <1>6, RowTotal
<1>8. held = TotalOn(seen, own)
  <2>1. \A x \in own : r.found[x] = seen[x]
    BY DEF Sound, Holds
  <2> HIDE DEF seen
  <2>2. TotalOn(r.found, own) = TotalOn(seen, own)
    BY <2>1, TotalSame, Zenon
  <2> QED
    BY <2>2 DEF Held
<1>9. TotalOn(seen, RowsOf(i)) <= b.onHand
  BY <1>3, <1>5 DEF Sound, Fits
<1> HIDE DEF seen, now, held, b
<1>10. /\ IsPart(q.wrote, Row, Nat)
       /\ now \in [Row -> Nat]
       /\ \A x \in own : now[x] = 0
       /\ \A x \in Row \ own : now[x] = seen[x]
       /\ \A x \in DOMAIN q.wrote : IF x \in own THEN q.wrote[x] = 0
                                    ELSE x \in DOMAIN r.wrote /\ q.wrote[x] = r.wrote[x]
  <2> DEFINE w == r.wrote
             v == q.wrote
  <2>1. IsPart(w, Row, Nat) /\ own \subseteq Row /\ v = Zeros(own) ++ w
    BY <1>1, <1>2, <1>6
  <2>2. seen = w ++ rows /\ now = v ++ rows
    BY DEF seen, now
  <2> HIDE DEF w, v, own
  <2>3. IsPart(v, Row, Nat)
    BY <1>0, <2>1, RowsOff
  <2>4. v ++ rows \in [Row -> Nat]
    BY <1>0, <2>1, RowsOff
  <2>5. \A x \in own : (v ++ rows)[x] = 0
    BY <1>0, <2>1, RowsOff
  <2>6. \A x \in Row \ own : (v ++ rows)[x] = (w ++ rows)[x]
    BY <1>0, <2>1, RowsOff
  <2>7. \A x \in DOMAIN v : IF x \in own THEN v[x] = 0 ELSE x \in DOMAIN w /\ v[x] = w[x]
    BY <2>1 DEF ++, Zeros
  <2> QED
    BY <2>2, <2>3, <2>4, <2>5, <2>6, <2>7 DEF w, v
<1>11. /\ TotalOn(now, RowsOf(i)) = rest
       /\ TotalOn(seen, RowsOf(i)) = rest + held
  <2> DEFINE all == RowsOf(i)
             left == all \ own
  <2>1. now \in [Row -> Nat] /\ seen \in [Row -> Nat] /\ all \subseteq Row
    BY <1>6, <1>7, <1>10
  <2>2. Ends(now, seen, own, all)
    BY <1>6, <1>10 DEF Ends
  <2>3. all = own \cup left /\ own \cap left = {} /\ own \subseteq Row /\ left \subseteq Row
    BY <1>6
  <2>4. \A k \in own \cup left : seen[k] \in Nat
    BY <1>6, <2>1
  <2> HIDE DEF all, own, left
  <2>5. /\ TotalOn(seen, all) = TotalOn(now, all) + TotalOn(seen, own)
        /\ TotalOn(now, all) \in Nat /\ TotalOn(seen, own) \in Nat
    BY <2>1, <2>2, RowsRelieved
  <2>6. TotalOn(seen, all) = TotalOn(seen, own) + TotalOn(seen, left)
    <3>1. IsFiniteSet(own) /\ IsFiniteSet(left)
      BY <2>1, <2>3, RowTotal
    <3> QED
      BY <2>3, <2>4, <3>1, TotalSplit, Zenon
  <2>7. rest \in Nat /\ held = TotalOn(seen, own)
    BY <1>7, <1>8 DEF own
  <2> QED
    BY <2>5, <2>6, <2>7 DEF all, left
<1>12. \A j : j # i => TotalOn(now, RowsOf(j)) = TotalOn(seen, RowsOf(j))
  <2> SUFFICES ASSUME NEW j, j # i PROVE TotalOn(now, RowsOf(j)) = TotalOn(seen, RowsOf(j))
    OBVIOUS
  <2>1. \A x \in RowsOf(j) : x \in Row \ own
    BY <1>6 DEF RowsOf
  <2>2. \A x \in RowsOf(j) : now[x] = seen[x]
    BY <2>1, <1>10
  <2> QED
    BY <2>2, TotalSame, Zenon
<1>13. c \in Bal /\ c.reserved + held = b.reserved /\ rest <= c.onHand
  <2> DEFINE want == r.want[i]
  <2>1. want \in Nat
    BY <1>2, <1>4
  <2>2. held \in Nat /\ rest \in Nat /\ rest + held <= b.onHand
    BY <1>7, <1>8, <1>9, <1>11
  <2>3. /\ Monus(want, held) <= Monus(b.onHand - Least(want, held), rest)
        /\ held <= b.reserved /\ b.reserved - held <= b.onHand - want
    BY DEF Covered, seen, held, b
  <2>4. c = Less(b, want, held)
    OBVIOUS
  <2>5. b.onHand \in Nat /\ b.reserved \in Nat /\ b.reserved <= b.onHand
    BY <1>5 DEF Bal
  <2> HIDE DEF rest, want, c
  <2>6. rest <= b.onHand - want
    BY <2>1, <2>2, <2>3, <2>5 DEF Monus, Least
  <2>7. c.onHand = b.onHand - want /\ c.reserved = b.reserved - held
    BY <2>4 DEF Less
  <2>8. b.onHand - want \in Nat /\ b.reserved - held \in Nat
    BY <2>1, <2>2, <2>3, <2>5, <2>6
  <2>9. c \in Bal
    BY <2>3, <2>4, <2>8 DEF Less, Bal
  <2> QED
    BY <2>2, <2>5, <2>6, <2>7, <2>9
<1> HIDE DEF c, rest
<1>14. IsPart(q.locked, Item, Bal)
  BY <1>1, <1>2, <1>4, <1>13, OnlyOverPart
<1>15. /\ DOMAIN q.locked = DOMAIN r.locked /\ q.locked[i] = c
       /\ \A j \in DOMAIN r.locked : j # i => q.locked[j] = r.locked[j]
  <2>1. q.locked = Only(i, c) ++ r.locked
    BY <1>1
  <2> QED
    BY <2>1, <1>3 DEF ++, Only
<1>16. Shaped(t, q)
  <2>1. q.next \in Nat \ {0}
    BY <1>1, <1>2
  <2> QED
    BY <1>1, <1>2, <1>10, <1>14, <2>1 DEF Shaped, UnderWay
<1>17. Orderly(t, q)
  <2>1. ASSUME NEW x \in DOMAIN q.wrote
        PROVE  /\ x.order = q.order /\ x.item \in DOMAIN q.locked
               /\ q.wrote[x] > 0 => /\ x.by = t
                                    /\ \E k \in 1 .. q.next - 1 : x.item = Lines[q.order][k]
    <3>1. CASE x \in own
      <4>1. q.wrote[x] = 0
        BY <3>1, <1>10
      <4> QED
        BY <3>1, <4>1, <1>1, <1>3, <1>15
    <3>2. CASE x \notin own
      <4>1. x \in DOMAIN r.wrote /\ q.wrote[x] = r.wrote[x]
        BY <3>2, <1>10
      <4>2. x.order = r.order /\ x.item \in DOMAIN r.locked
        BY <4>1 DEF Sound, Orderly
      <4>3. ASSUME r.wrote[x] > 0
            PROVE  x.by = t /\ \E k \in 1 .. r.next - 1 : x.item = Lines[r.order][k]
        BY <4>1, <4>3 DEF Sound, Orderly
      <4>4. 1 .. r.next - 1 \subseteq 1 .. q.next - 1
        BY <1>1, <1>2
      <4> QED
        BY <4>1, <4>2, <4>3, <4>4, <1>1, <1>15
    <3> QED
      BY <3>1, <3>2
  <2> QED
    BY <1>1, <2>1 DEF Orderly
<1>18. Fits(q, rows)
  <2> SUFFICES ASSUME NEW j \in DOMAIN q.locked
               PROVE  TotalOn(now, RowsOf(j)) <= q.locked[j].onHand
    BY DEF Fits, now
  <2>1. CASE j = i
    BY <2>1, <1>11, <1>13, <1>15
  <2>2. CASE j # i
    <3>1. j \in DOMAIN r.locked /\ q.locked[j] = r.locked[j]
      BY <2>2, <1>15
    <3>2. TotalOn(seen, RowsOf(j)) <= r.locked[j].onHand
      BY <3>1 DEF Sound, Fits, seen
    <3> QED
      BY <2>2, <3>1, <3>2, <1>12
  <2> QED
    BY <2>1, <2>2
<1>19. Holds(q, rows) /\ StillThere(q, rows)
  BY <1>1 DEF Holds, StillThere
<1>20. Fresh(t, q, rows)
  BY <1>1 DEF Sound, Fresh
<1>21. ASSUME Exact(r, rows)
       PROVE  Reckoned(q, rows)
  <2> SUFFICES ASSUME NEW j \in DOMAIN q.locked
               PROVE  TotalOn(now, RowsOf(j)) = q.locked[j].reserved
    BY DEF Reckoned, now
  <2>1. CASE j = i
    <3>1. TotalOn(seen, RowsOf(i)) = b.reserved
      BY <1>3, <1>5, <1>21 DEF Exact, Reckoned, seen
    <3>2. held \in Nat /\ rest \in Nat /\ c.reserved \in Nat
      BY <1>7, <1>8, <1>13 DEF Bal, rest
    <3> QED
      BY <2>1, <3>1, <3>2, <1>11, <1>13, <1>15
  <2>2. CASE j # i
    <3>1. j \in DOMAIN r.locked /\ q.locked[j] = r.locked[j]
      BY <2>2, <1>15
    <3>2. TotalOn(seen, RowsOf(j)) = r.locked[j].reserved
      BY <3>1, <1>21 DEF Exact, Reckoned, seen
    <3> QED
      BY <2>2, <3>1, <3>2, <1>12
  <2> QED
    BY <2>1, <2>2
<1> QED
  BY <1>1, <1>15, <1>16, <1>17, <1>18, <1>19, <1>20, <1>21 DEF Sound, Exact

-----------------------------------------------------------------------------
\* The actions.

LEMMA InvParts ==
    ASSUME IInv
    PROVE  /\ Stands(row, balance) /\ tx = [u \in Tx |-> tx[u]]
           /\ \A u \in Tx : Sound(u, tx[u], row)
           /\ ~collided => AddsUp(row, balance) /\ \A u \in Tx : Exact(tx[u], row)
BY DEF IInv, CommittedOK, NeverOverReserved, ReservedIsActive, Stands, AddsUp

\* t becomes q, and nothing is committed.
Becomes(t, q) == tx' = [tx EXCEPT ![t] = q] /\ row' = row /\ balance' = balance

\* What q has locked nobody else has.
Apart(t, q) == \A u \in Tx \ {t} : LocksApart(q, tx[u])

LEMMA PrivateStep ==
    ASSUME NEW t, NEW q, IInv, t \in Tx, Becomes(t, q), Sound(t, q, row), Apart(t, q),
           ~collided' => /\ ~collided /\ Exact(q, row)
                         /\ \A u \in Tx \ {t} : OrdersApart(q, tx[u])
    PROVE  IInv'
<1>1. tx = [u \in Tx |-> tx[u]]
  BY InvParts
<1>2. tx' = [u \in Tx |-> IF u = t THEN q ELSE tx[u]] /\ row' = row /\ balance' = balance
  BY <1>1 DEF Becomes
<1>3. tx' = [u \in Tx |-> tx'[u]] /\ \A u \in Tx : tx'[u] = IF u = t THEN q ELSE tx[u]
  BY <1>2
<1>4. CommittedOK'
  BY <1>2, <1>3 DEF IInv, CommittedOK, NeverOverReserved, ReservedIsActive
<1>5. \A u \in Tx : Sound(u, tx'[u], row')
  BY <1>2, <1>3 DEF IInv
<1>6. ASSUME NEW u \in Tx, NEW v \in Tx, u # v PROVE LocksApart(tx'[u], tx'[v])
  <2>1. LocksApart(tx[u], tx[v])
    BY <1>6 DEF IInv
  <2> QED
    BY <2>1, <1>3, <1>6 DEF LocksApart, Apart
<1>7. ASSUME ~collided' PROVE \A u \in Tx : Exact(tx'[u], row')
  BY <1>2, <1>3, <1>7 DEF IInv
<1>8. ASSUME ~collided', NEW u \in Tx, NEW v \in Tx, u # v PROVE OrdersApart(tx'[u], tx'[v])
  <2>1. OrdersApart(tx[u], tx[v])
    BY <1>8 DEF IInv
  <2> QED
    BY <2>1, <1>3, <1>8 DEF OrdersApart
<1> QED
  BY <1>4, <1>5, <1>6, <1>7, <1>8 DEF IInv

\* The same, within the work for one order.
LEMMA ProceedStep ==
    ASSUME NEW t, NEW q, IInv, t \in Tx, Becomes(t, q), collided' = collided,
           Sound(t, q, row), Apart(t, q), UnderWay(tx[t]), q.order = tx[t].order,
           ~collided => Exact(q, row)
    PROVE  IInv'
<1>1. ASSUME ~collided, NEW u \in Tx \ {t} PROVE OrdersApart(q, tx[u])
  BY <1>1 DEF IInv, OrdersApart
<1> QED
  BY <1>1, PrivateStep

LEMMA SameLocks ==
    ASSUME NEW t, NEW q, IInv, t \in Tx, DOMAIN q.locked = DOMAIN tx[t].locked
    PROVE  Apart(t, q)
BY DEF IInv, LocksApart, Apart

LEMMA OneLockMore ==
    ASSUME NEW t, NEW q, NEW i, IInv, t \in Tx, DOMAIN q.locked = {i} \cup DOMAIN tx[t].locked,
           FreeBalance(t, i)
    PROVE  Apart(t, q)
BY DEF IInv, LocksApart, Apart, FreeBalance

LEMMA BeginStep ==
    ASSUME IInv, NEW t \in Tx, NEW o \in Order, Begin(t, o)
    PROVE  IInv'
<1>1. PICK op \in Ops, want \in [Item -> 1 .. MaxQty] :
         tx' = [tx EXCEPT ![t].pc = IF op = "issue" THEN "lines" ELSE "find",
                          ![t].op = op, ![t].order = o, ![t].want = want]
  BY DEF Begin
<1> DEFINE r == tx[t]
           q == Begun(r, op, o, want)
<1>2. tx' = [tx EXCEPT ![t] = q]
  BY <1>1, InvParts DEF Begun
<1>3. Becomes(t, q)
  BY <1>2 DEF Begin, Becomes
<1>4. r.pc = "idle" /\ Sound(t, r, row)
  BY InvParts DEF Begin
<1> HIDE DEF r
<1>5. Sound(t, q, row) /\ Exact(q, row) /\ q.order = o /\ q.locked = r.locked
  BY <1>4, BeginSound
<1> HIDE DEF q
<1>6. ~collided' => ~collided /\ \A u \in Tx : tx[u].order # o
  BY DEF Begin
<1>7. Apart(t, q)
  BY <1>5, SameLocks DEF r
<1>8. ASSUME ~collided', NEW u \in Tx \ {t} PROVE OrdersApart(q, tx[u])
  BY <1>5, <1>6, <1>8 DEF OrdersApart
<1> QED
  BY <1>3, <1>5, <1>6, <1>7, <1>8, PrivateStep

LEMMA FindStep ==
    ASSUME IInv, NEW t \in Tx, Find(t)
    PROVE  IInv'
<1> DEFINE r == tx[t]
           A == Active(t)
           q == Finding(r, A, row)
<1>1. tx' = [tx EXCEPT ![t] = q] /\ UNCHANGED <<row, balance, collided>>
  BY InvParts DEF Find, Seen, Finding
<1>2. Sound(t, r, row) /\ row \in [Row -> Nat] /\ r.pc = "find"
  BY InvParts DEF Find, Stands
<1>3. A \subseteq Row /\ \A x \in A : x.order = r.order
  BY DEF Active
<1> HIDE DEF A, r
<1>4. Sound(t, q, row) /\ Exact(q, row) /\ q.order = r.order /\ q.locked = r.locked
  BY <1>2, <1>3, FindSound
<1> HIDE DEF q
<1>5. Becomes(t, q) /\ Apart(t, q) /\ UnderWay(tx[t]) /\ q.order = tx[t].order
  BY <1>1, <1>2, <1>4, SameLocks DEF Becomes, UnderWay, r
<1> QED
  BY <1>1, <1>4, <1>5, ProceedStep

LEMMA ReleaseRowStep ==
    ASSUME IInv, NEW t \in Tx, ReleaseRow(t)
    PROVE  IInv'
<1>1. PICK x \in DOMAIN tx[t].found \ DOMAIN tx[t].wrote :
         tx' = [tx EXCEPT ![t].wrote = Only(x, 0) ++ @]
  BY DEF ReleaseRow
<1> DEFINE r == tx[t]
           q == Releasing(r, x)
<1>2. tx' = [tx EXCEPT ![t] = q] /\ UNCHANGED <<row, balance, collided>>
  BY <1>1 DEF ReleaseRow, Releasing
<1>3. /\ Sound(t, r, row) /\ row \in [Row -> Nat] /\ r.pc = "release"
      /\ (~collided => Exact(r, row))
      /\ x \in DOMAIN r.found /\ x \notin DOMAIN r.wrote
  BY <1>1, InvParts DEF ReleaseRow, Stands
<1> HIDE DEF r
<1>4. /\ Sound(t, q, row) /\ q.order = r.order /\ q.locked = r.locked
      /\ (Exact(r, row) => Exact(q, row))
  BY <1>3, ReleaseSound
<1> HIDE DEF q
<1>5. Becomes(t, q) /\ Apart(t, q) /\ UnderWay(tx[t]) /\ q.order = tx[t].order
  BY <1>2, <1>3, <1>4, SameLocks DEF Becomes, UnderWay, r
<1> QED
  BY <1>2, <1>3, <1>4, <1>5, ProceedStep

LEMMA DoneStep ==
    ASSUME IInv, NEW t \in Tx, ReleaseDone(t)
    PROVE  IInv'
<1> DEFINE r == tx[t]
           q == Released(r)
<1>1. tx' = [tx EXCEPT ![t] = q] /\ UNCHANGED <<row, balance, collided>>
  BY DEF ReleaseDone, Released
<1>2. /\ Sound(t, r, row) /\ r.pc = "release" /\ (~collided => Exact(r, row))
      /\ {x.item : x \in DOMAIN r.found} \subseteq DOMAIN r.locked
  BY InvParts DEF ReleaseDone
<1> HIDE DEF r
<1>3. /\ Sound(t, q, row) /\ q.order = r.order /\ q.locked = r.locked
      /\ (Exact(r, row) => Exact(q, row))
  BY <1>2, DoneSound
<1> HIDE DEF q
<1>4. Becomes(t, q) /\ Apart(t, q) /\ UnderWay(tx[t]) /\ q.order = tx[t].order
  BY <1>1, <1>2, <1>3, SameLocks DEF Becomes, UnderWay, r
<1> QED
  BY <1>1, <1>2, <1>3, <1>4, ProceedStep

LEMMA RolledBackStep ==
    ASSUME IInv, NEW t \in Tx, RolledBack(t)
    PROVE  IInv'
<1> DEFINE q == Ended("aborted")
<1>1. Becomes(t, q) /\ collided' = collided
  BY DEF RolledBack, Becomes
<1>2. Sound(t, q, row) /\ Exact(q, row) /\ ~UnderWay(q) /\ DOMAIN q.locked = {}
  BY EndedSound
<1> HIDE DEF q
<1>3. Apart(t, q) /\ \A u \in Tx \ {t} : OrdersApart(q, tx[u])
  BY <1>2 DEF Apart, LocksApart, OrdersApart
<1> QED
  BY <1>1, <1>2, <1>3, PrivateStep

LEMMA RelieveStep ==
    ASSUME IInv, NEW t \in Tx, Relieve(t)
    PROVE  IInv'
<1>1. PICK i \in {x.item : x \in DOMAIN tx[t].found} \ DOMAIN tx[t].locked :
         /\ FreeBalance(t, i)
         /\ IF balance[i].reserved - Relieved(t, i) >= 0
            THEN /\ tx' = [tx EXCEPT ![t].locked =
                       Only(i, [balance[i] EXCEPT !.reserved = balance[i].reserved - Relieved(t, i)]) ++ @]
                 /\ UNCHANGED <<row, balance, collided>>
            ELSE RolledBack(t)
  BY DEF Relieve
<1>2. CASE balance[i].reserved - Relieved(t, i) >= 0
  <2> DEFINE r == tx[t]
             left == balance[i].reserved - Relieved(t, i)
             b == [balance[i] EXCEPT !.reserved = left]
             q == Relieving(r, i, b)
             own == FoundOf(r, i)
  <2>1. tx' = [tx EXCEPT ![t] = q] /\ UNCHANGED <<row, balance, collided>>
    BY <1>1, <1>2 DEF Relieving
  <2>2. /\ Sound(t, r, row) /\ r.pc = "release" /\ Stands(row, balance)
        /\ DOMAIN r.found \subseteq DOMAIN r.wrote
        /\ (~collided => Exact(r, row) /\ AddsUp(row, balance))
    BY InvParts DEF Relieve, AllReleased
  <2>3. i \notin DOMAIN r.locked /\ \E x \in DOMAIN r.found : x.item = i
    BY <1>1
  <2>4. Relieved(t, i) = TotalOn(r.found, own)
    BY DEF Relieved, FoundOf
  <2> HIDE DEF r
  <2>5. IsPart(r.found, Row, Nat)
    BY <2>2, ShapedParts DEF Sound
  <2>6. i \in Item
    BY <2>3, <2>5 DEF IsPart, Row
  <2>7. TotalOn(r.found, own) \in Nat
    <3>1. own \subseteq Row /\ \A x \in own : r.found[x] \in Nat
      BY <2>5 DEF IsPart, FoundOf
    <3>2. IsFiniteSet(own)
      BY <3>1, RowsFinite, FS_Subset
    <3> QED
      BY <3>1, <3>2, TotalNat
  <2>8. /\ balance[i] \in [onHand : Nat, reserved : Nat]
        /\ balance[i].reserved <= balance[i].onHand
    BY <2>2, <2>6 DEF Stands, Bal
  <2>9. left \in Nat /\ left <= balance[i].onHand
        /\ left + TotalOn(r.found, own) = balance[i].reserved
    BY <1>2, <2>4, <2>7, <2>8
  <2> HIDE DEF left
  <2>10. b \in Bal /\ b.onHand = balance[i].onHand /\ b.reserved = left
    BY <2>8, <2>9 DEF Bal
  <2> HIDE DEF b
  <2>11. Stands(row, balance) /\ Sound(t, r, row) /\ MayRelieve(r, i, b, balance)
    BY <2>2, <2>3, <2>6, <2>10 DEF MayRelieve
  <2>0. q = Relieving(r, i, b)
    OBVIOUS
  <2> HIDE DEF q
  <2>12. /\ Sound(t, q, row) /\ q.order = r.order /\ LocksOneMore(q, r, i)
         /\ (Exact(r, row) /\ Told(r, i, b, row)) => Exact(q, row)
    BY <2>0, <2>11, RelieveSound
  <2>13. ASSUME ~collided PROVE Exact(q, row)
    <3>1. Told(r, i, b, row)
      BY <2>2, <2>6, <2>9, <2>10, <2>13 DEF AddsUp, Told
    <3>2. Exact(r, row)
      BY <2>2, <2>13
    <3> QED
      BY <2>12, <3>1, <3>2
  <2>14. Becomes(t, q) /\ Apart(t, q) /\ UnderWay(tx[t]) /\ q.order = tx[t].order
    BY <1>1, <2>1, <2>2, <2>12, OneLockMore DEF Becomes, UnderWay, LocksOneMore, r
  <2> QED
    BY <2>1, <2>12, <2>13, <2>14, ProceedStep
<1>3. CASE ~(balance[i].reserved - Relieved(t, i) >= 0)
  BY <1>1, <1>3, RolledBackStep
<1> QED
  BY <1>2, <1>3

LEMMA ReserveStep ==
    ASSUME IInv, NEW t \in Tx, ReserveLine(t)
    PROVE  IInv'
<1> DEFINE r == tx[t]
           i == LineOf(r)
           q == Reserving(t, r, row, balance)
<1>1. /\ Visited(t)[tx[t].next] = i /\ SeenBalance(t, i) = BalanceOf(r, balance)
      /\ Grant(t, i) = Granted(r, row, balance)
  BY DEF Visited, LineOf, SeenBalance, BalanceOf, Grant, Granted, Seen
<1>2. /\ r.pc = "lines" /\ r.next <= Len(Lines[r.order]) /\ FreeBalance(t, i)
      /\ UNCHANGED <<row, balance, collided>>
  BY <1>1 DEF ReserveLine, Visited
<1>3. tx' = [tx EXCEPT
         ![t].next = @ + 1,
         ![t].locked = Only(i, Raised(BalanceOf(r, balance), Granted(r, row, balance))) ++ @,
         ![t].wrote = Created(@, NewRow(t, r), Granted(r, row, balance))]
  BY <1>1 DEF ReserveLine, Raised, Created, NewRow
<1>4. tx' = [tx EXCEPT ![t] = q]
  BY <1>3, InvParts DEF Reserving
<1>5. /\ Sound(t, r, row) /\ Stands(row, balance)
      /\ (~collided => Exact(r, row) /\ AddsUp(row, balance))
  BY InvParts
<1> HIDE DEF r
<1>6. /\ Sound(t, q, row) /\ q.order = r.order /\ DOMAIN q.locked = {i} \cup DOMAIN r.locked
      /\ Exact(r, row) /\ AddsUp(row, balance) => Exact(q, row)
  BY <1>2, <1>5, ReserveSound
<1> HIDE DEF q, i
<1>7. Becomes(t, q) /\ Apart(t, q) /\ UnderWay(tx[t]) /\ q.order = tx[t].order
  BY <1>2, <1>4, <1>6, OneLockMore DEF Becomes, UnderWay, r
<1> QED
  BY <1>2, <1>5, <1>6, <1>7, ProceedStep

LEMMA LockStep ==
    ASSUME IInv, NEW t \in Tx, LockLine(t)
    PROVE  IInv'
<1> DEFINE r == tx[t]
           i == LineOf(r)
           A == {y \in Active(t) : y.item = i}
           q == LockingLine(r, A, row, balance)
<1>1. Visited(t)[tx[t].next] = i /\ SeenBalance(t, i) = BalanceOf(r, balance)
  BY DEF Visited, LineOf, SeenBalance, BalanceOf
<1>2. /\ r.pc = "lines" /\ r.next <= Len(Lines[r.order]) /\ FreeBalance(t, i)
      /\ UNCHANGED <<row, balance, collided>>
  BY <1>1 DEF LockLine, Visited
<1>3. tx' = [tx EXCEPT ![t].pc = "rows", ![t].locked = Only(i, BalanceOf(r, balance)) ++ @,
                       ![t].found = [x \in A |-> (r.wrote ++ row)[x]]]
  BY <1>1 DEF LockLine, Locking, Seen
<1>4. A \subseteq Row /\ \A x \in A : x.order = r.order /\ x.item = LineOf(r)
  BY DEF Active
<1> HIDE DEF A
<1>5. tx' = [tx EXCEPT ![t] = q]
  BY <1>3, InvParts DEF LockingLine
<1>6. /\ Sound(t, r, row) /\ Stands(row, balance)
      /\ (~collided => Exact(r, row) /\ AddsUp(row, balance))
  BY InvParts
<1> HIDE DEF r
<1>7. /\ Sound(t, q, row) /\ q.order = r.order /\ DOMAIN q.locked = {i} \cup DOMAIN r.locked
      /\ Exact(r, row) /\ AddsUp(row, balance) => Exact(q, row)
  BY <1>2, <1>4, <1>6, LockSound
<1> HIDE DEF q, i
<1>8. Becomes(t, q) /\ Apart(t, q) /\ UnderWay(tx[t]) /\ q.order = tx[t].order
  BY <1>2, <1>5, <1>7, OneLockMore DEF Becomes, UnderWay, r
<1> QED
  BY <1>2, <1>6, <1>7, <1>8, ProceedStep

LEMMA IssueStep ==
    ASSUME IInv, NEW t \in Tx, IssueLine(t)
    PROVE  IInv'
<1> DEFINE r == tx[t]
           i == LineOf(r)
           q == Issuing(r, balance)
<1>1. /\ Visited(t)[tx[t].next] = i /\ SeenBalance(t, i) = BalanceOf(r, balance)
      /\ TotalOn(tx[t].found, DOMAIN tx[t].found) = Held(r) /\ r.pc = "rows"
  BY DEF Visited, LineOf, SeenBalance, BalanceOf, IssueLine, Held
<1>2. \/ RolledBack(t)
      \/ /\ Covered(r, row, balance)
         /\ tx' = [tx EXCEPT ![t].pc = "lines", ![t].next = @ + 1,
                             ![t].locked = Only(i, Less(BalanceOf(r, balance), r.want[i], Held(r))) ++ @,
                             ![t].wrote = Zeros(DOMAIN r.found) ++ @]
         /\ UNCHANGED <<row, balance, collided>>
  BY <1>1 DEF IssueLine, Seen, Covered, Less, Zeros
<1>3. CASE RolledBack(t)
  BY <1>3, RolledBackStep
<1>4. CASE ~RolledBack(t)
  <2>1. tx' = [tx EXCEPT ![t] = q]
    BY <1>2, <1>4, InvParts DEF Issuing
  <2>2. Sound(t, r, row) /\ Stands(row, balance) /\ (~collided => Exact(r, row))
    BY InvParts
  <2>3. Covered(r, row, balance) /\ UNCHANGED <<row, balance, collided>>
    BY <1>2, <1>4
  <2> HIDE DEF r
  <2>4. /\ Sound(t, q, row) /\ q.order = r.order /\ DOMAIN q.locked = DOMAIN r.locked
        /\ Exact(r, row) => Exact(q, row)
    BY <1>1, <2>2, <2>3, IssueSound
  <2> HIDE DEF q
  <2>5. Becomes(t, q) /\ Apart(t, q) /\ UnderWay(tx[t]) /\ q.order = tx[t].order
    BY <1>1, <2>1, <2>3, <2>4, SameLocks DEF Becomes, UnderWay, r
  <2> QED
    BY <2>2, <2>3, <2>4, <2>5, ProceedStep
<1> QED
  BY <1>3, <1>4

\* What t commits is nothing that another transaction relies on.
LEMMA OthersUnmoved ==
    ASSUME IInv, NEW t \in Tx, tx[t].pc = "lines", NEW u \in Tx, u # t,
           NEW rows, rows = tx[t].wrote ++ row
    PROVE  Sound(u, tx[u], rows) /\ (~collided => Exact(tx[u], rows))
<1> DEFINE r == tx[t]
           q == tx[u]
<1>1. /\ Sound(t, r, row) /\ Sound(u, q, row) /\ row \in [Row -> Nat]
      /\ DOMAIN r.locked \cap DOMAIN q.locked = {}
      /\ ~collided => Exact(q, row) /\ (UnderWay(q) /\ UnderWay(r) => q.order # r.order)
  BY InvParts DEF IInv, LocksApart, OrdersApart, Stands
<1>2. r.pc = "lines" /\ UnderWay(r)
  BY DEF UnderWay
<1> HIDE DEF r, q
<1>3. IsPart(r.wrote, Row, Nat) /\ IsPart(q.wrote, Row, Nat)
  BY <1>1, ShapedParts DEF Sound
<1>4. \A x \in DOMAIN r.wrote : x.order = r.order /\ x.item \in DOMAIN r.locked /\ (r.wrote[x] > 0 => x.by = t)
  BY <1>1, <1>2 DEF Sound, Orderly
<1>5. /\ rows \in [Row -> Nat]
      /\ \A x \in DOMAIN r.wrote : x \in Row /\ rows[x] = r.wrote[x]
      /\ \A x \in Row \ DOMAIN r.wrote : rows[x] = row[x]
  BY <1>1, <1>3, SeenType DEF r
<1>6. \A x \in Row : x.item \in DOMAIN q.locked => rows[x] = row[x]
  BY <1>1, <1>4, <1>5
<1>7. \A x \in Row : (q.wrote ++ rows)[x] = IF x \in DOMAIN q.wrote THEN q.wrote[x] ELSE rows[x]
  BY <1>3, <1>5, SeenType
<1>8. \A x \in Row : (q.wrote ++ row)[x] = IF x \in DOMAIN q.wrote THEN q.wrote[x] ELSE row[x]
  BY <1>1, <1>3, SeenType
<1>9. \A x \in Row : x.item \in DOMAIN q.locked => (q.wrote ++ rows)[x] = (q.wrote ++ row)[x]
  BY <1>6, <1>7, <1>8
<1>10. ASSUME NEW i \in DOMAIN q.locked
       PROVE  TotalOn(q.wrote ++ rows, RowsOf(i)) = TotalOn(q.wrote ++ row, RowsOf(i))
  <2>1. \A x \in RowsOf(i) : x \in Row /\ x.item = i
    BY DEF RowsOf
  <2>2. \A x \in RowsOf(i) : (q.wrote ++ rows)[x] = (q.wrote ++ row)[x]
    BY <2>1, <1>9
  <2> QED
    BY <2>2, TotalSame, Zenon
<1>11. Fits(q, rows) /\ (Reckoned(q, row) => Reckoned(q, rows))
  BY <1>1, <1>10 DEF Sound, Fits, Reckoned
<1>12. Holds(q, rows)
  <2> SUFFICES ASSUME q.pc = "rows", NEW x \in DOMAIN q.found
               PROVE  q.found[x] = (q.wrote ++ rows)[x]
    BY DEF Holds
  <2>1. x \in Row
    BY <1>1, ShapedParts, PartAt DEF Sound
  <2>2. x.item \in DOMAIN q.locked
    BY <1>1 DEF Sound, Orderly
  <2>3. q.found[x] = (q.wrote ++ row)[x]
    BY <1>1 DEF Sound, Holds
  <2> QED
    BY <2>1, <2>2, <2>3, <1>9
<1>13. Fresh(u, q, rows)
  <2> SUFFICES ASSUME q.pc \notin {"committed", "aborted"}, NEW x \in Row, x.by = u
               PROVE  rows[x] = 0
    BY DEF Fresh
  <2>1. row[x] = 0
    BY <1>1 DEF Sound, Fresh
  <2>2. x \in DOMAIN r.wrote => r.wrote[x] \in Nat /\ ~(r.wrote[x] > 0)
    BY <1>3, <1>4, PartAt
  <2> QED
    BY <2>1, <2>2, <1>5
<1>14. ASSUME ~collided PROVE StillThere(q, rows)
  <2> SUFFICES ASSUME q.pc = "release", NEW x \in DOMAIN q.found PROVE q.found[x] = rows[x]
    BY DEF StillThere
  <2>1. x \in Row
    BY <1>1, ShapedParts, PartAt DEF Sound
  <2>2. x.order = q.order /\ q.order # r.order
    BY <1>1, <1>2, <1>14 DEF Sound, Orderly, UnderWay
  <2>3. q.found[x] = row[x]
    BY <1>1, <1>14 DEF Exact, StillThere
  <2> QED
    BY <2>1, <2>2, <2>3, <1>4, <1>5
<1> QED
  BY <1>1, <1>11, <1>12, <1>13, <1>14 DEF Sound, Exact, q

LEMMA CommitStep ==
    ASSUME IInv, NEW t \in Tx, Commit(t)
    PROVE  IInv'
<1> DEFINE r == tx[t]
<1>1. /\ r.pc = "lines" /\ row' = r.wrote ++ row /\ balance' = r.locked ++ balance
      /\ tx' = [tx EXCEPT ![t] = Ended("committed")] /\ UNCHANGED collided
  BY DEF Commit, Seen
<1>2. /\ row \in [Row -> Nat] /\ balance \in [Item -> Bal] /\ tx = [u \in Tx |-> tx[u]]
      /\ Stands(row, balance) /\ Sound(t, r, row)
      /\ (~collided => Exact(r, row) /\ AddsUp(row, balance))
  BY InvParts DEF Stands
<1>3. IsPart(r.wrote, Row, Nat) /\ IsPart(r.locked, Item, Bal)
  BY <1>2, ShapedParts DEF Sound
<1>4. /\ tx' = [u \in Tx |-> tx'[u]] /\ tx'[t] = Ended("committed")
      /\ \A u \in Tx \ {t} : tx'[u] = tx[u]
  <2>1. tx' = [u \in Tx |-> IF u = t THEN Ended("committed") ELSE tx[u]]
    BY <1>1, <1>2
  <2> QED
    BY <2>1
<1>5. /\ Sound(t, Ended("committed"), row') /\ Exact(Ended("committed"), row')
      /\ ~UnderWay(Ended("committed")) /\ DOMAIN Ended("committed").locked = {}
  BY EndedSound
<1>6. ASSUME NEW u \in Tx \ {t} PROVE Sound(u, tx[u], row') /\ (~collided => Exact(tx[u], row'))
  BY <1>1, OthersUnmoved
<1> HIDE DEF r
<1>7. row' \in [Row -> Nat]
  BY <1>1, <1>2, <1>3, SeenType
<1>8. balance' \in [Item -> Bal]
  <2>1. \A i \in Item : (r.locked ++ balance)[i] \in Bal
    BY <1>2, <1>3, BalanceSeen
  <2>2. DOMAIN (r.locked ++ balance) = Item
    BY <1>2, <1>3 DEF ++, IsPart
  <2>3. r.locked ++ balance = [i \in Item |-> (r.locked ++ balance)[i]]
    BY <2>2 DEF ++
  <2> QED
    BY <1>1, <2>1, <2>3
<1>9. ASSUME NEW i \in Item PROVE TotalOn(row', RowsOf(i)) <= balance'[i].onHand
  BY <1>1, <1>2, SeenFits
<1>10. ASSUME ~collided, NEW i \in Item PROVE balance'[i].reserved = TotalOn(row', RowsOf(i))
  <2>1. Reckoned(r, row) /\ r.pc \in {"lines", "rows"}
    BY <1>1, <1>2, <1>10 DEF Exact
  <2>2. TotalOn(r.wrote ++ row, RowsOf(i)) = (r.locked ++ balance)[i].reserved
    BY <1>2, <1>10, <2>1, SeenReckoned
  <2> QED
    BY <1>1, <2>2
<1>11. CommittedOK'
  BY <1>1, <1>4, <1>7, <1>8, <1>9, <1>10 DEF CommittedOK, NeverOverReserved, ReservedIsActive
<1>12. \A u \in Tx : Sound(u, tx'[u], row')
  BY <1>4, <1>5, <1>6
<1>13. ASSUME NEW u \in Tx, NEW v \in Tx, u # v PROVE LocksApart(tx'[u], tx'[v])
  <2>1. LocksApart(tx[u], tx[v])
    BY <1>13 DEF IInv
  <2> QED
    BY <2>1, <1>4, <1>5, <1>13 DEF LocksApart
<1>14. ASSUME ~collided' PROVE \A u \in Tx : Exact(tx'[u], row')
  BY <1>1, <1>4, <1>5, <1>6, <1>14
<1>15. ASSUME ~collided', NEW u \in Tx, NEW v \in Tx, u # v PROVE OrdersApart(tx'[u], tx'[v])
  <2>1. OrdersApart(tx[u], tx[v])
    BY <1>1, <1>15 DEF IInv
  <2> QED
    BY <2>1, <1>4, <1>5, <1>15 DEF OrdersApart
<1> QED
  BY <1>11, <1>12, <1>13, <1>14, <1>15 DEF IInv

LEMMA InitInv ==
    ASSUME Init
    PROVE  IInv
<1>1. PICK stock \in [Item -> 0 .. MaxStock] :
         /\ balance = [i \in Item |-> [onHand |-> stock[i], reserved |-> TotalOn(row, RowsOf(i))]]
         /\ \A i \in Item : TotalOn(row, RowsOf(i)) <= stock[i]
  BY DEF Init
<1>2. row \in [Row -> Nat] /\ \A x \in Row : x.by # "before" => row[x] = 0
  BY RaceAssumption DEF Init
<1>3. tx = [t \in Tx |-> Idle]
  BY DEF Init
<1>4. ASSUME NEW i \in Item
      PROVE  /\ balance[i] = [onHand |-> stock[i], reserved |-> TotalOn(row, RowsOf(i))]
             /\ TotalOn(row, RowsOf(i)) \in Nat /\ stock[i] \in Nat
  <2>1. TotalOn(row, RowsOf(i)) \in Nat
    BY <1>2, RowsFinite, RowTotal
  <2> QED
    BY <1>1, <2>1, RaceAssumption
<1>5. balance \in [Item -> Bal]
  <2>1. \A i \in Item : [onHand |-> stock[i], reserved |-> TotalOn(row, RowsOf(i))] \in Bal
    BY <1>1, <1>4 DEF Bal
  <2> QED
    BY <1>1, <2>1
<1>6. /\ IsTx(Idle) /\ Idle.pc = "idle" /\ Idle.found = <<>> /\ Idle.next = 1
      /\ Idle.wrote = <<>> /\ Idle.locked = <<>>
  BY DEF Idle, IsTx
<1>7. /\ DOMAIN Idle.wrote = {} /\ DOMAIN Idle.locked = {}
      /\ IsPart(Idle.found, Row, Nat) /\ IsPart(Idle.wrote, Row, Nat) /\ IsPart(Idle.locked, Item, Bal)
  BY <1>6, NothingPart
<1>8. ASSUME NEW t \in Tx PROVE Sound(t, Idle, row) /\ Exact(Idle, row) /\ ~UnderWay(Idle)
  <2>1. Shaped(t, Idle) /\ ~UnderWay(Idle)
    BY <1>6, <1>7 DEF Shaped, UnderWay
  <2>2. Orderly(t, Idle)
    BY <1>6, <1>7 DEF Orderly
  <2>3. Fits(Idle, row) /\ Reckoned(Idle, row) /\ Holds(Idle, row) /\ StillThere(Idle, row)
    BY <1>6, <1>7 DEF Fits, Reckoned, Holds, StillThere
  <2>4. Fresh(t, Idle, row)
    BY <1>2, RaceAssumption DEF Fresh
  <2> QED
    BY <2>1, <2>2, <2>3, <2>4 DEF Sound, Exact
<1>9. CommittedOK
  <2>1. \A i \in Item : /\ balance[i].reserved = TotalOn(row, RowsOf(i))
                        /\ TotalOn(row, RowsOf(i)) <= balance[i].onHand
    BY <1>1, <1>4
  <2> QED
    BY <2>1, <1>2, <1>3, <1>5 DEF CommittedOK, NeverOverReserved, ReservedIsActive
<1> QED
  BY <1>3, <1>7, <1>8, <1>9 DEF IInv, LocksApart, OrdersApart

LEMMA NextInv ==
    ASSUME IInv, [Next]_vars
    PROVE  IInv'
<1>1. CASE UNCHANGED vars
  BY <1>1 DEF vars, IInv, CommittedOK, NeverOverReserved, ReservedIsActive
<1>2. ASSUME NEW t \in Tx, NEW o \in Order, Begin(t, o) PROVE IInv'
  BY <1>2, BeginStep
<1>3. ASSUME NEW t \in Tx, Proceed(t) PROVE IInv'
  BY <1>3, FindStep, ReleaseRowStep, RelieveStep, DoneStep, ReserveStep, LockStep, IssueStep,
     CommitStep DEF Proceed
<1>4. ASSUME NEW t \in Tx, Deadlock(t) PROVE IInv'
  BY <1>4, RolledBackStep DEF Deadlock
<1> QED
  BY <1>1, <1>2, <1>3, <1>4 DEF Next

\* IInv is more than ReservationsFit.
LEMMA InvFits ==
    ASSUME IInv
    PROVE  ReservationsFit
<1>1. /\ row \in [Row -> Nat] /\ balance \in [Item -> Bal]
      /\ NeverOverReserved /\ ReservedIsActive
  BY DEF IInv, CommittedOK
<1>2. \A i \in Item : balance[i].reserved <= balance[i].onHand
  BY <1>1 DEF Bal
<1>3. balance \in [Item -> [onHand : Nat, reserved : Nat]]
  BY <1>1 DEF Bal
<1>4. ASSUME NEW t \in Tx
      PROVE  /\ tx[t].pc \in {"idle", "find", "release", "lines", "rows", "committed", "aborted"}
             /\ DOMAIN tx[t].found \subseteq Row /\ DOMAIN tx[t].wrote \subseteq Row
             /\ DOMAIN tx[t].locked \subseteq Item
  BY InvParts DEF Sound, Shaped, IsPart
<1>5. TypeOK
  BY <1>1, <1>2, <1>3, <1>4 DEF TypeOK
<1> QED
  BY <1>1, <1>5 DEF ReservationsFit

(***************************************************************************)
(* However many requests reserve, release and issue at once, and in        *)
(* whatever order their statements interleave, deadlocks and rollbacks     *)
(* included: no more is reserved of an item than there is, and balances    *)
(* are the sums of their ACTIVE reservations as long as no two requests    *)
(* for one order overlap (PrismaUnitOfWork, adjustReserved and the         *)
(* reserve, release and issue adapters).                                   *)
(***************************************************************************)
THEOREM ReservationsAlwaysFit == Spec => []ReservationsFit
<1>1. Init => IInv
  BY InitInv
<1>2. IInv /\ [Next]_vars => IInv'
  BY NextInv
<1>3. IInv => ReservationsFit
  BY InvFits
<1> QED
  BY <1>1, <1>2, <1>3, PTL DEF Spec

-----------------------------------------------------------------------------
(***************************************************************************)
(* Every commit is a step of StockPromise.                                 *)
(***************************************************************************)
\* Begin.
LEMMA BeginWork ==
    ASSUME NEW rows, NEW bal, NEW t, NEW r, NEW o, NEW want, NEW op, NEW q,
           q = Begun(r, op, o, want), Sound(t, r, rows), Work(r, rows, bal), r.pc = "idle",
           op \in Ops, want \in [Item -> 1 .. MaxQty]
    PROVE  Work(q, rows, bal)
<1>1. /\ q.pc = IF op = "issue" THEN "lines" ELSE "find"
      /\ q.op = op /\ q.order = o /\ q.want = want /\ q.found = r.found
      /\ q.next = r.next /\ q.wrote = r.wrote /\ q.locked = r.locked
  BY DEF Sound, Shaped, IsTx, Begun
<1>2. DOMAIN r.wrote = {} /\ DOMAIN r.locked = {} /\ r.next = 1
  BY DEF Sound, Orderly, Work
<1>3. op \in {"reserve", "release", "issue"}
  BY RaceAssumption
<1>4. LeavesStock(q, bal)
  BY <1>1, <1>2 DEF LeavesStock
<1>5. ASSUME op = "issue" PROVE Issues(q, rows, bal)
  <2>1. Visits(q) = {}
    BY <1>1, <1>2 DEF Visits
  <2>2. q.pc = "lines"
    BY <1>1, <1>5
  <2> QED
    BY <1>1, <1>2, <2>1, <2>2 DEF Issues, KeepsToLines, TakesStock, AtRows
<1> QED
  BY <1>1, <1>3, <1>4, <1>5 DEF Work

\* Find, ReleaseRow and ReleaseDone lock nothing.
LEMMA ReleaseWork ==
    ASSUME NEW rows, NEW bal, NEW r, NEW q, Work(r, rows, bal),
           r.pc \in {"find", "release"}, q.pc \in {"release", "lines"},
           q.op = r.op, q.locked = r.locked
    PROVE  Work(q, rows, bal)
<1>1. r.op # "issue" /\ r.op \in {"reserve", "release", "issue"} /\ LeavesStock(r, bal)
  BY DEF Work, UnderWay, Issues
<1>2. LeavesStock(q, bal)
  BY <1>1 DEF LeavesStock
<1> QED
  BY <1>1, <1>2 DEF Work

\* Relieve.
LEMMA RelieveWork ==
    ASSUME NEW rows, NEW bal, NEW r, NEW q, NEW i, NEW b, Work(r, rows, bal),
           r.pc = "release", q.pc = "release",
           q.op = r.op, q.locked = Only(i, b) ++ r.locked, b.onHand = bal[i].onHand
    PROVE  Work(q, rows, bal)
<1>1. r.op # "issue" /\ r.op \in {"reserve", "release", "issue"} /\ LeavesStock(r, bal)
  BY DEF Work, UnderWay, Issues
<1>2. LeavesStock(q, bal)
  <2>1. /\ DOMAIN q.locked = {i} \cup DOMAIN r.locked /\ q.locked[i] = b
        /\ \A j \in DOMAIN r.locked : j # i => q.locked[j] = r.locked[j]
    BY DEF ++, Only
  <2> QED
    BY <1>1, <2>1 DEF LeavesStock
<1> QED
  BY <1>1, <1>2 DEF Work

\* ReserveLine.
LEMMA ReserveWork ==
    ASSUME NEW rows, NEW bal, NEW t, NEW r, NEW q, q = Reserving(t, r, rows, bal),
           Stands(rows, bal), t \in Tx, Sound(t, r, rows), Work(r, rows, bal), r.pc = "lines",
           r.op = "reserve", r.next <= Len(Lines[r.order])
    PROVE  Work(q, rows, bal)
<1> DEFINE i == LineOf(r)
           b == BalanceOf(r, bal)
           c == Raised(b, Granted(r, rows, bal))
<1>1. q.pc = "lines" /\ q.op = r.op /\ q.locked = Only(i, c) ++ r.locked
  BY DEF Sound, Shaped, IsTx, Reserving
<1>2. LeavesStock(r, bal)
  BY DEF Work, UnderWay
<1>3. i \in Item
  BY NotYetThere DEF Stands
<1>4. b \in Bal /\ b.onHand = bal[i].onHand
  <2>1. IsPart(r.locked, Item, Bal) /\ bal \in [Item -> Bal]
    BY ShapedParts DEF Sound, Stands
  <2>2. /\ (r.locked ++ bal)[i] \in Bal
        /\ i \in DOMAIN r.locked => (r.locked ++ bal)[i] = r.locked[i]
        /\ i \notin DOMAIN r.locked => (r.locked ++ bal)[i] = bal[i]
    BY <1>3, <2>1, BalanceSeen
  <2> QED
    BY <1>2, <2>2 DEF BalanceOf, LeavesStock
<1>5. c.onHand = bal[i].onHand
  BY <1>4 DEF Raised, Bal
<1> HIDE DEF i, c
<1>6. LeavesStock(q, bal)
  <2>1. q.locked = Only(i, c) ++ r.locked
    BY <1>1
  <2>2. /\ DOMAIN q.locked = {i} \cup DOMAIN r.locked /\ q.locked[i] = c
        /\ \A j \in DOMAIN r.locked : j # i => q.locked[j] = r.locked[j]
    BY <2>1 DEF ++, Only
  <2> QED
    BY <1>2, <1>5, <2>2 DEF LeavesStock
<1> QED
  BY <1>1, <1>6 DEF Work

\* The line it is at is none it has been at.
LEMMA NotVisited ==
    ASSUME NEW t, NEW rows, NEW r, Sound(t, r, rows), UnderWay(r), r.next <= Len(Lines[r.order])
    PROVE  LineOf(r) \in Item /\ LineOf(r) \notin Visits(r)
<1>1. r.next \in Nat \ {0} /\ r.order \in Order
  BY DEF Sound, Shaped
<1>2. Lines[r.order] \in Seq(Item) /\ r.next \in DOMAIN Lines[r.order]
      /\ \A k \in 1 .. r.next - 1 : k \in DOMAIN Lines[r.order] /\ k # r.next
  BY <1>1, RaceAssumption
<1>3. LineOf(r) \in Item
  BY <1>2 DEF LineOf
<1>4. \A k \in 1 .. r.next - 1 : Lines[r.order][k] # Lines[r.order][r.next]
  BY <1>1, <1>2, RaceAssumption
<1> QED
  BY <1>3, <1>4 DEF Visits, LineOf

\* LockLine.
LEMMA LockWork ==
    ASSUME NEW rows, NEW bal, NEW t, NEW r, NEW A, NEW q, q = LockingLine(r, A, rows, bal),
           Stands(rows, bal), t \in Tx, Sound(t, r, rows), Work(r, rows, bal), r.pc = "lines",
           r.op = "issue", r.next <= Len(Lines[r.order]),
           A = {x \in LineRows(r.order, LineOf(r)) : (r.wrote ++ rows)[x] > 0}
    PROVE  Work(q, rows, bal)
<1> DEFINE F == [x \in A |-> (r.wrote ++ rows)[x]]
           i == LineOf(r)
           b == BalanceOf(r, bal)
<1>1. /\ q.pc = "rows" /\ q.op = r.op /\ q.order = r.order /\ q.want = r.want /\ q.found = F
      /\ q.next = r.next /\ q.locked = Only(i, b) ++ r.locked /\ q.wrote = r.wrote
  BY DEF Sound, Shaped, IsTx, LockingLine
<1>2. Issues(r, rows, bal)
  BY DEF Work, UnderWay
<1>3. i \in Item /\ i \notin Visits(r)
  BY NotVisited DEF UnderWay
<1>4. i \notin DOMAIN r.locked
  BY <1>2, <1>3 DEF Issues, KeepsToLines
<1>5. b = bal[i]
  <2>1. IsPart(r.locked, Item, Bal) /\ bal \in [Item -> Bal]
    BY ShapedParts DEF Sound, Stands
  <2>2. (r.locked ++ bal)[i] = bal[i]
    BY <1>3, <1>4, <2>1, BalanceSeen
  <2> QED
    BY <2>2 DEF BalanceOf
<1>6. DOMAIN F = A
  OBVIOUS
<1>7. /\ DOMAIN q.locked = {i} \cup DOMAIN r.locked /\ q.locked[i] = b
      /\ \A j \in DOMAIN r.locked : j # i => q.locked[j] = r.locked[j]
  <2>1. q.locked = Only(i, b) ++ r.locked
    BY <1>1
  <2> QED
    BY <2>1 DEF ++, Only
<1>8. Visits(q) = Visits(r) /\ LineOf(q) = i
  <2>1. q.order = r.order /\ q.next = r.next
    BY <1>1
  <2> QED
    BY <2>1 DEF Visits, LineOf
<1>9. \A x \in LineRows(r.order, i) : x \notin A => (r.wrote ++ rows)[x] = 0
  <2>1. \A x \in Row : (r.wrote ++ rows)[x] \in Nat
    BY SeenType, ShapedParts DEF Sound, Stands
  <2> QED
    BY <2>1 DEF LineRows
<1> HIDE DEF F, i, b
<1>10. KeepsToLines(q)
  BY <1>1, <1>2, <1>7, <1>8 DEF Issues, KeepsToLines
<1>11. TakesStock(q, bal)
  BY <1>1, <1>2, <1>3, <1>7, <1>8 DEF Issues, TakesStock
<1>12. \A j \in Visits(q) : Cleared(q, rows, j)
  BY <1>1, <1>2, <1>8 DEF Issues, Cleared
<1>13. AtRows(q, rows, bal)
  <2>1. q.locked[LineOf(q)].onHand = bal[LineOf(q)].onHand
    BY <1>5, <1>7, <1>8
  <2>2. DOMAIN q.found = A /\ q.wrote = r.wrote /\ q.order = r.order
    BY <1>1, <1>6
  <2> QED
    BY <1>8, <1>9, <2>1, <2>2 DEF AtRows
<1>14. Issues(q, rows, bal)
  BY <1>1, <1>2, <1>10, <1>11, <1>12, <1>13 DEF Issues
<1> QED
  BY <1>1, <1>14 DEF Work

\* IssueLine, when it does not throw.
LEMMA IssueWork ==
    ASSUME NEW rows, NEW bal, NEW t, NEW r, NEW q, q = Issuing(r, bal),
           Stands(rows, bal), Sound(t, r, rows), Work(r, rows, bal), r.pc = "rows"
    PROVE  Work(q, rows, bal)
<1> DEFINE i == LineOf(r)
           b == BalanceOf(r, bal)
           own == DOMAIN r.found
           c == Less(b, r.want[i], Held(r))
<1>1. /\ q.pc = "lines" /\ q.op = r.op /\ q.order = r.order /\ q.want = r.want /\ q.found = r.found
      /\ q.next = r.next + 1 /\ q.locked = Only(i, c) ++ r.locked
      /\ q.wrote = Zeros(own) ++ r.wrote
  BY DEF Sound, Shaped, IsTx, Issuing
<1>2. r.op = "issue" /\ Issues(r, rows, bal)
  BY DEF Work, UnderWay
<1>3. i \in Item /\ i \notin Visits(r) /\ i \in DOMAIN r.locked /\ \A x \in own : x.item = i
  BY NotVisited DEF UnderWay, Sound, Orderly
<1>4. b = r.locked[i]
  <2>1. IsPart(r.locked, Item, Bal) /\ bal \in [Item -> Bal]
    BY ShapedParts DEF Sound, Stands
  <2>2. (r.locked ++ bal)[i] = r.locked[i]
    BY <1>3, <2>1, BalanceSeen
  <2> QED
    BY <2>2 DEF BalanceOf
<1>5. r.locked[i].onHand = bal[i].onHand
      /\ \A x \in LineRows(r.order, i) : x \notin own => (r.wrote ++ rows)[x] = 0
  BY <1>2 DEF Issues, AtRows
<1>6. c.onHand = bal[i].onHand - r.want[i]
  BY <1>4, <1>5 DEF Less
<1>7. Visits(q) = Visits(r) \cup {i}
  <2>1. r.next \in Nat \ {0}
    BY DEF Sound, Shaped
  <2>2. 1 .. q.next - 1 = (1 .. r.next - 1) \cup {r.next}
    BY <1>1, <2>1
  <2> QED
    BY <1>1, <2>2 DEF Visits, LineOf
<1>8. /\ DOMAIN q.locked = {i} \cup DOMAIN r.locked /\ q.locked[i] = c
      /\ \A j \in DOMAIN r.locked : j # i => q.locked[j] = r.locked[j]
  <2>1. q.locked = Only(i, c) ++ r.locked
    BY <1>1
  <2> QED
    BY <2>1 DEF ++, Only
<1>9. DOMAIN q.wrote = own \cup DOMAIN r.wrote
  BY <1>1 DEF ++, Zeros
<1>10. /\ \A x \in own : (q.wrote ++ rows)[x] = 0
       /\ \A x \in Row \ own : (q.wrote ++ rows)[x] = (r.wrote ++ rows)[x]
  <2> DEFINE w == r.wrote
             v == q.wrote
  <2>1. IsPart(w, Row, Nat) /\ own \subseteq Row /\ v = Zeros(own) ++ w /\ rows \in [Row -> Nat]
    BY <1>1, ShapedParts DEF Sound, Stands, IsPart
  <2> HIDE DEF w, v, own
  <2>2. \A x \in own : (v ++ rows)[x] = 0
    BY <2>1, RowsOff
  <2>3. \A x \in Row \ own : (v ++ rows)[x] = (w ++ rows)[x]
    BY <2>1, RowsOff
  <2> QED
    BY <2>2, <2>3 DEF v, w
<1> HIDE DEF i, b, c, own
<1>11. KeepsToLines(q)
  BY <1>1, <1>2, <1>3, <1>7, <1>8, <1>9 DEF Issues, KeepsToLines, i
<1>12. TakesStock(q, bal)
  BY <1>1, <1>2, <1>3, <1>6, <1>7, <1>8 DEF Issues, TakesStock
<1>13. ASSUME NEW j \in Visits(q), NEW x \in LineRows(q.order, j) PROVE (q.wrote ++ rows)[x] = 0
  <2>1. x \in Row /\ x.item = j /\ x \in LineRows(r.order, j)
    BY <1>1 DEF LineRows
  <2>2. CASE x \in own
    BY <2>2, <1>10
  <2>3. CASE x \notin own
    <3>1. (r.wrote ++ rows)[x] = 0
      BY <1>2, <1>5, <1>7, <2>1, <2>3 DEF Issues, Cleared
    <3> QED
      BY <1>10, <2>1, <2>3, <3>1
  <2> QED
    BY <2>2, <2>3
<1>14. Issues(q, rows, bal)
  BY <1>1, <1>2, <1>11, <1>12, <1>13 DEF Issues, AtRows, Cleared
<1> QED
  BY <1>1, <1>2, <1>14 DEF Work

\* RolledBack and Commit.
LEMMA EndedWork ==
    ASSUME NEW rows, NEW bal, NEW how \in {"committed", "aborted"}
    PROVE  Work(Ended(how), rows, bal)
<1>1. Ended(how).pc = how
  BY DEF Ended, Idle
<1> QED
  BY <1>1 DEF Work, UnderWay

\* What is committed for items that q has not locked does not change its work.
LEMMA WorkStands ==
    ASSUME NEW rows, NEW bal, NEW newRows, NEW newBal, NEW t, NEW q,
           rows \in [Row -> Nat], newRows \in [Row -> Nat],
           Sound(t, q, rows), Work(q, rows, bal),
           \A i \in DOMAIN q.locked : newBal[i] = bal[i],
           \A x \in Row : x.item \in DOMAIN q.locked => newRows[x] = rows[x]
    PROVE  Work(q, newRows, newBal)
<1>1. LeavesStock(q, bal) => LeavesStock(q, newBal)
  BY DEF LeavesStock
<1>2. ASSUME q.op = "issue", UnderWay(q) PROVE Issues(q, newRows, newBal)
  <2>1. Issues(q, rows, bal)
    BY <1>2 DEF Work
  <2>2. TakesStock(q, newBal)
    BY <2>1 DEF Issues, TakesStock
  <2>3. \A x \in Row : x.item \in DOMAIN q.locked => (q.wrote ++ newRows)[x] = (q.wrote ++ rows)[x]
    <3>1. IsPart(q.wrote, Row, Nat)
      BY ShapedParts DEF Sound
    <3> QED
      BY <3>1, SeenType
  <2>4. ASSUME NEW i \in Visits(q) PROVE Cleared(q, newRows, i)
    BY <2>1, <2>3 DEF Issues, TakesStock, Cleared, LineRows
  <2>5. AtRows(q, newRows, newBal)
    <3> SUFFICES ASSUME q.pc = "rows"
                 PROVE  /\ q.locked[LineOf(q)].onHand = newBal[LineOf(q)].onHand
                        /\ \A x \in LineRows(q.order, LineOf(q)) :
                              x \notin DOMAIN q.found => (q.wrote ++ newRows)[x] = 0
      BY DEF AtRows
    <3>1. LineOf(q) \in DOMAIN q.locked
      BY DEF Sound, Orderly
    <3> QED
      BY <2>1, <2>3, <3>1 DEF Issues, AtRows, LineRows
  <2> QED
    BY <2>1, <2>2, <2>4, <2>5 DEF Issues
<1> QED
  BY <1>1, <1>2 DEF Work

\* The actions, one by one.
AllWork == \A u \in Tx : Work(tx[u], row, balance)

LEMMA PrivateWork ==
    ASSUME NEW t, NEW q, WInv, t \in Tx, Becomes(t, q), Work(q, row, balance)
    PROVE  AllWork'
<1>1. tx = [u \in Tx |-> tx[u]] /\ AllWork
  BY InvParts DEF WInv, AllWork
<1>2. tx' = [u \in Tx |-> IF u = t THEN q ELSE tx[u]] /\ row' = row /\ balance' = balance
  BY <1>1 DEF Becomes
<1>3. \A u \in Tx : tx'[u] = IF u = t THEN q ELSE tx[u]
  BY <1>2
<1> QED
  BY <1>1, <1>2, <1>3 DEF AllWork

LEMMA WorkParts ==
    ASSUME WInv, NEW t \in Tx
    PROVE  /\ Stands(row, balance) /\ Sound(t, tx[t], row) /\ Work(tx[t], row, balance)
           /\ tx = [u \in Tx |-> tx[u]]
BY InvParts DEF WInv

LEMMA BeginWorks ==
    ASSUME WInv, NEW t \in Tx, NEW o \in Order, Begin(t, o)
    PROVE  AllWork'
<1>1. PICK op \in Ops, want \in [Item -> 1 .. MaxQty] :
         tx' = [tx EXCEPT ![t].pc = IF op = "issue" THEN "lines" ELSE "find",
                          ![t].op = op, ![t].order = o, ![t].want = want]
  BY DEF Begin
<1> DEFINE r == tx[t]
           q == Begun(r, op, o, want)
<1>2. Becomes(t, q)
  BY <1>1, WorkParts DEF Begun, Begin, Becomes
<1>3. r.pc = "idle" /\ Sound(t, r, row) /\ Work(r, row, balance)
  BY WorkParts DEF Begin
<1> HIDE DEF r
<1>4. Work(q, row, balance)
  BY <1>3, BeginWork
<1> QED
  BY <1>2, <1>4, PrivateWork

LEMMA FindWorks ==
    ASSUME WInv, NEW t \in Tx, Find(t)
    PROVE  AllWork'
<1> DEFINE r == tx[t]
           q == Finding(r, Active(t), row)
<1>1. Becomes(t, q)
  BY WorkParts DEF Find, Seen, Finding, Becomes
<1>2. r.pc = "find" /\ Sound(t, r, row) /\ Work(r, row, balance)
  BY WorkParts DEF Find
<1>3. q.pc = "release" /\ q.op = r.op /\ q.locked = r.locked
  BY <1>2 DEF Sound, Shaped, IsTx, Finding
<1> HIDE DEF r, q
<1>4. Work(q, row, balance)
  BY <1>2, <1>3, ReleaseWork
<1> QED
  BY <1>1, <1>4, PrivateWork

LEMMA ReleaseRowWorks ==
    ASSUME WInv, NEW t \in Tx, ReleaseRow(t)
    PROVE  AllWork'
<1>1. PICK x \in DOMAIN tx[t].found \ DOMAIN tx[t].wrote :
         tx' = [tx EXCEPT ![t].wrote = Only(x, 0) ++ @]
  BY DEF ReleaseRow
<1> DEFINE r == tx[t]
           q == Releasing(r, x)
<1>2. Becomes(t, q)
  BY <1>1 DEF ReleaseRow, Releasing, Becomes
<1>3. r.pc = "release" /\ Sound(t, r, row) /\ Work(r, row, balance)
  BY WorkParts DEF ReleaseRow
<1>4. q.pc = "release" /\ q.op = r.op /\ q.locked = r.locked
  BY <1>3 DEF Sound, Shaped, IsTx, Releasing
<1> HIDE DEF r, q
<1>5. Work(q, row, balance)
  BY <1>3, <1>4, ReleaseWork
<1> QED
  BY <1>2, <1>5, PrivateWork

LEMMA DoneWorks ==
    ASSUME WInv, NEW t \in Tx, ReleaseDone(t)
    PROVE  AllWork'
<1> DEFINE r == tx[t]
           q == Released(r)
<1>1. Becomes(t, q)
  BY DEF ReleaseDone, Released, Becomes
<1>2. r.pc = "release" /\ Sound(t, r, row) /\ Work(r, row, balance)
  BY WorkParts DEF ReleaseDone
<1>3. q.pc = "lines" /\ q.op = r.op /\ q.locked = r.locked
  BY <1>2 DEF Sound, Shaped, IsTx, Released
<1> HIDE DEF r, q
<1>4. Work(q, row, balance)
  BY <1>2, <1>3, ReleaseWork
<1> QED
  BY <1>1, <1>4, PrivateWork

LEMMA RolledBackWorks ==
    ASSUME WInv, NEW t \in Tx, RolledBack(t)
    PROVE  AllWork'
<1>1. Becomes(t, Ended("aborted"))
  BY DEF RolledBack, Becomes
<1>2. Work(Ended("aborted"), row, balance)
  BY EndedWork
<1> QED
  BY <1>1, <1>2, PrivateWork

LEMMA RelieveWorks ==
    ASSUME WInv, NEW t \in Tx, Relieve(t)
    PROVE  AllWork'
<1>1. PICK i \in {x.item : x \in DOMAIN tx[t].found} \ DOMAIN tx[t].locked :
         IF balance[i].reserved - Relieved(t, i) >= 0
         THEN /\ tx' = [tx EXCEPT ![t].locked =
                    Only(i, [balance[i] EXCEPT !.reserved = balance[i].reserved - Relieved(t, i)]) ++ @]
              /\ UNCHANGED <<row, balance, collided>>
         ELSE RolledBack(t)
  BY DEF Relieve
<1>2. CASE balance[i].reserved - Relieved(t, i) >= 0
  <2> DEFINE r == tx[t]
             b == [balance[i] EXCEPT !.reserved = balance[i].reserved - Relieved(t, i)]
             q == Relieving(r, i, b)
  <2>1. Becomes(t, q)
    BY <1>1, <1>2 DEF Relieving, Becomes
  <2>2. /\ r.pc = "release" /\ Sound(t, r, row) /\ Work(r, row, balance)
        /\ balance \in [Item -> Bal]
    BY WorkParts DEF Relieve, Stands
  <2>3. i \in Item
    <3>1. \E x \in DOMAIN r.found : x.item = i
      BY <1>1
    <3>2. DOMAIN r.found \subseteq Row
      BY <2>2, ShapedParts DEF Sound, IsPart
    <3> QED
      BY <3>1, <3>2 DEF Row
  <2>4. b.onHand = balance[i].onHand
    BY <2>2, <2>3 DEF Bal
  <2> HIDE DEF b
  <2>5. q.pc = "release" /\ q.op = r.op /\ q.locked = Only(i, b) ++ r.locked
    BY <2>2 DEF Sound, Shaped, IsTx, Relieving
  <2> HIDE DEF r, q
  <2>6. Work(q, row, balance)
    BY <2>2, <2>4, <2>5, RelieveWork
  <2> QED
    BY <2>1, <2>6, PrivateWork
<1>3. CASE ~(balance[i].reserved - Relieved(t, i) >= 0)
  BY <1>1, <1>3, RolledBackWorks
<1> QED
  BY <1>2, <1>3

LEMMA ReserveWorks ==
    ASSUME WInv, NEW t \in Tx, ReserveLine(t)
    PROVE  AllWork'
<1> DEFINE r == tx[t]
           i == LineOf(r)
           q == Reserving(t, r, row, balance)
<1>1. /\ Visited(t)[tx[t].next] = i /\ SeenBalance(t, i) = BalanceOf(r, balance)
      /\ Grant(t, i) = Granted(r, row, balance)
  BY DEF Visited, LineOf, SeenBalance, BalanceOf, Grant, Granted, Seen
<1>2. /\ r.pc = "lines" /\ r.op = "reserve" /\ r.next <= Len(Lines[r.order])
      /\ UNCHANGED <<row, balance, collided>>
  BY DEF ReserveLine, Visited
<1>3. tx' = [tx EXCEPT
         ![t].next = @ + 1,
         ![t].locked = Only(i, Raised(BalanceOf(r, balance), Granted(r, row, balance))) ++ @,
         ![t].wrote = Created(@, NewRow(t, r), Granted(r, row, balance))]
  BY <1>1 DEF ReserveLine, Raised, Created, NewRow
<1>4. Becomes(t, q)
  BY <1>2, <1>3, WorkParts DEF Reserving, Becomes
<1>5. Stands(row, balance) /\ Sound(t, r, row) /\ Work(r, row, balance)
  BY WorkParts
<1> HIDE DEF r
<1>6. Work(q, row, balance)
  BY <1>2, <1>5, ReserveWork
<1> HIDE DEF q
<1> QED
  BY <1>4, <1>6, PrivateWork

LEMMA LockWorks ==
    ASSUME WInv, NEW t \in Tx, LockLine(t)
    PROVE  AllWork'
<1> DEFINE r == tx[t]
           i == LineOf(r)
           A == {y \in Active(t) : y.item = i}
           q == LockingLine(r, A, row, balance)
<1>1. Visited(t)[tx[t].next] = i /\ SeenBalance(t, i) = BalanceOf(r, balance)
  BY DEF Visited, LineOf, SeenBalance, BalanceOf
<1>2. /\ r.pc = "lines" /\ r.op = "issue" /\ r.next <= Len(Lines[r.order])
      /\ UNCHANGED <<row, balance, collided>>
  BY DEF LockLine, Visited
<1>3. tx' = [tx EXCEPT ![t].pc = "rows", ![t].locked = Only(i, BalanceOf(r, balance)) ++ @,
                       ![t].found = [x \in A |-> (r.wrote ++ row)[x]]]
  BY <1>1 DEF LockLine, Locking, Seen
<1>4. A = {x \in LineRows(r.order, LineOf(r)) : (r.wrote ++ row)[x] > 0}
  BY DEF Active, LineRows, Seen
<1> HIDE DEF A
<1>5. Becomes(t, q)
  BY <1>2, <1>3, WorkParts DEF LockingLine, Becomes
<1>6. Stands(row, balance) /\ Sound(t, r, row) /\ Work(r, row, balance)
  BY WorkParts
<1> HIDE DEF r
<1>7. Work(q, row, balance)
  BY <1>2, <1>4, <1>6, LockWork
<1> HIDE DEF q
<1> QED
  BY <1>5, <1>7, PrivateWork

LEMMA IssueWorks ==
    ASSUME WInv, NEW t \in Tx, IssueLine(t)
    PROVE  AllWork'
<1> DEFINE r == tx[t]
           i == LineOf(r)
           q == Issuing(r, balance)
<1>1. /\ Visited(t)[tx[t].next] = i /\ SeenBalance(t, i) = BalanceOf(r, balance)
      /\ TotalOn(tx[t].found, DOMAIN tx[t].found) = Held(r) /\ r.pc = "rows"
  BY DEF Visited, LineOf, SeenBalance, BalanceOf, IssueLine, Held
<1>2. \/ RolledBack(t)
      \/ /\ tx' = [tx EXCEPT ![t].pc = "lines", ![t].next = @ + 1,
                             ![t].locked = Only(i, Less(BalanceOf(r, balance), r.want[i], Held(r))) ++ @,
                             ![t].wrote = Zeros(DOMAIN r.found) ++ @]
         /\ UNCHANGED <<row, balance, collided>>
  BY <1>1 DEF IssueLine, Less, Zeros
<1>3. CASE RolledBack(t)
  BY <1>3, RolledBackWorks
<1>4. CASE ~RolledBack(t)
  <2>1. Becomes(t, q)
    BY <1>2, <1>4, WorkParts DEF Issuing, Becomes
  <2>2. Stands(row, balance) /\ Sound(t, r, row) /\ Work(r, row, balance)
    BY WorkParts
  <2> HIDE DEF r
  <2>3. Work(q, row, balance)
    BY <1>1, <2>2, IssueWork
  <2> HIDE DEF q
  <2> QED
    BY <2>1, <2>3, PrivateWork
<1> QED
  BY <1>3, <1>4

LEMMA CommitWorks ==
    ASSUME WInv, NEW t \in Tx, Commit(t)
    PROVE  AllWork'
<1> DEFINE r == tx[t]
           rows == r.wrote ++ row
           bal == r.locked ++ balance
<1>1. /\ r.pc = "lines" /\ row' = rows /\ balance' = bal
      /\ tx' = [tx EXCEPT ![t] = Ended("committed")]
  BY DEF Commit, Seen
<1>2. /\ row \in [Row -> Nat] /\ balance \in [Item -> Bal] /\ tx = [u \in Tx |-> tx[u]]
      /\ Sound(t, r, row)
  BY WorkParts DEF Stands
<1>3. /\ tx'[t] = Ended("committed") /\ \A u \in Tx \ {t} : tx'[u] = tx[u]
  <2>1. tx' = [u \in Tx |-> IF u = t THEN Ended("committed") ELSE tx[u]]
    BY <1>1, <1>2
  <2> QED
    BY <2>1
<1>4. ASSUME NEW u \in Tx \ {t} PROVE Work(tx[u], rows, bal)
  <2> DEFINE q == tx[u]
  <2>1. /\ Sound(u, q, row) /\ Work(q, row, balance)
        /\ DOMAIN q.locked \cap DOMAIN r.locked = {}
    BY WorkParts DEF WInv, IInv, LocksApart
  <2> HIDE DEF q, r
  <2>2. IsPart(r.wrote, Row, Nat) /\ IsPart(r.locked, Item, Bal) /\ IsPart(q.locked, Item, Bal)
    BY <1>2, <2>1, ShapedParts DEF Sound
  <2>3. /\ rows \in [Row -> Nat]
        /\ \A x \in Row \ DOMAIN r.wrote : rows[x] = row[x]
    BY <1>2, <2>2, SeenType
  <2>4. ASSUME NEW i \in DOMAIN q.locked PROVE bal[i] = balance[i]
    <3>1. i \in Item /\ i \notin DOMAIN r.locked
      BY <2>1, <2>2 DEF IsPart
    <3> QED
      BY <1>2, <2>2, <3>1, BalanceSeen
  <2>5. \A x \in DOMAIN r.wrote : x.item \in DOMAIN r.locked
    BY <1>1, <1>2 DEF Sound, Orderly
  <2>6. \A x \in Row : x.item \in DOMAIN q.locked => rows[x] = row[x]
    BY <2>1, <2>3, <2>5
  <2> HIDE DEF rows, bal
  <2>7. Work(q, rows, bal)
    BY <1>2, <2>1, <2>3, <2>4, <2>6, WorkStands
  <2> QED
    BY <2>7 DEF q
<1>5. Work(Ended("committed"), rows, bal)
  BY EndedWork
<1>6. \A u \in Tx : Work(tx'[u], rows, bal)
  BY <1>3, <1>4, <1>5
<1> QED
  BY <1>1, <1>6 DEF AllWork

LEMMA NextWork ==
    ASSUME WInv, [Next]_vars
    PROVE  WInv'
<1>1. IInv'
  BY NextInv DEF WInv
<1>2. CASE UNCHANGED vars
  BY <1>2, <1>1 DEF vars, WInv
<1>3. ASSUME NEW t \in Tx, NEW o \in Order, Begin(t, o) PROVE AllWork'
  BY <1>3, BeginWorks
<1>4. ASSUME NEW t \in Tx, Proceed(t) PROVE AllWork'
  BY <1>4, FindWorks, ReleaseRowWorks, RelieveWorks, DoneWorks, ReserveWorks, LockWorks,
     IssueWorks, CommitWorks DEF Proceed
<1>5. ASSUME NEW t \in Tx, Deadlock(t) PROVE AllWork'
  BY <1>5, RolledBackWorks DEF Deadlock
<1> QED
  BY <1>1, <1>2, <1>3, <1>4, <1>5 DEF Next, AllWork, WInv

LEMMA InitWork ==
    ASSUME Init
    PROVE  WInv
<1>1. tx = [t \in Tx |-> Idle] /\ Idle.pc = "idle" /\ Idle.next = 1
  BY DEF Init, Idle
<1> QED
  BY <1>1, InitInv DEF WInv, Work, UnderWay

\* What each line of an order holds, whoever created its rows.
HeldBy(rows) == [l \in Order \X Item |-> TotalOn(rows, LineRows(l[1], l[2]))]
StockOf(bal) == [i \in Item |-> bal[i].onHand]
LinesOn(i) == {l \in Order \X Item : l[2] = i}

LEMMA LineRowsIn ==
    ASSUME NEW o, NEW i
    PROVE  LineRows(o, i) \subseteq Row
BY DEF LineRows

LEMMA HeldByType ==
    ASSUME NEW rows \in [Row -> Nat]
    PROVE  HeldBy(rows) \in [Order \X Item -> Nat]
<1> SUFFICES ASSUME NEW l \in Order \X Item PROVE TotalOn(rows, LineRows(l[1], l[2])) \in Nat
  BY DEF HeldBy
<1> QED
  BY LineRowsIn, RowTotal

\* The lines that list an item hold all that is reserved of it.
LEMMA HeldAddsUp ==
    ASSUME NEW rows \in [Row -> Nat], NEW i \in Item
    PROVE  TotalOn(HeldBy(rows), LinesOn(i)) = TotalOn(rows, RowsOf(i))
<1> DEFINE mine == LinesOn(i)
           all == RowsOf(i)
           held == HeldBy(rows)
           part == [l \in mine |-> LineRows(l[1], l[2])]
<1>1. IsFiniteSet(mine)
  <2>1. IsFiniteSet(Order \X Item)
    BY RaceAssumption, FS_Product
  <2>2. mine \in SUBSET (Order \X Item)
    BY DEF LinesOn
  <2> QED
    BY <2>1, <2>2, FS_Subset
<1>2. \A l \in mine : part[l] \subseteq all
  BY DEF LineRows, RowsOf, LinesOn
<1>3. \A x \in all : \E l \in mine : x \in part[l]
  <2> SUFFICES ASSUME NEW x \in all PROVE \E l \in mine : x \in part[l]
    OBVIOUS
  <2>1. x \in Row /\ x.item = i /\ x.order \in Order
    BY DEF RowsOf, Row
  <2>2. <<x.order, i>> \in mine
    BY <2>1 DEF LinesOn
  <2>3. x \in part[<<x.order, i>>]
    BY <2>1, <2>2 DEF LineRows
  <2> QED
    BY <2>2, <2>3
<1>4. \A l \in mine : IsFiniteSet(part[l])
  BY LineRowsIn, RowTotal
<1>5. \A j, k \in mine : j # k => part[j] \cap part[k] = {}
  <2> SUFFICES ASSUME NEW j \in mine, NEW k \in mine, j # k, NEW x \in part[j], x \in part[k]
               PROVE  FALSE
    OBVIOUS
  <2>1. x.order = j[1] /\ x.order = k[1] /\ j[2] = i /\ k[2] = i /\ j = <<j[1], j[2]>> /\ k = <<k[1], k[2]>>
    BY DEF LineRows, LinesOn
  <2> QED
    BY <2>1
<1>6. \A x \in all : rows[x] \in Nat
  BY DEF RowsOf
<1>7. \A l \in mine : held[l] = TotalOn(rows, part[l])
  BY DEF HeldBy, LinesOn
<1> HIDE DEF mine, all, held, part
<1>8. PartTotals(held, mine, rows, part, all)
  BY <1>1, <1>2, <1>3, <1>4, <1>5, <1>6, <1>7 DEF PartTotals
<1>9. TotalOn(held, mine) = TotalOn(rows, all)
  BY <1>8, TotalParts
<1> QED
  BY <1>9 DEF held, mine, all

\* The promise counts units as the adapters do.
LEMMA PromiseCounts ==
    ASSUME NEW f, NEW S
    PROVE  Promise!TotalOn(f, S) = TotalOn(f, S)
BY DEF Promise!TotalOn, TotalOn, Promise!Units, Units, Promise!Cardinality, Cardinality

LEMMA PromiseLines ==
    ASSUME NEW i
    PROVE  Promise!LinesFor(i) = LinesOn(i)
BY DEF Promise!LinesFor, LinesOn

\* The variables of the promise, as expressions over rows and balances.
LEMMA PromiseCovered ==
    ASSUME IInv'
    PROVE  Promise!Covered'
<1>1. row' \in [Row -> Nat] /\ \A i \in Item : TotalOn(row', RowsOf(i)) <= balance'[i].onHand
  BY DEF IInv, CommittedOK, NeverOverReserved
<1>2. \A i \in Item : TotalOn(HeldBy(row'), LinesOn(i)) <= StockOf(balance')[i]
  BY <1>1, HeldAddsUp DEF StockOf
<1> QED
  BY <1>2, PromiseCounts, PromiseLines DEF Promise!Covered, HeldBy, StockOf, LineRows

\* A commit that leaves the stock alone holds the lines of its order.
LEMMA CommitHolds ==
    ASSUME IInv', NEW o \in Order, row \in [Row -> Nat],
           \A i \in Item : balance'[i].onHand = balance[i].onHand,
           \A x \in Row : x.order # o => row'[x] = row[x]
    PROVE  Promise!Hold({o} \X Item)
<1>1. HeldBy(row') \in [Order \X Item -> Nat]
  BY HeldByType DEF IInv, CommittedOK
<1>2. \A l \in (Order \X Item) \ ({o} \X Item) : HeldBy(row')[l] = HeldBy(row)[l]
  <2> SUFFICES ASSUME NEW l \in (Order \X Item) \ ({o} \X Item)
               PROVE  TotalOn(row', LineRows(l[1], l[2])) = TotalOn(row, LineRows(l[1], l[2]))
    BY DEF HeldBy
  <2>1. l[1] # o
    OBVIOUS
  <2>2. \A x \in LineRows(l[1], l[2]) : row'[x] = row[x]
    BY <2>1 DEF LineRows
  <2> QED
    BY <2>2, TotalSame, Zenon
<1>3. StockOf(balance') = StockOf(balance)
  BY DEF StockOf
<1> QED
  BY <1>1, <1>2, <1>3, PromiseCovered DEF Promise!Hold, HeldBy, StockOf, LineRows

\* A commit that takes want[i] of every item, and ends what the lines of its
\* order hold of the items it takes.
LEMMA CommitIssues ==
    ASSUME IInv, IInv', NEW o \in Order, NEW want \in [Item -> Nat],
           \A i \in Item : balance'[i].onHand = balance[i].onHand - want[i],
           \A x \in Row : row'[x] = IF x.order = o /\ want[x.item] > 0 THEN 0 ELSE row[x]
    PROVE  Promise!Issue({o} \X Item, want)
<1>1. /\ row \in [Row -> Nat] /\ row' \in [Row -> Nat]
      /\ balance \in [Item -> Bal] /\ balance' \in [Item -> Bal]
  BY DEF IInv, CommittedOK
<1>2. \A i \in Item : want[i] <= StockOf(balance)[i]
  <2> SUFFICES ASSUME NEW i \in Item PROVE want[i] <= balance[i].onHand
    BY DEF StockOf
  <2>1. balance[i].onHand \in Nat /\ balance'[i].onHand \in Nat /\ want[i] \in Nat
    BY <1>1 DEF Bal
  <2>2. balance'[i].onHand = balance[i].onHand - want[i]
    OBVIOUS
  <2> QED
    BY <2>1, <2>2
<1>3. StockOf(balance') = [i \in Item |-> StockOf(balance)[i] - want[i]]
  BY DEF StockOf
<1>4. ASSUME NEW l \in Order \X Item
      PROVE  HeldBy(row')[l] = IF l \in {o} \X Item /\ want[l[2]] > 0 THEN 0 ELSE HeldBy(row)[l]
  <2> DEFINE S == LineRows(l[1], l[2])
  <2>1. HeldBy(row')[l] = TotalOn(row', S) /\ HeldBy(row)[l] = TotalOn(row, S)
    BY DEF HeldBy
  <2>2. \A x \in S : x \in Row /\ x.order = l[1] /\ x.item = l[2]
    BY DEF LineRows
  <2>3. l \in {o} \X Item <=> l[1] = o
    OBVIOUS
  <2> HIDE DEF S
  <2>4. CASE l[1] = o /\ want[l[2]] > 0
    <3>1. \A x \in S : row'[x] = 0
      BY <2>2, <2>4
    <3>2. TotalOn(row', S) = 0
      BY <3>1, TotalZero, Zenon
    <3> QED
      BY <2>1, <2>3, <2>4, <3>2
  <2>5. CASE ~(l[1] = o /\ want[l[2]] > 0)
    <3>1. \A x \in S : row'[x] = row[x]
      BY <2>2, <2>5
    <3>2. TotalOn(row', S) = TotalOn(row, S)
      BY <3>1, TotalSame, Zenon
    <3> QED
      BY <2>1, <2>3, <2>5, <3>2
  <2> QED
    BY <2>4, <2>5
<1>5. HeldBy(row') = [l \in Order \X Item |->
                         IF l \in {o} \X Item /\ want[l[2]] > 0 THEN 0 ELSE HeldBy(row)[l]]
  BY <1>4 DEF HeldBy
<1> QED
  BY <1>2, <1>3, <1>5, PromiseCovered DEF Promise!Issue, HeldBy, StockOf, LineRows

LEMMA CommitPromised ==
    ASSUME WInv, IInv', NEW t \in Tx, Commit(t)
    PROVE  Promise!Next
<1> DEFINE r == tx[t]
           o == r.order
<1>1. r.pc = "lines" /\ row' = r.wrote ++ row /\ balance' = r.locked ++ balance
  BY DEF Commit, Seen
<1>2. /\ row \in [Row -> Nat] /\ balance \in [Item -> Bal]
      /\ Sound(t, r, row) /\ Work(r, row, balance) /\ IInv
  BY WorkParts DEF Stands, WInv
<1> HIDE DEF r
<1>3. IsPart(r.wrote, Row, Nat) /\ IsPart(r.locked, Item, Bal)
  BY <1>2, ShapedParts DEF Sound
<1>4. /\ o \in Order /\ r.op \in {"reserve", "release", "issue"}
      /\ \A x \in DOMAIN r.wrote : x.order = o
  BY <1>1, <1>2 DEF Sound, Shaped, Orderly, UnderWay, Work
<1>5. \A x \in Row \ DOMAIN r.wrote : row'[x] = row[x]
  BY <1>1, <1>2, <1>3, SeenType
<1>6. ASSUME NEW i \in Item
      PROVE  /\ balance'[i] \in Bal
             /\ i \in DOMAIN r.locked => balance'[i] = r.locked[i]
             /\ i \notin DOMAIN r.locked => balance'[i] = balance[i]
  BY <1>1, <1>2, <1>3, BalanceSeen
<1>7. {o} \X Item \in {{p} \X Item : p \in Order}
  BY <1>4
<1> HIDE DEF o
<1>8. CASE r.op # "issue"
  <2>1. LeavesStock(r, balance)
    BY <1>1, <1>2, <1>8 DEF Work, UnderWay
  <2>2. \A i \in Item : balance'[i].onHand = balance[i].onHand
    BY <1>6, <2>1 DEF LeavesStock
  <2>3. \A x \in Row : x.order # o => row'[x] = row[x]
    BY <1>4, <1>5
  <2>4. Promise!Hold({o} \X Item)
    BY <1>2, <1>4, <2>2, <2>3, CommitHolds
  <2> QED
    BY <1>7, <2>4 DEF Promise!Next
<1>9. CASE r.op = "issue"
  <2>1. Issues(r, row, balance)
    BY <1>1, <1>2, <1>9 DEF Work, UnderWay
  <2>2. r.want \in [Item -> 1 .. MaxQty] /\ MaxQty \in Nat
    BY <2>1, RaceAssumption DEF Issues
  <2>0. PICK want \in [Item -> 0 .. MaxQty] :
           want = [i \in Item |-> IF i \in Visits(r) THEN r.want[i] ELSE 0]
    <3>1. \A i \in Item : (IF i \in Visits(r) THEN r.want[i] ELSE 0) \in 0 .. MaxQty
      BY <2>2
    <3>2. [i \in Item |-> IF i \in Visits(r) THEN r.want[i] ELSE 0] \in [Item -> 0 .. MaxQty]
      BY <3>1
    <3> QED
      BY <3>2
  <2>3. /\ want \in [Item -> Nat]
        /\ \A i \in Item : want[i] = IF i \in Visits(r) THEN r.want[i] ELSE 0
    BY <2>0, <2>2
  <2>4. ASSUME NEW i \in Item PROVE balance'[i].onHand = balance[i].onHand - want[i]
    <3>1. CASE i \in Visits(r)
      <4>1. i \in DOMAIN r.locked /\ r.locked[i].onHand = balance[i].onHand - r.want[i]
        BY <2>1, <3>1 DEF Issues, TakesStock
      <4> QED
        BY <1>6, <2>3, <3>1, <4>1
    <3>2. CASE i \notin Visits(r)
      <4>1. i \notin DOMAIN r.locked
        BY <1>1, <2>1, <3>2 DEF Issues, KeepsToLines
      <4>2. balance[i].onHand \in Nat
        BY <1>2 DEF Bal
      <4> QED
        BY <1>6, <2>3, <3>2, <4>1, <4>2
    <3> QED
      BY <3>1, <3>2
  <2>5. ASSUME NEW x \in Row
        PROVE  row'[x] = IF x.order = o /\ want[x.item] > 0 THEN 0 ELSE row[x]
    <3>1. x.item \in Item
      BY DEF Row
    <3>2. want[x.item] > 0 <=> x.item \in Visits(r)
      BY <2>2, <2>3, <3>1
    <3>3. CASE x.order = o /\ x.item \in Visits(r)
      <4>1. x \in LineRows(r.order, x.item)
        BY <3>3 DEF LineRows, o
      <4>2. row'[x] = 0
        BY <1>1, <2>1, <3>3, <4>1 DEF Issues, Cleared
      <4> QED
        BY <3>2, <3>3, <4>2
    <3>4. CASE ~(x.order = o /\ x.item \in Visits(r))
      <4>1. x \notin DOMAIN r.wrote
        BY <1>4, <2>1, <3>4 DEF Issues, KeepsToLines
      <4> QED
        BY <1>5, <3>2, <3>4, <4>1
    <3> QED
      BY <3>3, <3>4
  <2>6. Promise!Issue({o} \X Item, want)
    <3>1. o \in Order /\ want \in [Item -> Nat] /\ IInv
      BY <1>2, <1>4, <2>3
    <3> QED
      BY <2>4, <2>5, <3>1, CommitIssues
  <2> QED
    BY <1>7, <2>6 DEF Promise!Next
<1> QED
  BY <1>8, <1>9

(***************************************************************************)
(* To the outside requests are atomic: in every behaviour, a step that     *)
(* changes the stock or the reservations is one commit, and that is a step *)
(* of StockPromise - also when two requests for one order overlap and the  *)
(* reserved quantity of a balance no longer is the sum of its rows         *)
(* (PrismaUnitOfWork, PrismaInventoryReservationAdapter,                   *)
(* PrismaInventoryIssueAdapter).                                           *)
(***************************************************************************)
THEOREM CommitsAlwaysKeepThePromise == Spec => CommitsKeepThePromise
<1>1. Init => WInv
  BY InitWork
<1>2. WInv /\ [Next]_vars => WInv'
  BY NextWork
<1>3. WInv /\ [Next]_vars => [Promise!Next]_<<[i \in Item |-> balance[i].onHand], row>>
  <2> SUFFICES ASSUME WInv, [Next]_vars
               PROVE  [Promise!Next]_<<[i \in Item |-> balance[i].onHand], row>>
    OBVIOUS
  <2>1. IInv'
    BY <1>2 DEF WInv
  <2>2. CASE UNCHANGED <<row, balance>>
    BY <2>2
  <2>3. ASSUME NEW t \in Tx, NEW o \in Order, Begin(t, o) PROVE UNCHANGED <<row, balance>>
    BY <2>3 DEF Begin
  <2>4. ASSUME NEW t \in Tx, RolledBack(t) PROVE UNCHANGED <<row, balance>>
    BY <2>4 DEF RolledBack
  <2>5. ASSUME NEW t \in Tx, Proceed(t), ~Commit(t) PROVE UNCHANGED <<row, balance>>
    BY <2>4, <2>5 DEF Proceed, Find, ReleaseRow, Relieve, ReleaseDone, ReserveLine, LockLine, IssueLine
  <2>6. ASSUME NEW t \in Tx, Commit(t) PROVE Promise!Next
    BY <2>1, <2>6, CommitPromised
  <2> QED
    BY <2>2, <2>3, <2>4, <2>5, <2>6 DEF Next, Deadlock, vars
<1> QED
  BY <1>1, <1>2, <1>3, PTL DEF Spec, CommitsKeepThePromise

=============================================================================
