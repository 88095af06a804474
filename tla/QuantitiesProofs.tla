-------------------------- MODULE QuantitiesProofs --------------------------
(***************************************************************************)
(* The laws of totals that the proofs about the ledger, the payments, the  *)
(* receipts and the prices rest on.                                        *)
(***************************************************************************)
EXTENDS Quantities, Integers, FiniteSetTheorems, TLAPS

\* The units of a finite set of keys are finitely many, so a total is a
\* natural number.
LEMMA UnitsFinite ==
    ASSUME NEW S, IsFiniteSet(S), NEW f, \A k \in S : f[k] \in Nat
    PROVE  IsFiniteSet(Units(f, S))
<1> DEFINE rows == {{k} \X (1 .. f[k]) : k \in S}
<1> DEFINE row == [k \in S |-> {k} \X (1 .. f[k])]
<1>1. row \in Surjection(S, rows)
  BY DEF Surjection
<1>2. IsFiniteSet(rows)
  BY <1>1, FS_Surjection
<1>3. ASSUME NEW r \in rows PROVE IsFiniteSet(r)
  <2>1. PICK k \in S : r = {k} \X (1 .. f[k])
    OBVIOUS
  <2>2. IsFiniteSet(1 .. f[k])
    BY FS_Interval
  <2>3. IsFiniteSet({k})
    BY FS_Singleton
  <2>4. QED
    BY <2>1, <2>2, <2>3, FS_Product
<1>4. QED
  BY <1>2, <1>3, FS_UNION DEF Units

LEMMA TotalNat ==
    ASSUME NEW S, IsFiniteSet(S), NEW f, \A k \in S : f[k] \in Nat
    PROVE  TotalOn(f, S) \in Nat
BY UnitsFinite, FS_CardinalityType DEF TotalOn

\* Membership in the units, spelled out.
LEMMA UnitIn ==
    ASSUME NEW S, NEW f, NEW u
    PROVE  u \in Units(f, S) <=>
             \E k \in S : \E n \in 1 .. f[k] : u = <<k, n>>
BY DEF Units

\* A total over a sum of two quantities is the sum of the totals.
LEMMA TotalPlus ==
    ASSUME NEW S, IsFiniteSet(S), NEW f, NEW g, NEW h,
           \A k \in S : f[k] \in Nat /\ g[k] \in Nat /\ h[k] = f[k] + g[k]
    PROVE  TotalOn(h, S) = TotalOn(f, S) + TotalOn(g, S)
<1> DEFINE shifted == Units(h, S) \ Units(f, S)
<1> DEFINE shift == [u \in Units(g, S) |-> <<u[1], u[2] + f[u[1]]>>]
<1>1. Units(f, S) \subseteq Units(h, S)
  <2> SUFFICES ASSUME NEW k \in S, NEW n \in 1 .. f[k]
               PROVE  <<k, n>> \in Units(h, S)
    BY UnitIn
  <2>1. n \in 1 .. h[k]
    OBVIOUS
  <2> QED
    BY <2>1, UnitIn
<1>2. \A u \in shifted : \E k \in S : \E n \in 1 .. g[k] : u = <<k, n + f[k]>>
  <2> SUFFICES ASSUME NEW u \in shifted
               PROVE  \E k \in S : \E n \in 1 .. g[k] : u = <<k, n + f[k]>>
    OBVIOUS
  <2>1. PICK k \in S : \E m \in 1 .. h[k] : u = <<k, m>>
    BY UnitIn
  <2>1a. PICK m \in 1 .. h[k] : u = <<k, m>>
    BY <2>1
  <2>2. m \notin 1 .. f[k]
    BY <2>1a, UnitIn
  <2>3. m - f[k] \in 1 .. g[k] /\ m = (m - f[k]) + f[k]
    BY <2>2
  <2> QED
    BY <2>1a, <2>3
<1>3. \A k \in S : \A n \in 1 .. g[k] : <<k, n + f[k]>> \in shifted
  <2> SUFFICES ASSUME NEW k \in S, NEW n \in 1 .. g[k]
               PROVE  <<k, n + f[k]>> \in shifted
    OBVIOUS
  <2>1. n + f[k] \in 1 .. h[k] /\ n + f[k] \notin 1 .. f[k]
    OBVIOUS
  <2>2. <<k, n + f[k]>> \in Units(h, S)
    BY <2>1, UnitIn
  <2>3. <<k, n + f[k]>> \notin Units(f, S)
    BY <2>1, UnitIn
  <2> QED
    BY <2>2, <2>3
<1>4. shift \in Bijection(Units(g, S), shifted)
  <2>1. \A u \in Units(g, S) : shift[u] \in shifted
    BY UnitIn, <1>3
  <2>2. ASSUME NEW u \in Units(g, S), NEW v \in Units(g, S),
               shift[u] = shift[v]
        PROVE  u = v
    <3>a. PICK k \in S : \E n \in 1 .. g[k] : u = <<k, n>>
      BY UnitIn
    <3>1. PICK n \in 1 .. g[k] : u = <<k, n>>
      BY <3>a
    <3>b. PICK l \in S : \E m \in 1 .. g[l] : v = <<l, m>>
      BY UnitIn
    <3>2. PICK m \in 1 .. g[l] : v = <<l, m>>
      BY <3>b
    <3>3. shift[u] = <<k, n + f[k]>> /\ shift[v] = <<l, m + f[l]>>
      BY <3>1, <3>2
    <3>4. k = l /\ n + f[k] = m + f[l]
      BY <3>3, <2>2
    <3> QED
      BY <3>1, <3>2, <3>4
  <2>3. \A t \in shifted : \E u \in Units(g, S) : shift[u] = t
    <3> SUFFICES ASSUME NEW t \in shifted
                 PROVE  \E u \in Units(g, S) : shift[u] = t
      OBVIOUS
    <3>a. PICK k \in S : \E n \in 1 .. g[k] : t = <<k, n + f[k]>>
      BY <1>2
    <3>1. PICK n \in 1 .. g[k] : t = <<k, n + f[k]>>
      BY <3>a
    <3>2. <<k, n>> \in Units(g, S)
      BY UnitIn
    <3> QED
      BY <3>1, <3>2
  <2> QED
    BY <2>1, <2>2, <2>3 DEF Bijection, Injection, Surjection, IsInjective
<1>5. /\ IsFiniteSet(Units(f, S))
      /\ IsFiniteSet(Units(g, S))
      /\ IsFiniteSet(Units(h, S))
  BY UnitsFinite
<1>6. IsFiniteSet(shifted) /\ Cardinality(shifted) = Cardinality(Units(g, S))
  BY <1>4, <1>5, FS_Bijection DEF ExistsBijection
<1>7. Units(h, S) = Units(f, S) \cup shifted /\ Units(f, S) \cap shifted = {}
  BY <1>1
<1>8. Cardinality(Units(h, S))
        = Cardinality(Units(f, S)) + Cardinality(shifted) - Cardinality({})
  BY <1>5, <1>6, <1>7, FS_Union
<1> QED
  BY <1>5, <1>6, <1>8, FS_EmptySet, FS_CardinalityType DEF TotalOn

\* A total only depends on the quantities of the keys it ranges over.
LEMMA TotalSame ==
    ASSUME NEW S, NEW f, NEW g, \A k \in S : f[k] = g[k]
    PROVE  TotalOn(f, S) = TotalOn(g, S)
<1>1. Units(f, S) = Units(g, S)
  BY DEF Units
<1> QED
  BY <1>1 DEF TotalOn

\* Nothing adds up to nothing.
LEMMA TotalZero ==
    ASSUME NEW S, NEW f, \A k \in S : f[k] = 0
    PROVE  TotalOn(f, S) = 0
<1>1. Units(f, S) = {}
  BY DEF Units
<1> QED
  BY <1>1, FS_EmptySet DEF TotalOn

\* The total over two disjoint sets of keys is the sum of their totals.
LEMMA TotalSplit ==
    ASSUME NEW S, IsFiniteSet(S), NEW T, IsFiniteSet(T), S \cap T = {},
           NEW f, \A k \in S \cup T : f[k] \in Nat
    PROVE  TotalOn(f, S \cup T) = TotalOn(f, S) + TotalOn(f, T)
<1>1. Units(f, S \cup T) = Units(f, S) \cup Units(f, T)
  BY DEF Units
<1>2. Units(f, S) \cap Units(f, T) = {}
  <2> SUFFICES ASSUME NEW u \in Units(f, S), u \in Units(f, T)
               PROVE  FALSE
    OBVIOUS
  <2>1. PICK k \in S : \E n \in 1 .. f[k] : u = <<k, n>>
    BY UnitIn
  <2>2. PICK l \in T : \E n \in 1 .. f[l] : u = <<l, n>>
    BY UnitIn
  <2>3. k = l
    BY <2>1, <2>2
  <2> QED
    BY <2>3
<1>3. /\ IsFiniteSet(Units(f, S))
      /\ IsFiniteSet(Units(f, T))
  BY UnitsFinite
<1>4. Cardinality(Units(f, S) \cup Units(f, T))
        = Cardinality(Units(f, S)) + Cardinality(Units(f, T))
          - Cardinality(Units(f, S) \cap Units(f, T))
  BY <1>3, FS_Union
<1>5. Cardinality(Units(f, S) \cap Units(f, T)) = 0
  BY <1>2, FS_EmptySet
<1>6. Cardinality(Units(f, S)) \in Nat /\ Cardinality(Units(f, T)) \in Nat
  BY <1>3, FS_CardinalityType
<1>7. Cardinality(Units(f, S \cup T)) = Cardinality(Units(f, S) \cup Units(f, T))
  BY <1>1, Zenon
<1> QED
  BY <1>4, <1>5, <1>6, <1>7 DEF TotalOn

\* The total over one key is its quantity.
LEMMA TotalSingle ==
    ASSUME NEW k, NEW f, f[k] \in Nat
    PROVE  TotalOn(f, {k}) = f[k]
<1> DEFINE shift == [n \in 1 .. f[k] |-> <<k, n>>]
<1>1. shift \in Bijection(1 .. f[k], Units(f, {k}))
  <2>1. \A n \in 1 .. f[k] : shift[n] \in Units(f, {k})
    BY UnitIn
  <2>2. \A t \in Units(f, {k}) : \E n \in 1 .. f[k] : shift[n] = t
    BY UnitIn
  <2> QED
    BY <2>1, <2>2 DEF Bijection, Injection, Surjection, IsInjective
<1>2. IsFiniteSet(1 .. f[k]) /\ Cardinality(1 .. f[k]) = f[k]
  BY FS_Interval
<1> QED
  BY <1>1, <1>2, FS_Bijection DEF ExistsBijection, TotalOn

\* A total grows with the keys it ranges over and with their quantities.
LEMMA TotalMono ==
    ASSUME NEW T, IsFiniteSet(T), NEW S, S \subseteq T, NEW f, NEW g,
           \A k \in T : f[k] \in Nat /\ g[k] \in Nat,
           \A k \in S : f[k] <= g[k]
    PROVE  TotalOn(f, S) <= TotalOn(g, T)
<1>1. Units(f, S) \subseteq Units(g, T)
  <2> SUFFICES ASSUME NEW k \in S, NEW n \in 1 .. f[k]
               PROVE  <<k, n>> \in Units(g, T)
    BY UnitIn
  <2>1. n \in 1 .. g[k]
    OBVIOUS
  <2> QED
    BY <2>1, UnitIn
<1>2. IsFiniteSet(Units(g, T))
  BY UnitsFinite
<1> QED
  BY <1>1, <1>2, FS_Subset DEF TotalOn

\* No single quantity exceeds the total.
LEMMA MemberLeTotal ==
    ASSUME NEW S, IsFiniteSet(S), NEW f, \A k \in S : f[k] \in Nat, NEW j \in S
    PROVE  f[j] <= TotalOn(f, S)
<1>1. TotalOn(f, {j}) <= TotalOn(f, S)
  <2>1. \A k \in {j} : f[k] <= f[k]
    OBVIOUS
  <2> QED
    BY <2>1, TotalMono
<1> QED
  BY <1>1, TotalSingle

\* Changing the quantity of one key changes the total by as much.
LEMMA TotalExcept ==
    ASSUME NEW S, IsFiniteSet(S), NEW j \in S, NEW f, NEW g,
           \A k \in S : f[k] \in Nat /\ g[k] \in Nat,
           \A k \in S : k # j => g[k] = f[k]
    PROVE  TotalOn(g, S) = TotalOn(f, S) - f[j] + g[j]
<1> DEFINE rest == S \ {j}
<1>1. IsFiniteSet(rest) /\ IsFiniteSet({j}) /\ rest \cap {j} = {} /\ S = rest \cup {j}
  BY FS_Subset, FS_Singleton
<1>2. \A k \in rest : g[k] = f[k] /\ f[k] \in Nat /\ g[k] \in Nat
  OBVIOUS
<1>3. TotalOn(f, {j}) = f[j] /\ TotalOn(g, {j}) = g[j]
  BY TotalSingle
<1> HIDE DEF rest
<1>4. TotalOn(f, rest) = TotalOn(g, rest) /\ TotalOn(f, rest) \in Nat
  BY <1>1, <1>2, TotalSame, TotalNat
<1>5. TotalOn(f, rest \cup {j}) = TotalOn(f, rest) + f[j]
  BY <1>1, <1>2, <1>3, TotalSplit
<1>6. TotalOn(g, rest \cup {j}) = TotalOn(g, rest) + g[j]
  BY <1>1, <1>2, <1>3, TotalSplit
<1>7. TotalOn(f, S) = TotalOn(f, rest \cup {j}) /\ TotalOn(g, S) = TotalOn(g, rest \cup {j})
  BY <1>1, Zenon
<1> QED
  BY <1>4, <1>5, <1>6, <1>7

\* Taking g out of f: what is left is the difference of the totals.
LEMMA TotalMinus ==
    ASSUME NEW S, IsFiniteSet(S), NEW f, NEW g, NEW h,
           \A k \in S : f[k] \in Nat /\ g[k] \in Nat /\ h[k] \in Nat
                        /\ h[k] = f[k] - g[k]
    PROVE  TotalOn(h, S) = TotalOn(f, S) - TotalOn(g, S)
<1>1. \A k \in S : f[k] = h[k] + g[k]
  OBVIOUS
<1>2. TotalOn(f, S) = TotalOn(h, S) + TotalOn(g, S)
  BY <1>1, TotalPlus
<1> QED
  BY <1>2, TotalNat

-----------------------------------------------------------------------------
\* A nonempty set of finitely many numbers has a least and a greatest element:
\* the sets of the numbers up to (from) each element are well-founded under
\* strict inclusion.
LEMMA LeastElement ==
    ASSUME NEW S, IsFiniteSet(S), S \subseteq Nat, S # {}
    PROVE  \E k \in S : \A j \in S : k <= j
<1> DEFINE upto(k) == {j \in S : j <= k}
<1> DEFINE prefixes == {upto(k) : k \in S}
<1>1. prefixes \subseteq FiniteSubsetsOf(S) /\ prefixes # {}
  <2>1. FiniteSubsetsOf(S) = SUBSET S
    BY FS_FiniteSubsetsOfFinite
  <2>2. \A k \in S : upto(k) \in SUBSET S
    OBVIOUS
  <2>3. \A q \in prefixes : q \in FiniteSubsetsOf(S)
    BY <2>1, <2>2
  <2>4. PICK k \in S : TRUE
    OBVIOUS
  <2>5. upto(k) \in prefixes
    OBVIOUS
  <2> HIDE DEF prefixes
  <2> QED
    BY <2>3, <2>5
<1>2. PICK p \in prefixes :
        \A q \in prefixes : <<q, p>> \notin StrictSubsetOrdering(S)
  <2> HIDE DEF prefixes
  <2> QED
    BY <1>1, FS_StrictSubsetOrderingWellFounded, WFMin
<1>3. PICK k \in S : p = upto(k)
  OBVIOUS
<1>4. ASSUME NEW j \in S, j < k PROVE FALSE
  <2>0. j \in Nat /\ k \in Nat /\ \A x \in S : x \in Nat
    OBVIOUS
  <2>a. \A x \in upto(j) : x \in S /\ x <= k
    BY <1>4, <2>0
  <2>b. \A x \in upto(j) : x \in upto(k)
    BY <2>a
  <2>c. k \in upto(k) /\ k \notin upto(j)
    BY <1>4, <2>0
  <2>1. upto(j) \subseteq upto(k) /\ upto(j) # upto(k)
    BY <2>b, <2>c
  <2>2. <<upto(j), upto(k)>> \in StrictSubsetOrdering(S)
    BY <2>1 DEF StrictSubsetOrdering
  <2> QED
    BY <1>2, <1>3, <2>2
<1> QED
  BY <1>4

LEMMA GreatestElement ==
    ASSUME NEW S, IsFiniteSet(S), S \subseteq Nat, S # {}
    PROVE  \E k \in S : \A j \in S : j <= k
<1> DEFINE from(k) == {j \in S : k <= j}
<1> DEFINE suffixes == {from(k) : k \in S}
<1>1. suffixes \subseteq FiniteSubsetsOf(S) /\ suffixes # {}
  <2>1. FiniteSubsetsOf(S) = SUBSET S
    BY FS_FiniteSubsetsOfFinite
  <2>2. \A k \in S : from(k) \in SUBSET S
    OBVIOUS
  <2>3. \A q \in suffixes : q \in FiniteSubsetsOf(S)
    BY <2>1, <2>2
  <2>4. PICK k \in S : TRUE
    OBVIOUS
  <2>5. from(k) \in suffixes
    OBVIOUS
  <2> HIDE DEF suffixes
  <2> QED
    BY <2>3, <2>5
<1>2. PICK p \in suffixes :
        \A q \in suffixes : <<q, p>> \notin StrictSubsetOrdering(S)
  <2> HIDE DEF suffixes
  <2> QED
    BY <1>1, FS_StrictSubsetOrderingWellFounded, WFMin
<1>3. PICK k \in S : p = from(k)
  OBVIOUS
<1>4. ASSUME NEW j \in S, k < j PROVE FALSE
  <2>0. j \in Nat /\ k \in Nat /\ \A x \in S : x \in Nat
    OBVIOUS
  <2>a. \A x \in from(j) : x \in S /\ k <= x
    BY <1>4, <2>0
  <2>b. \A x \in from(j) : x \in from(k)
    BY <2>a
  <2>c. k \in from(k) /\ k \notin from(j)
    BY <1>4, <2>0
  <2>1. from(j) \subseteq from(k) /\ from(j) # from(k)
    BY <2>b, <2>c
  <2>2. <<from(j), from(k)>> \in StrictSubsetOrdering(S)
    BY <2>1 DEF StrictSubsetOrdering
  <2> QED
    BY <1>2, <1>3, <2>2
<1> QED
  BY <1>4

-----------------------------------------------------------------------------
\* The totals before k and up to k differ by what k has.
LEMMA PrefixTotals ==
    ASSUME NEW S, IsFiniteSet(S), S \subseteq Nat,
           NEW f, \A k \in S : f[k] \in Nat, NEW k \in S
    PROVE  /\ IsFiniteSet(Older(S, k))
           /\ IsFiniteSet(UpTo(S, k))
           /\ TotalOn(f, Older(S, k)) \in Nat
           /\ TotalOn(f, UpTo(S, k)) = TotalOn(f, Older(S, k)) + f[k]
<1>1. IsFiniteSet(Older(S, k)) /\ IsFiniteSet(UpTo(S, k))
  BY FS_Subset DEF Older, UpTo
<1>2. \A j \in Older(S, k) : f[j] \in Nat
  BY DEF Older
<1>3. TotalOn(f, Older(S, k)) \in Nat
  BY <1>1, <1>2, TotalNat
<1>4. IsFiniteSet({k})
  BY FS_Singleton
<1>5. Older(S, k) \cap {k} = {}
  BY DEF Older
<1>6. \A j \in Older(S, k) \cup {k} : f[j] \in Nat
  BY <1>2
<1>7. TotalOn(f, Older(S, k) \cup {k}) = TotalOn(f, Older(S, k)) + TotalOn(f, {k})
  BY <1>1, <1>4, <1>5, <1>6, TotalSplit
<1>8. TotalOn(f, {k}) = f[k]
  BY TotalSingle
<1>9. UpTo(S, k) = Older(S, k) \cup {k}
  <2>1. \A j \in S : j <= k <=> (j < k \/ j = k)
    OBVIOUS
  <2> QED
    BY <2>1 DEF UpTo, Older
<1>10. TotalOn(f, UpTo(S, k)) = TotalOn(f, Older(S, k) \cup {k})
  BY <1>9, Zenon
<1> QED
  BY <1>1, <1>3, <1>7, <1>8, <1>10

\* A prefix that ends before another one begins has no more than it.
LEMMA PrefixOrder ==
    ASSUME NEW S, IsFiniteSet(S), S \subseteq Nat,
           NEW f, \A k \in S : f[k] \in Nat, NEW j \in S
    PROVE  /\ TotalOn(f, UpTo(S, j)) <= TotalOn(f, S)
           /\ \A k \in S : j < k => TotalOn(f, UpTo(S, j)) <= TotalOn(f, Older(S, k))
           /\ (\A i \in S : i <= j) => TotalOn(f, S) = TotalOn(f, UpTo(S, j))
           /\ \A k \in S : (j < k /\ \A i \in Older(S, k) : i <= j)
                 => TotalOn(f, Older(S, k)) = TotalOn(f, UpTo(S, j))
<1>0. \A i \in S : i \in Nat /\ f[i] <= f[i]
  OBVIOUS
<1>1. UpTo(S, j) \subseteq S
  BY DEF UpTo
<1>2. TotalOn(f, UpTo(S, j)) <= TotalOn(f, S)
  <2>1. \A i \in UpTo(S, j) : f[i] <= f[i]
    BY <1>0, <1>1
  <2> QED
    BY <1>1, <2>1, TotalMono
<1>3. ASSUME NEW k \in S, j < k
      PROVE  TotalOn(f, UpTo(S, j)) <= TotalOn(f, Older(S, k))
  <2>0. \A i \in S : i <= j => i < k
    BY <1>0, <1>3
  <2>1. UpTo(S, j) \subseteq Older(S, k)
    BY <2>0 DEF UpTo, Older
  <2>2. \A i \in Older(S, k) : f[i] \in Nat /\ f[i] <= f[i]
    BY DEF Older
  <2>3. IsFiniteSet(Older(S, k))
    BY PrefixTotals
  <2>4. \A i \in UpTo(S, j) : f[i] <= f[i]
    BY <2>1, <2>2
  <2> QED
    BY <2>1, <2>2, <2>3, <2>4, TotalMono
<1>4. ASSUME \A i \in S : i <= j
      PROVE  TotalOn(f, S) = TotalOn(f, UpTo(S, j))
  <2>1. UpTo(S, j) = S
    BY <1>4 DEF UpTo
  <2> QED
    BY <2>1, Zenon
<1>5. ASSUME NEW k \in S, j < k, \A i \in Older(S, k) : i <= j
      PROVE  TotalOn(f, Older(S, k)) = TotalOn(f, UpTo(S, j))
  <2>a. \A i \in S : i < k => i <= j
    BY <1>5 DEF Older
  <2>b. \A i \in S : i <= j => i < k
    BY <1>0, <1>5
  <2>1. UpTo(S, j) = Older(S, k)
    BY <2>a, <2>b DEF UpTo, Older
  <2> QED
    BY <2>1, Zenon
<1> QED
  BY <1>2, <1>3, <1>4, <1>5

(***************************************************************************)
(* The walk over the batches never takes more of a batch than is free.     *)
(***************************************************************************)
LEMMA WalkType ==
    ASSUME NEW S, IsFiniteSet(S), S \subseteq Nat, NEW want \in Int,
           NEW free, \A k \in S : free[k] \in Nat
    PROVE  \A k \in S : /\ Walk(free, want, S)[k] \in Nat
                        /\ Walk(free, want, S)[k] <= free[k]
<1> SUFFICES ASSUME NEW k \in S
             PROVE  /\ Walk(free, want, S)[k] \in Nat
                    /\ Walk(free, want, S)[k] <= free[k]
  OBVIOUS
<1>1. TotalOn(free, Older(S, k)) \in Nat
  BY PrefixTotals
<1> QED
  BY <1>1 DEF Walk, Least, Monus

(***************************************************************************)
(* The FIFO walk of reserveComposition, issueFromFreeStock and             *)
(* postWriteOff does what it is for: it takes what is wanted, or all there *)
(* is, and touches a batch only after emptying every older one.            *)
(***************************************************************************)
THEOREM WalkTakesOldestFirst ==
    ASSUME NEW S, IsFiniteSet(S), S \subseteq Nat, NEW want \in Nat,
           NEW free, \A k \in S : free[k] \in Nat
    PROVE  /\ TotalOn(Walk(free, want, S), S) = Least(want, TotalOn(free, S))
           /\ \A k, j \in S :
                 (j < k /\ Walk(free, want, S)[k] > 0) => Walk(free, want, S)[j] = free[j]
<1> DEFINE take == Walk(free, want, S)
<1> DEFINE before(k) == TotalOn(free, Older(S, k))
<1> DEFINE upto(k) == TotalOn(free, UpTo(S, k))
<1> DEFINE all == TotalOn(free, S)
<1>0. \A k \in S : k \in Nat
  OBVIOUS
<1>1. \A k \in S : take[k] = Least(free[k], Monus(want, before(k)))
  BY DEF Walk
<1>2. /\ all \in Nat
      /\ \A k \in S : before(k) \in Nat /\ upto(k) = before(k) + free[k] /\ upto(k) <= all
  <2>1. all \in Nat
    BY TotalNat
  <2>2. \A k \in S : before(k) \in Nat /\ upto(k) = before(k) + free[k]
    BY PrefixTotals
  <2>3. \A k \in S : upto(k) <= all
    BY PrefixOrder
  <2> QED
    BY <2>1, <2>2, <2>3
<1>3. \A j, k \in S : j < k => upto(j) <= before(k)
  BY PrefixOrder
<1>4. \A k \in S : take[k] \in Nat
  <2>1. want \in Int
    OBVIOUS
  <2> QED
    BY <2>1, WalkType
<1>5. \A m \in S : (\A i \in S : i <= m) => all = upto(m)
  BY PrefixOrder
<1>6. \A m, k \in S : (m < k /\ \A i \in Older(S, k) : i <= m) => before(k) = upto(m)
  BY PrefixOrder
<1> HIDE DEF take, before, upto, all
\* A batch reached with enough still wanted is emptied; one reached with
\* nothing still wanted is left alone.
<1>7. \A k \in S : upto(k) <= want => take[k] = free[k]
  BY <1>1, <1>2 DEF Least, Monus
<1>8. \A k \in S : want <= before(k) => take[k] = 0
  BY <1>1, <1>2 DEF Least, Monus
<1>9. ASSUME NEW k \in S, NEW j \in S, j < k, take[k] > 0
      PROVE  take[j] = free[j]
  <2>1. before(k) < want
    BY <1>2, <1>8, <1>9
  <2>2. upto(j) <= before(k)
    BY <1>3, <1>9
  <2> QED
    BY <1>2, <1>7, <2>1, <2>2
<1>10. CASE all <= want
  <2>1. \A k \in S : take[k] = free[k]
    BY <1>2, <1>7, <1>10
  <2>2. TotalOn(take, S) = all
    BY <2>1, TotalSame DEF all
  <2> QED
    BY <1>2, <1>9, <1>10, <2>2 DEF Least, take, all
<1>11. CASE want < all
  <2> DEFINE short == {k \in S : want < upto(k)}
  <2>1. short # {}
    <3>1. S # {}
      BY <1>2, <1>11, TotalZero DEF all
    <3>2. PICK m \in S : \A i \in S : i <= m
      BY <3>1, GreatestElement
    <3>3. m \in short
      BY <1>2, <1>5, <1>11, <3>2
    <3> QED
      BY <3>3
  <2>2. IsFiniteSet(short) /\ short \subseteq Nat
    BY FS_Subset
  <2>3. PICK k \in S : want < upto(k) /\ \A j \in short : k <= j
    BY <2>1, <2>2, LeastElement
  <2>4. \A j \in S : j < k => upto(j) <= want
    BY <1>0, <1>2, <2>3
  <2> HIDE DEF short
  <2> DEFINE newer == {j \in S : k < j}
  <2>5. TotalOn(take, Older(S, k)) = before(k)
    <3>1. \A j \in Older(S, k) : take[j] = free[j]
      BY <1>7, <2>4 DEF Older
    <3> QED
      BY <3>1, TotalSame DEF before
  <2>6. TotalOn(take, newer) = 0
    <3>1. ASSUME NEW j \in S, k < j PROVE take[j] = 0
      <4>1. want < before(j)
        BY <1>2, <1>3, <2>3, <3>1
      <4> QED
        BY <1>2, <1>8, <4>1
    <3>2. \A j \in newer : take[j] = 0
      BY <3>1
    <3> QED
      BY <3>2, TotalZero
  <2>7. before(k) <= want
    <3>1. CASE Older(S, k) = {}
      <4>1. before(k) = 0
        BY <3>1, TotalZero DEF before
      <4> QED
        BY <4>1
    <3>2. CASE Older(S, k) # {}
      <4>1. IsFiniteSet(Older(S, k)) /\ Older(S, k) \subseteq Nat
        BY PrefixTotals DEF Older
      <4>2. PICK m \in Older(S, k) : \A j \in Older(S, k) : j <= m
        BY <3>2, <4>1, GreatestElement
      <4>3. m \in S /\ m < k
        BY DEF Older
      <4> QED
        BY <1>2, <1>6, <2>4, <4>2, <4>3
    <3> QED
      BY <3>1, <3>2
  <2>8. take[k] = want - before(k)
    BY <1>1, <1>2, <2>3, <2>7 DEF Least, Monus
  <2>9. TotalOn(take, S) = TotalOn(take, UpTo(S, k)) + TotalOn(take, newer)
    <3>1. IsFiniteSet(UpTo(S, k)) /\ IsFiniteSet(newer)
      BY PrefixTotals, FS_Subset
    <3>a. \A j \in S : j <= k <=> ~(k < j)
      BY <1>0
    <3>2. UpTo(S, k) \cap newer = {}
      BY <3>a DEF UpTo
    <3>3. S = UpTo(S, k) \cup newer
      BY <3>a DEF UpTo
    <3>4. \A j \in UpTo(S, k) \cup newer : take[j] \in Nat
      BY <1>4, <3>3
    <3>5. TotalOn(take, UpTo(S, k) \cup newer)
            = TotalOn(take, UpTo(S, k)) + TotalOn(take, newer)
      BY <3>1, <3>2, <3>4, TotalSplit
    <3>6. TotalOn(take, S) = TotalOn(take, UpTo(S, k) \cup newer)
      BY <3>3, Zenon
    <3> QED
      BY <3>5, <3>6
  <2>10. TotalOn(take, UpTo(S, k)) = TotalOn(take, Older(S, k)) + take[k]
    BY <1>4, PrefixTotals
  <2>11. TotalOn(take, S) = want
    BY <1>2, <2>5, <2>6, <2>8, <2>9, <2>10
  <2> QED
    BY <1>2, <1>9, <1>11, <2>11 DEF Least, take, all
<1> QED
  BY <1>2, <1>10, <1>11


\* g[k] is the total of f over the part[k] of U, and the parts divide U.
PartTotals(g, S, f, part, U) ==
    /\ IsFiniteSet(S)
    /\ \A k \in S : IsFiniteSet(part[k])
    /\ \A k \in S : part[k] \subseteq U
    /\ \A u \in U : \E k \in S : u \in part[k]
    /\ \A j, k \in S : j # k => part[j] \cap part[k] = {}
    /\ \A u \in U : f[u] \in Nat
    /\ \A k \in S : g[k] = TotalOn(f, part[k])

\* Totals of disjoint parts add up to the total of the whole.
LEMMA TotalParts ==
    ASSUME NEW S, NEW part, NEW U, NEW f, NEW g, PartTotals(g, S, f, part, U)
    PROVE  TotalOn(g, S) = TotalOn(f, U)
<1> DEFINE Count(k, h) == h \in Bijection(1 .. g[k], Units(f, part[k]))
           count == [k \in S |-> CHOOSE h : Count(k, h)]
           flat == [t \in Units(g, S) |-> count[t[1]][t[2]]]
<1>0. /\ IsFiniteSet(S)
      /\ \A k \in S : IsFiniteSet(part[k])
      /\ \A k \in S : part[k] \subseteq U
      /\ \A u \in U : \E k \in S : u \in part[k]
      /\ \A j, k \in S : j # k => part[j] \cap part[k] = {}
      /\ \A u \in U : f[u] \in Nat
      /\ \A k \in S : g[k] = TotalOn(f, part[k])
  BY DEF PartTotals
<1>1. \A k \in S : part[k] \subseteq U /\ \A u \in part[k] : f[u] \in Nat
  BY <1>0
<1>2. \A k \in S : count[k] \in Bijection(1 .. g[k], Units(f, part[k]))
  <2> SUFFICES ASSUME NEW k \in S PROVE \E h : Count(k, h)
    OBVIOUS
  <2>1. IsFiniteSet(Units(f, part[k]))
    BY <1>0, <1>1, UnitsFinite
  <2>2. ExistsBijection(1 .. g[k], Units(f, part[k]))
    BY <1>0, <2>1, FS_CardinalityType DEF TotalOn
  <2> QED
    BY <2>2 DEF ExistsBijection
<1> HIDE DEF Count, count
<1>3. \A k \in S : \A n \in 1 .. g[k] : count[k][n] \in Units(f, part[k])
  <2> SUFFICES ASSUME NEW k \in S
               PROVE  \A n \in 1 .. g[k] : count[k][n] \in Units(f, part[k])
    OBVIOUS
  <2>1. count[k] \in [1 .. g[k] -> Units(f, part[k])]
    BY <1>2 DEF Bijection, Injection
  <2> QED
    BY <2>1
<1>4. \A k \in S : \A m, n \in 1 .. g[k] : count[k][m] = count[k][n] => m = n
  <2> SUFFICES ASSUME NEW k \in S
               PROVE  \A m, n \in 1 .. g[k] : count[k][m] = count[k][n] => m = n
    OBVIOUS
  <2>1. count[k] \in Injection(1 .. g[k], Units(f, part[k]))
    BY <1>2 DEF Bijection
  <2> QED
    BY <2>1 DEF Injection, IsInjective
<1>5. \A k \in S : \A t \in Units(f, part[k]) : \E n \in 1 .. g[k] : count[k][n] = t
  BY <1>2 DEF Bijection, Surjection
<1>6. ASSUME NEW j \in S, NEW k \in S, NEW t, t \in Units(f, part[j]), t \in Units(f, part[k])
      PROVE  j = k
  <2>1. t[1] \in part[j] /\ t[1] \in part[k]
    BY <1>6, UnitIn
  <2> QED
    BY <1>0, <2>1
<1>7. \A t \in Units(g, S) : t[1] \in S /\ t[2] \in 1 .. g[t[1]] /\ t = <<t[1], t[2]>>
  BY UnitIn
<1>8. \A k \in S : \A n \in 1 .. g[k] : <<k, n>> \in Units(g, S) /\ flat[<<k, n>>] = count[k][n]
  <2> SUFFICES ASSUME NEW k \in S, NEW n \in 1 .. g[k]
               PROVE  <<k, n>> \in Units(g, S) /\ flat[<<k, n>>] = count[k][n]
    OBVIOUS
  <2>1. <<k, n>> \in Units(g, S)
    BY UnitIn
  <2> QED
    BY <2>1
<1>9. \A t \in Units(g, S) : flat[t] = count[t[1]][t[2]]
  OBVIOUS
<1>10. flat = [t \in Units(g, S) |-> flat[t]]
  OBVIOUS
<1> HIDE DEF flat
<1>11. \A t \in Units(g, S) : flat[t] \in Units(f, U)
  <2> SUFFICES ASSUME NEW t \in Units(g, S) PROVE flat[t] \in Units(f, U)
    OBVIOUS
  <2>1. flat[t] \in Units(f, part[t[1]]) /\ part[t[1]] \subseteq U
    BY <1>1, <1>3, <1>7, <1>9
  <2> QED
    BY <2>1, UnitIn
<1>12. \A t, u \in Units(g, S) : flat[t] = flat[u] => t = u
  <2> SUFFICES ASSUME NEW t \in Units(g, S), NEW u \in Units(g, S), flat[t] = flat[u] PROVE t = u
    OBVIOUS
  <2>1. t[1] = u[1]
    BY <1>3, <1>6, <1>7, <1>9
  <2>2. t[2] = u[2]
    BY <1>4, <1>7, <1>9, <2>1
  <2> QED
    BY <1>7, <2>1, <2>2
<1>13. \A v \in Units(f, U) : \E t \in Units(g, S) : flat[t] = v
  <2> SUFFICES ASSUME NEW v \in Units(f, U) PROVE \E t \in Units(g, S) : flat[t] = v
    OBVIOUS
  <2>1. PICK u \in U : \E n \in 1 .. f[u] : v = <<u, n>>
    BY UnitIn
  <2>2. PICK k \in S : u \in part[k]
    BY <1>0
  <2>3. v \in Units(f, part[k])
    BY <2>1, <2>2, UnitIn
  <2>4. PICK m \in 1 .. g[k] : count[k][m] = v
    BY <1>5, <2>3
  <2> QED
    BY <1>8, <2>4
<1>14. flat \in Bijection(Units(g, S), Units(f, U))
  BY <1>10, <1>11, <1>12, <1>13 DEF Bijection, Injection, Surjection, IsInjective
<1>15. IsFiniteSet(Units(g, S))
  <2>1. \A k \in S : g[k] \in Nat
    BY <1>0, <1>1, TotalNat
  <2> QED
    BY <1>0, <2>1, UnitsFinite
<1>16. ExistsBijection(Units(g, S), Units(f, U))
  BY <1>14 DEF ExistsBijection
<1> QED
  BY <1>15, <1>16, FS_Bijection DEF TotalOn

\* Every unit of f, c times.
LEMMA TotalScale ==
    ASSUME NEW S, IsFiniteSet(S), NEW c \in Nat, NEW f, NEW g,
           \A k \in S : f[k] \in Nat /\ g[k] = f[k] * c
    PROVE  TotalOn(g, S) = TotalOn(f, S) * c
<1> DEFINE U == Units(f, S)
           part == [k \in S |-> {k} \X (1 .. f[k])]
           each == [u \in U |-> c]
<1>0. IsFiniteSet(1 .. c) /\ Cardinality(1 .. c) = c
  BY FS_Interval
<1>1. \A k \in S : IsFiniteSet({k} \X (1 .. f[k])) /\ Cardinality({k} \X (1 .. f[k])) = f[k]
  <2> SUFFICES ASSUME NEW k \in S
               PROVE  IsFiniteSet({k} \X (1 .. f[k])) /\ Cardinality({k} \X (1 .. f[k])) = f[k]
    OBVIOUS
  <2>1. f[k] \in Nat
    OBVIOUS
  <2>2. IsFiniteSet({k}) /\ Cardinality({k}) = 1
    BY FS_Singleton
  <2>3. \A n \in Nat : IsFiniteSet(1 .. n) /\ Cardinality(1 .. n) = n
    BY FS_Interval
  <2>. DEFINE A == {k}  B == 1 .. f[k]
  <2>4. IsFiniteSet(A) /\ IsFiniteSet(B) /\ Cardinality(A) = 1 /\ Cardinality(B) = f[k]
    BY <2>1, <2>2, <2>3
  <2>. HIDE DEF A, B
  <2>5. IsFiniteSet(A \X B) /\ Cardinality(A \X B) = Cardinality(A) * Cardinality(B)
    BY <2>4, FS_Product
  <2>6. Cardinality(A \X B) = f[k]
    BY <2>1, <2>4, <2>5
  <2>. QED  BY <2>5, <2>6 DEF A, B
\* A set counted c times.
<1>2. ASSUME NEW V, IsFiniteSet(V), \A u \in V : each[u] = c
      PROVE  TotalOn(each, V) = Cardinality(V) * c
  <2>1. Units(each, V) = V \X (1 .. c)
    <3>1. Units(each, V) = UNION {{k} \X (1 .. c) : k \in V}
      BY <1>2 DEF Units
    <3>2. UNION {{k} \X (1 .. c) : k \in V} = V \X (1 .. c)
      OBVIOUS
    <3>. QED  BY <3>1, <3>2
  <2>2. Cardinality(V \X (1 .. c)) = Cardinality(V) * c
    BY <1>0, <1>2, FS_Product
  <2>. QED  BY <2>1, <2>2 DEF TotalOn
<1>3. IsFiniteSet(U) /\ Cardinality(U) = TotalOn(f, S)
  BY UnitsFinite DEF TotalOn
<1>4. TotalOn(each, U) = TotalOn(f, S) * c
  <2>1. \A u \in U : each[u] = c
    OBVIOUS
  <2>. QED  BY <1>2, <1>3, <2>1
<1>5. U = UNION {part[k] : k \in S}
  BY DEF Units
<1>6. ASSUME NEW k \in S
      PROVE  g[k] = TotalOn(each, part[k])
  <2>1. part[k] = {k} \X (1 .. f[k]) /\ part[k] \subseteq U
    BY <1>5
  <2>2. \A u \in part[k] : each[u] = c
    BY <2>1
  <2>3. TotalOn(each, part[k]) = Cardinality(part[k]) * c
    BY <1>1, <1>2, <2>1, <2>2
  <2>4. g[k] = f[k] * c
    OBVIOUS
  <2>. QED  BY <1>1, <2>1, <2>3, <2>4
<1>7. PartTotals(g, S, each, part, U)
  <2>1. \A k \in S : IsFiniteSet(part[k]) /\ part[k] \subseteq U
    BY <1>1, <1>5
  <2>2. \A u \in U : \E k \in S : u \in part[k]
    BY <1>5
  <2>3. \A j, k \in S : j # k => part[j] \cap part[k] = {}
    OBVIOUS
  <2>4. \A u \in U : each[u] \in Nat
    OBVIOUS
  <2>. HIDE DEF U, part, each
  <2>. QED  BY <1>6, <2>1, <2>2, <2>3, <2>4 DEF PartTotals
<1>. HIDE DEF U, part, each
<1>8. TotalOn(g, S) = TotalOn(each, U)
  BY <1>7, TotalParts
<1>. QED  BY <1>4, <1>8

LEMMA MulMono ==
    ASSUME NEW q \in Nat, NEW x \in Int, NEW y \in Int, x <= y
    PROVE  q * x <= q * y
  OBVIOUS

LEMMA MulCancel ==
    ASSUME NEW q \in Nat, q > 0, NEW x \in Int, NEW y \in Int, q * x <= q * y
    PROVE  x <= y
  OBVIOUS

\* A total of differences is within the total of what each may differ.
LEMMA Rounding ==
    ASSUME NEW b \in Nat, NEW s \in Nat, NEW q \in Nat, NEW p \in Nat, NEW u \in Nat,
           2 * (u * b - p * s) \in -b .. b
    PROVE  /\ (q * u) * (2 * b) <= (q * p) * (2 * s) + q * b
           /\ (q * p) * (2 * s) <= (q * u) * (2 * b) + q * b
<1> DEFINE x == u * b  y == p * s
<1>1. x \in Nat /\ y \in Nat /\ 2 * x <= 2 * y + b /\ 2 * y <= 2 * x + b
  OBVIOUS
<1>2. (q * u) * (2 * b) = q * (2 * x) /\ (q * p) * (2 * s) = q * (2 * y)
  OBVIOUS
<1>. HIDE DEF x, y
<1>3. q * (2 * x) <= q * (2 * y + b) /\ q * (2 * y) <= q * (2 * x + b)
  BY <1>1, MulMono
<1>4. q * (2 * y + b) = q * (2 * y) + q * b /\ q * (2 * x + b) = q * (2 * x) + q * b
  BY <1>1
<1>. QED  BY <1>2, <1>3, <1>4

=============================================================================
