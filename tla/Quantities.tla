----------------------------- MODULE Quantities -----------------------------
(***************************************************************************)
(* Stock quantities and their totals.                                      *)
(*                                                                         *)
(* The inventory code adds quantities up in three places: SELECT SUM over  *)
(* the ACTIVE reservations of a batch, the running total of a FIFO walk    *)
(* over the batches of an item, and the deltas it applies to a balance.    *)
(* A total is defined here by counting: every k \in S contributes one pair *)
(* <<k, n>> per unit of f[k].  The definition needs no recursion, so the   *)
(* laws of totals are theorems about cardinalities (QuantitiesProofs).     *)
(*                                                                         *)
(* The code's quantities are decimals with three digits.  The operations   *)
(* modelled only add, subtract and compare them, so natural numbers (of    *)
(* thousandths) lose nothing.                                              *)
(***************************************************************************)
EXTENDS Naturals, FiniteSets

\* The units that f assigns to the keys of S, each a pair of its own.
Units(f, S) == UNION {{k} \X (1 .. f[k]) : k \in S}

\* The sum of f[k] for k \in S.
TotalOn(f, S) == Cardinality(Units(f, S))

\* The smaller of two quantities.
Least(m, n) == IF m <= n THEN m ELSE n

\* m - n, or nothing when n exceeds m.
Monus(m, n) == IF n <= m THEN m - n ELSE 0

\* The keys of S before k, and those up to and including k.
Older(S, k) == {j \in S : j < k}
UpTo(S, k) == {j \in S : j <= k}

(***************************************************************************)
(* What the adapters' walk over the batches of S, oldest (smallest) first, *)
(* takes out of batch k: it still wants what the older batches could not   *)
(* give, and takes as much of that as k has free.                          *)
(***************************************************************************)
Walk(free, want, S) ==
    [k \in S |-> Least(free[k], Monus(want, TotalOn(free, Older(S, k))))]
=============================================================================
