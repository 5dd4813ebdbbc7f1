----------------------------- MODULE Selections -----------------------------
(***************************************************************************)
(* The elements of a sequence at a set of places, in their order: what the *)
(* loops of the code leave that copy some lines, or list entries, and drop *)
(* the others.                                                             *)
(***************************************************************************)
EXTENDS Naturals, Sequences, FiniteSets

\* The i-th smallest element of a finite set of numbers.
Rank(K, k) == Cardinality({j \in K : j <= k})
Nth(K, i) == CHOOSE k \in K : Rank(K, k) = i

Selected(s, K) == [i \in 1..Cardinality(K) |-> s[Nth(K, i)]]
=============================================================================
