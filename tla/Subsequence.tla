------------------------------ MODULE Subsequence ------------------------------
(***************************************************************************)
(* The elements of a sequence at some of its positions, in their order.    *)
(***************************************************************************)
EXTENDS Integers, Sequences, FiniteSets

\* The a-th position of K: the one with a positions of K up to it.
Nth(K, a) == CHOOSE k \in K : Cardinality({j \in K : j <= k}) = a

Keep(s, K) == [a \in 1 .. Cardinality(K) |-> s[Nth(K, a)]]
=============================================================================
