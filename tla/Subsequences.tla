---------------------------- MODULE Subsequences ----------------------------
(***************************************************************************)
(* The elements of a sequence that are in a set, in their order.  This is  *)
(* SelectSeq without recursion, so that it can be reasoned about: what is  *)
(* selected i-th is found by counting positions.                           *)
(***************************************************************************)
EXTENDS Integers, Sequences, FiniteSets

(* How many of the positions I come up to j, and the i-th of them.         *)
Rank(I, j) == Cardinality({k \in I : k <= j})
Nth(I, i) == CHOOSE j \in I : Rank(I, j) = i

At(q, I) == [i \in 1 .. Cardinality(I) |-> q[Nth(I, i)]]

Selected(q, S) == At(q, {i \in 1 .. Len(q) : q[i] \in S})
=============================================================================
