----------------------------- MODULE Arrangement -----------------------------
(***************************************************************************)
(* The elements of a set, as a list in some order.  (SetToSortSeq, with the *)
(* order as a function to sets, so that SequenceProofs can say what it gives *)
(* for every set and every order.)                                          *)
(***************************************************************************)
EXTENDS Integers, FiniteSets

\* The elements of S, each after those that are before it.
Arranged(S, before) ==
  [i \in 1..Cardinality(S) |-> CHOOSE x \in S : Cardinality(S \cap before[x]) = i - 1]
=============================================================================
