------------------------------- MODULE Sorting -------------------------------
(***************************************************************************)
(* ORDER BY: the elements of a finite set in the order of their ranks. It  *)
(* is SetToSortSeq without an operator for an argument and without SortSeq,*)
(* about which nothing can be proved. An element is the k-th when k - 1    *)
(* elements have a lower rank; no two may share a rank.                    *)
(***************************************************************************)
EXTENDS Integers, Sequences, FiniteSets

Below(rank, x) == {y \in DOMAIN rank : rank[y] < rank[x]}
Sorted(rank) ==
  [k \in 1..Cardinality(DOMAIN rank) |->
     CHOOSE x \in DOMAIN rank : Cardinality(Below(rank, x)) = k - 1]
==============================================================================
