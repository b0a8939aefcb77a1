----------------------------- MODULE SortedSeqs -----------------------------
(***************************************************************************)
(* The elements of a finite set of numbers as an increasing sequence: the   *)
(* n-th element is the one with n - 1 smaller ones.  SetToSortSeq is the    *)
(* same sequence, but built on an operator that has no definition to        *)
(* reason about.                                                           *)
(***************************************************************************)
EXTENDS Naturals, FiniteSets

Rank(i, S) == Cardinality({j \in S : j < i})

Sorted(S) ==
    [n \in 1 .. Cardinality(S) |-> CHOOSE i \in S : Rank(i, S) = n - 1]

=============================================================================
