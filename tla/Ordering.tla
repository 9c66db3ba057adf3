------------------------------ MODULE Ordering ------------------------------
(***************************************************************************)
(* Finite sets of integers written out in ascending order: what a loop     *)
(* over a slice appends to another, or what slices.Sorted returns.         *)
(***************************************************************************)
EXTENDS Integers, FiniteSets

Below(S, x) == Cardinality({y \in S : y < x})

InOrder(S) == [n \in 1..Cardinality(S) |-> CHOOSE x \in S : Below(S, x) = n - 1]

\* What a loop over s appends to another slice when it keeps the places in K.
AtPlaces(s, K) == [m \in 1..Cardinality(K) |-> s[InOrder(K)[m]]]

Elements(s) == {s[i] : i \in DOMAIN s}
=============================================================================
