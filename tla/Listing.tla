------------------------------ MODULE Listing ------------------------------
(***************************************************************************)
(* What a comprehension and a sort of the code make of a list: some of its *)
(* elements, in an order.  The element number k is the one with k - 1      *)
(* others before it, so that nothing here is recursive.                    *)
(***************************************************************************)
EXTENDS Integers, Sequences, FiniteSets

\* R is a strict total order of S, as a set of pairs.
Place(S, R, x) == Cardinality({y \in S : <<y, x>> \in R})

Arrange(S, R) == [k \in 1 .. Cardinality(S) |-> CHOOSE x \in S : Place(S, R, x) = k - 1]

\* The elements of list at the positions D, in the order R of the positions.
InOrder(list, D, R) ==
    LET at == Arrange(D, R) IN [k \in 1 .. Cardinality(D) |-> list[at[k]]]

Upwards(D) == {d \in D \X D : d[1] < d[2]}

\* [x for x in list if ...], D the positions where the condition holds.
Pick(list, D) == InOrder(list, D, Upwards(D))
=============================================================================
