------------------------------- MODULE Orders -------------------------------
(* Numbers in ascending order, as sorted() and the comprehensions over lists *)
(* in the source put them.                                                  *)
EXTENDS Naturals, FiniteSets

Ascending(S) ==
    CHOOSE q \in [1..Cardinality(S) -> S] : \A i, j \in DOMAIN q : i < j => q[i] < q[j]
=============================================================================
