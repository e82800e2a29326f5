-------------------------------- MODULE Lists --------------------------------
(***************************************************************************)
(* List comprehensions of the code that filter and keep the order.         *)
(***************************************************************************)
EXTENDS Naturals, FiniteSets

\* The elements of a list that are in S, in the order of the list.
Keep(s, S) ==
    LET kept     == {i \in DOMAIN s : s[i] \in S}
        Place(j) == 1 + Cardinality({i \in kept : i < j})
    IN [k \in 1..Cardinality(kept) |-> s[CHOOSE j \in kept : Place(j) = k]]
=============================================================================
