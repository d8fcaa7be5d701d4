------------------------------ MODULE Ordering ------------------------------
(***************************************************************************)
(* The members of a finite set in the order of a relation: what ORDER BY   *)
(* of the database and sorted of Python return when no two members tie.    *)
(***************************************************************************)
EXTENDS Integers, FiniteSets

\* R orders S, and strictly.
Linear(S, R) ==
    /\ \A x \in S : <<x, x>> \notin R
    /\ \A x, y, z \in S : <<x, y>> \in R /\ <<y, z>> \in R => <<x, z>> \in R
    /\ \A x, y \in S : x = y \/ <<x, y>> \in R \/ <<y, x>> \in R

\* Every member has a place, and what comes before another is related to it.
IsInOrder(s, S, R) ==
    /\ s \in [1..Cardinality(S) -> S]
    /\ \A x \in S : \E i \in DOMAIN s : s[i] = x
    /\ \A i, j \in DOMAIN s : i < j => <<s[i], s[j]>> \in R

InOrder(S, R) == CHOOSE s \in [1..Cardinality(S) -> S] : IsInOrder(s, S, R)
=============================================================================
