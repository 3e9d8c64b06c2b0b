------------------------------ MODULE Ordering ------------------------------
(***************************************************************************)
(* Sorting and choosing by place: what the pages do to lists with sort,    *)
(* filter and find.                                                        *)
(***************************************************************************)
EXTENDS Naturals, FiniteSets, Sequences

\* The members of S in the order R, a set of pairs: the k-th has k - 1 before it.
Ordered(S, R) ==
    [k \in 1 .. Cardinality(S) |-> CHOOSE i \in S : Cardinality({j \in S : <<j, i>> \in R}) = k - 1]

\* The first of some places.
First(places) == CHOOSE i \in places : \A j \in places : i <= j

\* The places of a sequence in their order.
Earlier(places) == {p \in places \X places : p[1] < p[2]}

\* What a sequence holds at these places, in order.
At(s, places) == [k \in DOMAIN Ordered(places, Earlier(places)) |-> s[Ordered(places, Earlier(places))[k]]]
=============================================================================
