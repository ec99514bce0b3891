------------------------------ MODULE Ordered ------------------------------
(* A set of places in the order of a list: what a Python comprehension over *)
(* the list leaves of it.  (SelectSeq says the same with an operator for    *)
(* its test, which no proof can see through.)                               *)
EXTENDS Naturals, Sequences, FiniteSets

\* s enumerates the numbers S, in their order.
Enumerates(s, S) ==
  /\ s \in [1..Cardinality(S) -> S]
  /\ {s[j] : j \in DOMAIN s} = S
  /\ \A j, k \in DOMAIN s : j < k => s[j] < s[k]

InOrder(S) == CHOOSE s \in [1..Cardinality(S) -> S] : Enumerates(s, S)

\* The elements of s at the places S.
Those(s, S) == LET at == InOrder(S) IN [j \in DOMAIN at |-> s[at[j]]]

\* The first and the last of the places S; 0 is not a place.
FirstPlace(S) == CHOOSE j \in S : \A k \in S : j <= k
LastPlace(S)  == IF S = {} THEN 0 ELSE CHOOSE j \in S : \A k \in S : k <= j

\* s without what stands before and after all of the places S.
Trimmed(s, S) == IF S = {} THEN <<>> ELSE SubSeq(s, FirstPlace(S), LastPlace(S))
=============================================================================
