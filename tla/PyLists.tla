------------------------------ MODULE PyLists ------------------------------
(***************************************************************************)
(* What Python makes of a list when it sorts it, filters it or drops what  *)
(* it holds a second time, by where each element ends up: no recursion, so *)
(* that theorems can be stated about what is built from these.             *)
(***************************************************************************)
EXTENDS Integers, Sequences, FiniteSets

\* sorted(), with a key that tells all of S apart: the k-th has k - 1 before it.
Sorted(S, Precedes(_, _)) ==
    LET rank == [x \in S |-> Cardinality({y \in S : Precedes(y, x)})]
    IN [k \in 1..Cardinality(S) |-> CHOOSE x \in S : rank[x] = k - 1]

\* What q holds at these places, in its order.
Kept(q, places) == LET order == Sorted(places, LAMBDA i, j : i < j)
                   IN [k \in DOMAIN order |-> q[order[k]]]

\* [x for x in q if Test(x)].
Where(q, Test(_)) == Kept(q, {i \in DOMAIN q : Test(q[i])})

\* list(dict.fromkeys(q)): what is there twice stays where it is first.
Distinct(q) == Kept(q, {i \in DOMAIN q : \A k \in 1..(i - 1) : q[k] # q[i]})
=============================================================================
