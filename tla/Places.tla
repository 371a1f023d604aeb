------------------------------- MODULE Places -------------------------------
(***************************************************************************)
(* Choosing from a sequence by a set of its places, sorting, adding up:    *)
(* what the list comprehensions and sorts of the pure functions do.        *)
(***************************************************************************)
EXTENDS Integers, FiniteSets, Sequences

\* Which one of a set of numbers i is, and the k-th of them.
Rank(places, i) == Cardinality({j \in places : j <= i})
Nth(places, k) == CHOOSE i \in places : Rank(places, i) = k

\* Set to a sequence in order, and the elements of a sequence at some places, in order.
InOrder(places) == [k \in 1..Cardinality(places) |-> Nth(places, k)]
Pick(s, places) == [k \in 1..Cardinality(places) |-> s[Nth(places, k)]]

\* A finite set in the order of a relation.
Sorted(S, before) ==
  [k \in 1..Cardinality(S) |->
     CHOOSE x \in S : Cardinality({y \in S : <<y, x>> \in before}) = k - 1]

\* The sum of numbers[from..to].
Total(numbers, from, to) ==
  LET upTo[n \in 0..Len(numbers)] == IF n < from THEN 0 ELSE upTo[n - 1] + numbers[n]
  IN upTo[to]

\* The first k of a set of places.
FirstOf(places, k) == {i \in places : Rank(places, i) <= k}

=============================================================================
