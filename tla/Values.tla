--------------------------------- MODULE Values ---------------------------------
(* What several modules need: the value that stands for no value, and a few        *)
(* operators on sequences and numbers.                                             *)
EXTENDS Integers, Sequences, FiniteSets

CONSTANT None

Elements(s) == {s[i] : i \in DOMAIN s}
Least(a, b) == IF a < b THEN a ELSE b
First(n, s) == SubSeq(s, 1, Least(n, Len(s)))

\* The members of D by an order, a set of pairs of which the first comes before the second.
Sorted(D, order) ==
  LET rank == [i \in D |-> 1 + Cardinality({j \in D : <<j, i>> \in order})]
  IN [k \in 1..Cardinality(D) |-> CHOOSE i \in D : rank[i] = k]

\* The elements of s at some places, which are put into an order.
Arranged(s, places, order) ==
  LET sorted == Sorted(places, order) IN [k \in DOMAIN sorted |-> s[sorted[k]]]

\* The elements of s that are in S, in their order.
Only(s, S) ==
  LET places == {n \in DOMAIN s : s[n] \in S} IN
  Arranged(s, places, {p \in places \X places : p[1] < p[2]})

\* The highest of some numbers, or 0.
Largest(S) == CHOOSE m \in S \cup {0} : \A n \in S : n <= m

\* The function f with the value v at k, which may be new to it.
With(f, k, v) == [j \in DOMAIN f \cup {k} |-> IF j = k THEN v ELSE f[j]]
==================================================================================
