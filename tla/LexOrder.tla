------------------------------ MODULE LexOrder ------------------------------
(* The order of strings, in Go and in a column with COLLATE "C", and       *)
(* sorting.  A string is a sequence of numbers.                            *)
EXTENDS Integers, Sequences, SequencesExt

LexLess(a, b) ==
  \/ IsStrictPrefix(a, b)
  \/ \E i \in 1 .. Len(a) :
       /\ i <= Len(b)
       /\ a[i] < b[i]
       /\ \A j \in 1 .. i - 1 : a[j] = b[j]

LexOrderOn(S) == {x \in S \X S : LexLess(x[1], x[2])}

\* The elements of a finite set in the order of a relation: each at its rank.
Before(S, R, x) == {y \in S : <<y, x>> \in R}

Sorted(S, R) ==
  [i \in 1 .. Cardinality(S) |-> CHOOSE x \in S : Cardinality(Before(S, R, x)) = i - 1]

=============================================================================
