------------------------------ MODULE Ordering ------------------------------
(* The orders that the structures and the queries share: Python's comparison of
   tuples, its stable sort and the first of the best. *)
EXTENDS Integers, Sequences, FiniteSets, TLC

\* Tuples of numbers of the same length, the first difference deciding.
LexLess(a, b) == \E i \in DOMAIN a : a[i] < b[i] /\ \A j \in 1..i - 1 : a[j] = b[j]

\* The positions of the keys in order; ties keep the order that they had.
SortedPositions(keys) ==
  SortSeq([i \in DOMAIN keys |-> i],
          LAMBDA i, j : LexLess(keys[i], keys[j]) \/ (keys[i] = keys[j] /\ i < j))

SortedBy(seq, Key(_)) ==
  LET at == SortedPositions([i \in DOMAIN seq |-> Key(seq[i])])
  IN  [n \in DOMAIN seq |-> seq[at[n]]]

\* The first of the positions whose key is the least, and the greatest.
FirstLeast(keys) ==
  CHOOSE i \in DOMAIN keys :
    \A j \in DOMAIN keys : ~LexLess(keys[j], keys[i]) /\ (keys[j] = keys[i] => i <= j)

FirstGreatest(keys) ==
  CHOOSE i \in DOMAIN keys :
    \A j \in DOMAIN keys : ~LexLess(keys[i], keys[j]) /\ (keys[j] = keys[i] => i <= j)

=============================================================================
