--------------------------- MODULE MCLockManager ---------------------------
(* Small instances of LockManager for TLC: three transactions that ask for
   anything, or four autocommit statements over two tables, a before b. *)
EXTENDS StatementLocks, TLC

CONSTANTS a, b, t1, t2, t3, t4

MCPlace == a :> 1 @@ b :> 2

\* Only t4 is told from the others, which bounds the transactions that are free.
Symmetry == Permutations({t1, t2, t3})

FreeNext == \E t \in {t1, t2, t3} : Acquire(t) \/ Wake(t) \/ Expire(t) \/ ReleaseAll(t)

MCNext ==
  /\ UNCHANGED discipline
  /\ \/ discipline = "any" /\ FreeNext
     \/ discipline = "statements" /\ StatementNext
MCSpec == DisciplineInit /\ [][MCNext]_<<vars, discipline>>

=============================================================================
