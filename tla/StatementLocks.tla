--------------------------- MODULE StatementLocks ---------------------------
(***************************************************************************)
(* The lock manager under autocommit statements only: what                 *)
(* Session._lock_for asks for, in which order, while other statements do   *)
(* the same.                                                               *)
(***************************************************************************)
EXTENDS LockManager, Naturals

CONSTANT Place   \* where each table's name stands among the sorted names

ASSUME PlaceAssumption ==
  /\ Place \in [Resource -> Nat]
  /\ \A q, r \in Resource : Place[q] = Place[r] => q = r

Holding(t) == {r \in Resource : holders[r][t] # None}

\* Mutant: the tables are locked as the statement names them.
AsksInAnyOrder(t, r, m) ==
  \A q \in Holding(t) : q # r /\ m = "shared" /\ holders[q][t] = "shared"

\* A statement that writes names one table; one that reads locks its tables in
\* the order of their names, all of them shared.
AsksInOrder(t, r, m) ==
  \A q \in Holding(t) : Place[q] < Place[r] /\ m = "shared" /\ holders[q][t] = "shared"

LockFor(t) == \E r \in Resource, m \in Mode : AsksInOrder(t, r, m) /\ AcquireOf(t, r, m)

StatementNext == \E t \in Transaction : LockFor(t) \/ Wake(t) \/ Expire(t) \/ ReleaseAll(t)

StatementSpec == Init /\ [][StatementNext]_vars

\* Statements that lock in the order of the names are never told of a deadlock,
\* although they also wait for requests that hold nothing yet: only
\* BEGIN ... COMMIT blocks can be victims.
AutocommitNeverDeadlocks == \A t \in Transaction : outcome[t] # "deadlock"

-----------------------------------------------------------------------------
(* Either everybody asks as statements do, or everybody asks for anything. *)

VARIABLE discipline   \* of the callers: "any" or "statements"

DisciplineInit == Init /\ discipline \in {"any", "statements"}
DisciplineNext ==
  UNCHANGED discipline /\ IF discipline = "statements" THEN StatementNext ELSE Next
DisciplineSpec == DisciplineInit /\ [][DisciplineNext]_<<vars, discipline>>

\* Session._lock_for asks in the order of the names, and while everybody does nobody is told
\* of a deadlock.
StatementsNeverDeadlock == discipline = "statements" => AutocommitNeverDeadlocks

=============================================================================
