----------------------------- MODULE LockTable -----------------------------
(***************************************************************************)
(* What the lock manager promises to a session, with no queue, no threads  *)
(* and no clock: a transaction takes a table in a mode compatible with     *)
(* everybody else's, may be refused at any moment, and once refused can    *)
(* only let go of everything. LockManager implements it; Sessions is       *)
(* written on top of it.                                                   *)
(***************************************************************************)

CONSTANTS Transaction, Resource

Mode == {"shared", "exclusive"}
None == "none"

VARIABLES
  held,     \* the mode in which each transaction has each resource
  refused   \* the transactions that got a LockError and have not ended yet

tableVars == <<held, refused>>

NothingHeld == [r \in Resource |-> [t \in Transaction |-> None]]

TableTypeOK ==
  /\ held \in [Resource -> [Transaction -> Mode \cup {None}]]
  /\ refused \in SUBSET Transaction

TableInit == held = NothingHeld /\ refused = {}

\* The table at the head of lock_manager.py: only shared with shared.
Compatible(t, r, m) ==
  \A u \in Transaction \ {t} :
    held[r][u] = None \/ (m = "shared" /\ held[r][u] = "shared")

Stronger(a, b) == IF "exclusive" \in {a, b} THEN "exclusive" ELSE "shared"

Take(t, r, m) ==
  /\ t \notin refused
  /\ Compatible(t, r, m)
  /\ held' = [held EXCEPT ![r][t] = Stronger(@, m)]
  /\ UNCHANGED refused

Refuse(t) ==
  /\ t \notin refused
  /\ refused' = refused \cup {t}
  /\ UNCHANGED held

LetGo(t) ==
  /\ held' = [r \in Resource |-> [held[r] EXCEPT ![t] = None]]
  /\ refused' = refused \ {t}

TableNext ==
  \E t \in Transaction :
    (\E r \in Resource, m \in Mode : Take(t, r, m)) \/ Refuse(t) \/ LetGo(t)

TableSpec == TableInit /\ [][TableNext]_tableVars

=============================================================================
