---------------------------- MODULE AtomicStore ----------------------------
(***************************************************************************)
(* What transactions promise to whoever reads the tables: each open one    *)
(* works on private copies nobody else sees, at most one at a time on each *)
(* table; committing publishes all of its copies in one step, aborting     *)
(* publishes nothing. Sessions implements it with changes made in place,   *)
(* table locks and an undo log.                                            *)
(***************************************************************************)

CONSTANTS Session, Table, Content, Untouched

VARIABLES
  db,       \* the committed content of each table
  private,  \* the copies each open transaction has changed
  status    \* the state of each session's last transaction

storeVars == <<db, private, status>>

NoCopies == [t \in Table |-> Untouched]

StoreInit ==
  /\ db \in [Table -> Content]
  /\ private = [s \in Session |-> NoCopies]
  /\ status \in [Session -> {"committed", "aborted"}]

Open(s) ==
  /\ status[s] # "active"
  /\ status' = [status EXCEPT ![s] = "active"]
  /\ UNCHANGED <<db, private>>

\* Change one copy, or take a change back, possibly down to nothing.
Work(s) ==
  /\ status[s] = "active"
  /\ \E t \in Table, c \in Content \cup {Untouched} :
       /\ \A u \in Session \ {s} : private[u][t] = Untouched
       /\ private' = [private EXCEPT ![s][t] = c]
  /\ UNCHANGED <<db, status>>

Publish(s) ==
  /\ status[s] = "active"
  /\ db' = [t \in Table |-> IF private[s][t] = Untouched THEN db[t] ELSE private[s][t]]
  /\ private' = [private EXCEPT ![s] = NoCopies]
  /\ status' = [status EXCEPT ![s] = "committed"]

Discard(s) ==
  /\ status[s] = "active"
  /\ private' = [private EXCEPT ![s] = NoCopies]
  /\ status' = [status EXCEPT ![s] = "aborted"]
  /\ UNCHANGED db

StoreNext == \E s \in Session : Open(s) \/ Work(s) \/ Publish(s) \/ Discard(s)

StoreSpec == StoreInit /\ [][StoreNext]_storeVars

=============================================================================
