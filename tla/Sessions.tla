------------------------------ MODULE Sessions ------------------------------
(***************************************************************************)
(* The sessions of txn/session.py over the undo log of txn/transaction.py: *)
(* what they lock, in which order, what they undo when a statement, an     *)
(* undo or a flush fails, and when they let go. Locks are those LockTable  *)
(* promises; the engine appears as the rows of the tables, their image on  *)
(* disk and the guard that serialises DDL with the opening of tables.      *)
(***************************************************************************)
EXTENDS Naturals, Sequences

CONSTANTS
  Session,     \* one client thread each
  Table,       \* a set of numbers, in the order in which names sort
  Key, Value,  \* the rows of a table: a value per key, or none
  Absent,
  Nobody,
  Kinds,       \* the kinds of statement the clients send
  MayFail,     \* what goes wrong in the environment, of Failure
  MaxChanges   \* bound: row changes in one transaction

Kind == {"read", "write", "define", "inspect"}
Failure == {"statement", "undo", "flush", "busy", "evict"}

ASSUME ConstantsAssumption ==
  /\ Table \subseteq Nat
  /\ Absent \notin Value
  /\ Nobody \notin Session
  /\ Kinds \subseteq Kind
  /\ MayFail \subseteq Failure
  /\ MaxChanges \in Nat

\* Absent marks a row that is not there, and a table of which there is no copy.
ASSUME AbsentAssumption == Absent \notin [Key -> Value \cup {Absent}]

VARIABLES
  held, refused,  \* the lock table
  explicit,       \* whether _current is an open transaction (BEGIN was said)
  status,         \* the state of the session's last transaction
  pc,             \* where the session's thread is
  call,           \* the locals of the statement, undo or confirmation it is in
  log,            \* Transaction.changes
  rows,           \* the tables as every thread sees them
  disk,           \* the tables as a crash would leave them
  guard           \* who holds the engine's _guard for a DDL statement

lockVars == <<held, refused>>
txnVars == <<explicit, status>>
vars == <<lockVars, txnVars, pc, call, log, rows, disk, guard>>

Locks == INSTANCE LockTable WITH Transaction <- Session, Resource <- Table

Location == {"idle", "locking", "running", "defining",
             "opening", "reverting", "confirming", "flushing"}
Content == [Key -> Value \cup {Absent}]
Change == [table : Table, key : Key, before : Value \cup {Absent},
           after : Value \cup {Absent}]

\* todo: the tables still to lock or flush. first: first_change, the length of
\* the log when the statement began. goal: what an undo takes back.
Call == [kind : Kind, tables : SUBSET Table, todo : SUBSET Table,
         first : 0..MaxChanges, goal : {"statement", "everything"}]
NoCall == [kind |-> "read", tables |-> {}, todo |-> {}, first |-> 0,
           goal |-> "everything"]

TypeOK ==
  /\ Locks!TableTypeOK
  /\ explicit \in [Session -> BOOLEAN]
  /\ status \in [Session -> {"active", "committed", "aborted"}]
  /\ pc \in [Session -> Location]
  /\ call \in [Session -> Call]
  /\ log \in [Session -> Seq(Change)]
  /\ rows \in [Table -> Content]
  /\ disk \in [Table -> Content]
  /\ guard \in Session \cup {Nobody}
  /\ \A s \in Session :
       /\ call[s].first <= Len(log[s]) /\ Len(log[s]) <= MaxChanges
       /\ (explicit[s] \/ pc[s] # "idle") <=> status[s] = "active"
       /\ guard = s <=> pc[s] = "defining"
       /\ pc[s] = "defining" => call[s].kind = "define"
       /\ call[s].goal = "statement" => explicit[s]

Init ==
  /\ Locks!TableInit
  /\ explicit = [s \in Session |-> FALSE]
  /\ status = [s \in Session |-> "committed"]
  /\ pc = [s \in Session |-> "idle"]
  /\ call = [s \in Session |-> NoCall]
  /\ log = [s \in Session |-> <<>>]
  /\ rows \in [Table -> Content]
  /\ disk = rows
  /\ guard = Nobody

-----------------------------------------------------------------------------
Touched(s) == {log[s][i].table : i \in DOMAIN log[s]}

\* Engine.table for each table touched: nothing to open, or the guard is free.
CanOpen(tables) == tables = {} \/ guard = Nobody

\* Mutant: opening a table waits for the guard with no deadline.
GuardNeverTimesOut(tables) == FALSE

\* EngineBusyError: a DDL statement has kept the guard for a whole lock timeout.
GuardTimesOut(tables) == "busy" \in MayFail /\ tables # {} /\ guard # Nobody

GoTo(s, location, locals) ==
  /\ pc' = [pc EXCEPT ![s] = location]
  /\ call' = [call EXCEPT ![s] = locals]

\* Mutant: the guard stays taken after a DDL statement.
KeepGuard(s) == UNCHANGED guard

ReleaseGuard(s) == guard' = IF guard = s THEN Nobody ELSE guard

\* _end: the transaction is over and lets go of every lock, whatever happened.
End(s, state) ==
  /\ status' = [status EXCEPT ![s] = state]
  /\ Locks!LetGo(s)
  /\ explicit' = [explicit EXCEPT ![s] = FALSE]
  /\ GoTo(s, "idle", NoCall)
  /\ log' = [log EXCEPT ![s] = <<>>]
  /\ UNCHANGED <<rows, disk>>

StartUndo(s, goal) ==
  GoTo(s, "opening", IF goal = "everything" THEN NoCall
                     ELSE [NoCall EXCEPT !.first = call[s].first, !.goal = goal])

-----------------------------------------------------------------------------
(* The client: BEGIN, COMMIT, ROLLBACK (or close) and statements.          *)

Begin(s) ==
  /\ pc[s] = "idle" /\ ~explicit[s]
  /\ explicit' = [explicit EXCEPT ![s] = TRUE]
  /\ status' = [status EXCEPT ![s] = "active"]
  /\ UNCHANGED <<lockVars, pc, call, log, rows, disk, guard>>

Commit(s) ==
  /\ pc[s] = "idle" /\ explicit[s]
  /\ GoTo(s, "confirming", NoCall)
  /\ UNCHANGED <<lockVars, txnVars, log, rows, disk, guard>>

Rollback(s) ==
  /\ pc[s] = "idle" /\ explicit[s]
  /\ StartUndo(s, "everything")
  /\ UNCHANGED <<lockVars, txnVars, log, rows, disk, guard>>

\* A read names any tables; the rest name one, and DDL is for autocommit only.
Start(s, kind, tables) ==
  /\ pc[s] = "idle"
  /\ kind = "define" => ~explicit[s]
  /\ kind \in {"write", "define"} => \E t \in Table : tables = {t}
  /\ GoTo(s, "locking", [NoCall EXCEPT !.kind = kind, !.tables = tables,
                                       !.todo = tables, !.first = Len(log[s])])
  /\ status' = [status EXCEPT ![s] = "active"]
  /\ UNCHANGED <<lockVars, explicit, log, rows, disk, guard>>

-----------------------------------------------------------------------------
(* A statement: lock its tables in order, open them, run.                  *)

\* Mutant: an UPDATE or a DELETE locks like the query that finds its rows.
LockModeForReading(s) == IF call[s].kind = "define" THEN "exclusive" ELSE "shared"

LockMode(s) == IF call[s].kind \in {"write", "define"} THEN "exclusive" ELSE "shared"

NextToLock(s) == CHOOSE t \in call[s].todo : \A u \in call[s].todo : t <= u

MustLock(s) == pc[s] = "locking" /\ call[s].todo # {}

Lock(s) ==
  /\ MustLock(s)
  /\ Locks!Take(s, NextToLock(s), LockMode(s))
  /\ call' = [call EXCEPT ![s].todo = @ \ {NextToLock(s)}]
  /\ UNCHANGED <<txnVars, pc, log, rows, disk, guard>>

\* Another session holds the table, or queues for it ahead of one that holds
\* nothing of it.
Contended(s) ==
  LET t == NextToLock(s) IN
  \/ ~Locks!Compatible(s, t, LockMode(s))
  \/ /\ held[t][s] = "none"
     /\ \E u \in Session \ {s} :
          /\ MustLock(u) /\ NextToLock(u) = t
          /\ "exclusive" \in {LockMode(s), LockMode(u)}

\* Mutant: the transaction that cannot lock ends without undoing its changes.
LockFailsWithoutUndo(s) ==
  /\ MustLock(s) /\ Contended(s)
  /\ End(s, "aborted")
  /\ UNCHANGED guard

\* A deadlock or a timeout aborts the whole transaction.
LockFails(s) ==
  /\ MustLock(s) /\ Contended(s)
  /\ Locks!Refuse(s)
  /\ StartUndo(s, "everything")
  /\ UNCHANGED <<txnVars, log, rows, disk, guard>>

Run(s) ==
  /\ pc[s] = "locking" /\ call[s].todo = {}
  /\ CanOpen(call[s].tables)
  /\ IF call[s].kind = "define"
     THEN guard = Nobody /\ guard' = s /\ GoTo(s, "defining", call[s])
     ELSE GoTo(s, "running", call[s]) /\ UNCHANGED guard
  /\ UNCHANGED <<lockVars, txnVars, log, rows, disk>>

\* A row is changed in memory and noted in the log.
ChangeRow(s) ==
  /\ pc[s] = "running" /\ call[s].kind = "write"
  /\ Len(log[s]) < MaxChanges
  /\ \E t \in call[s].tables, k \in Key, v \in Value \cup {Absent} :
       /\ v # rows[t][k]
       /\ rows' = [rows EXCEPT ![t][k] = v]
       /\ log' = [log EXCEPT ![s] = Append(@,
            [table |-> t, key |-> k, before |-> rows[t][k], after |-> v])]
  /\ UNCHANGED <<lockVars, txnVars, pc, call, disk, guard>>

\* In autocommit the statement is confirmed; otherwise the transaction goes on.
\* inspect only reads, so in autocommit it ends at once, read or not.
Succeed(s) ==
  /\ pc[s] \in {"running", "defining"}
  /\ ReleaseGuard(s)
  /\ IF ~explicit[s] /\ call[s].kind = "inspect" THEN End(s, "committed")
     ELSE /\ GoTo(s, IF explicit[s] THEN "idle" ELSE "confirming", NoCall)
          /\ UNCHANGED <<lockVars, txnVars, log, rows, disk>>

\* Any error that is not a LockError. A DROP INDEX asks the guard for the table of
\* the index before it locks it; the guard may keep it there as the locks may.
StatementFails(s) ==
  \/ pc[s] \in {"running", "defining"} /\ "statement" \in MayFail
  \/ pc[s] = "locking" /\ call[s].todo = {} /\ GuardTimesOut(call[s].tables)
  \/ pc[s] = "locking" /\ call[s].kind = "define" /\ GuardTimesOut(call[s].todo)

Fail(s) ==
  /\ StatementFails(s) /\ call[s].kind # "inspect"
  /\ ReleaseGuard(s)
  /\ StartUndo(s, IF explicit[s] THEN "statement" ELSE "everything")
  /\ UNCHANGED <<lockVars, txnVars, log, rows, disk>>

FailInspect(s) ==
  /\ StatementFails(s) /\ call[s].kind = "inspect"
  /\ IF explicit[s]
     THEN GoTo(s, "idle", NoCall) /\ UNCHANGED <<lockVars, txnVars, log, rows, disk>>
     ELSE End(s, "committed")
  /\ UNCHANGED guard

-----------------------------------------------------------------------------
(* undo and undo_statement: the log from its end back to first_change.     *)

OpenForUndo(s) ==
  /\ pc[s] = "opening" /\ CanOpen(Touched(s))
  /\ GoTo(s, "reverting", call[s])
  /\ UNCHANGED <<lockVars, txnVars, log, rows, disk, guard>>

LastChange(s) == log[s][Len(log[s])]
RowNow(c) == rows[c.table][c.key]

\* Mutant: the changes leave the log only when all of them have been taken back.
RevertKeepingChange(s) ==
  LET c == log[s][Len(log[s])] IN
  /\ pc[s] = "reverting" /\ Len(log[s]) > call[s].first
  /\ rows' = IF rows[c.table][c.key] = c.after
             THEN [rows EXCEPT ![c.table][c.key] = c.before] ELSE rows
  /\ UNCHANGED <<lockVars, txnVars, pc, call, log, disk, guard>>

\* Undoing a DELETE inserts, so the key must be free; the others look for the row
\* as it was left and, if it is not there, change nothing. Either way the change
\* leaves the log.
Revert(s) ==
  LET c == LastChange(s) IN
  /\ pc[s] = "reverting" /\ Len(log[s]) > call[s].first
  /\ c.after = Absent => RowNow(c) = Absent
  /\ rows' = IF RowNow(c) = c.after
             THEN [rows EXCEPT ![c.table][c.key] = c.before] ELSE rows
  /\ log' = [log EXCEPT ![s] = SubSeq(@, 1, Len(@) - 1)]
  /\ UNCHANGED <<lockVars, txnVars, pc, call, disk, guard>>

Reverted(s) ==
  /\ pc[s] = "reverting" /\ Len(log[s]) = call[s].first
  /\ IF call[s].goal = "everything" THEN End(s, "aborted")
     ELSE GoTo(s, "idle", NoCall) /\ UNCHANGED <<lockVars, txnVars, log, rows, disk>>
  /\ UNCHANGED guard

\* Mutant: the error of an undo leaves _abort before the locks are released.
UndoFailsHoldingLocks(s) ==
  /\ \/ pc[s] = "opening" /\ GuardTimesOut(Touched(s))
     \/ pc[s] = "reverting" /\ Len(log[s]) > call[s].first /\ "undo" \in MayFail
  /\ status' = [status EXCEPT ![s] = "aborted"]
  /\ explicit' = [explicit EXCEPT ![s] = FALSE]
  /\ GoTo(s, "idle", NoCall)
  /\ log' = [log EXCEPT ![s] = <<>>]
  /\ UNCHANGED <<lockVars, rows, disk, guard>>

\* The tables cannot be opened, or a row cannot be put back. The undo of a
\* statement turns into the abort of its transaction; an abort just ends.
UndoFails(s) ==
  /\ \/ pc[s] = "opening" /\ GuardTimesOut(Touched(s))
     \/ pc[s] = "reverting" /\ Len(log[s]) > call[s].first /\ "undo" \in MayFail
  /\ IF call[s].goal = "everything" THEN End(s, "aborted")
     ELSE StartUndo(s, "everything") /\ UNCHANGED <<lockVars, txnVars, log, rows, disk>>
  /\ UNCHANGED guard

-----------------------------------------------------------------------------
(* _confirm: flush every table touched, and only then end as committed.    *)

OpenForFlush(s) ==
  /\ pc[s] = "confirming" /\ CanOpen(Touched(s))
  /\ GoTo(s, "flushing", [NoCall EXCEPT !.todo = Touched(s)])
  /\ UNCHANGED <<lockVars, txnVars, log, rows, disk, guard>>

Flush(s) ==
  /\ pc[s] = "flushing"
  /\ \E t \in call[s].todo :
       /\ disk' = [disk EXCEPT ![t] = rows[t]]
       /\ call' = [call EXCEPT ![s].todo = @ \ {t}]
  /\ UNCHANGED <<lockVars, txnVars, pc, log, rows, guard>>

\* Mutant: the transaction is confirmed with tables still to flush.
ConfirmedBeforeFlush(s) ==
  /\ pc[s] = "flushing"
  /\ End(s, "committed")
  /\ UNCHANGED guard

Confirmed(s) ==
  /\ pc[s] = "flushing" /\ call[s].todo = {}
  /\ End(s, "committed")
  /\ UNCHANGED guard

ConfirmFails(s) ==
  /\ \/ pc[s] = "confirming" /\ GuardTimesOut(Touched(s))
     \/ pc[s] = "flushing" /\ call[s].todo # {} /\ "flush" \in MayFail
  /\ StartUndo(s, "everything")
  /\ UNCHANGED <<lockVars, txnVars, log, rows, disk, guard>>

\* The buffer pool makes room by writing a page, committed or not.
Evict ==
  /\ "evict" \in MayFail
  /\ \E t \in Table, k \in Key : disk' = [disk EXCEPT ![t][k] = rows[t][k]]
  /\ UNCHANGED <<lockVars, txnVars, pc, call, log, rows, guard>>

Ask(s) ==
  \/ Begin(s) \/ Commit(s) \/ Rollback(s)
  \/ \E kind \in Kinds, tables \in (SUBSET Table) \ {{}} : Start(s, kind, tables)

Step(s) ==
  \/ Lock(s) \/ LockFails(s) \/ Run(s) \/ Succeed(s) \/ Fail(s) \/ FailInspect(s)
  \/ OpenForUndo(s) \/ Revert(s) \/ Reverted(s) \/ UndoFails(s)
  \/ OpenForFlush(s) \/ Flush(s) \/ Confirmed(s) \/ ConfirmFails(s)

Next == (\E s \in Session : Ask(s) \/ Step(s) \/ ChangeRow(s)) \/ Evict

Spec == Init /\ [][Next]_vars

\* A statement that was asked for keeps running; clients may stop asking.
FairSpec == Spec /\ \A s \in Session : WF_vars(Step(s))

-----------------------------------------------------------------------------
\* Nobody changes a table without its exclusive lock, and keeps it while the
\* change can still be undone (strict two-phase locking).
ChangesAreLocked ==
  \A s \in Session : \A t \in Touched(s) : held[t][s] = "exclusive"

\* A transaction sees the same table every time it looks: from the moment it
\* locks it until it ends, only the transaction itself changes it, neither
\* another's statement nor another's undo.
ReadsAreRepeatable ==
  [][\A s \in Session, t \in Table :
       (held[t][s] # "none" /\ held'[t][s] # "none" /\ rows'[t] # rows[t])
         => log'[s] # log[s]]_vars

\* The log can take everything back: each row stands as the last change to it
\* left it, and each change began where the one before it on that row ended.
LogMatchesRows ==
  \A s \in Session : \A i \in DOMAIN log[s] :
    LET c == log[s][i]
        later == {j \in i+1..Len(log[s]) : log[s][j].table = c.table /\ log[s][j].key = c.key}
    IN IF later = {} THEN RowNow(c) = c.after
       ELSE log[s][CHOOSE j \in later : \A l \in later : j <= l].before = c.after

\* "Terminar una transaccion siempre suelta sus bloqueos", also when an undo, a
\* flush or the opening of a table fails: outside a transaction nothing is held.
NoLockIsLeaked ==
  \A s \in Session : status[s] # "active" =>
    /\ s \notin refused
    /\ \A t \in Table : held[t][s] = "none"

\* Force: when a transaction becomes committed, all it changed is on disk, even
\* if an earlier flush failed or pages were written at other moments.
CommitIsOnDisk ==
  [][\A s \in Session : status[s] = "active" /\ status'[s] = "committed"
       => \A t \in Touched(s) : disk'[t] = rows[t]]_vars

\* What is committed survives the end of the process: a table nobody is changing
\* is on disk as its readers see it.
CommittedSurvives ==
  \A t \in Table :
    (\A s \in Session : held[t][s] # "exclusive") => disk[t] = rows[t]

\* "ROLLBACK (y cerrar la sesion con algo abierto) deshace todo": a transaction
\* that ends as aborted has nothing left to undo.
RollbackUndoesEverything ==
  [][\A s \in Session : status[s] = "active" /\ status'[s] = "aborted"
       => log[s] = <<>>]_vars

\* Every statement ends, with its result or with an error.
EveryStatementEnds == \A s \in Session : (pc[s] # "idle") ~> (pc[s] = "idle")

-----------------------------------------------------------------------------
(* The refinement: the committed content of a table is its rows with every *)
(* log taken back, and a private copy is the rows of a table one changed.  *)

FirstChangeTo(s, t, k) ==
  LET at == {i \in DOMAIN log[s] : log[s][i].table = t /\ log[s][i].key = k}
  IN log[s][CHOOSE i \in at : \A j \in at : i <= j]

Changers(t, k) == {s \in Session : \E i \in DOMAIN log[s] :
                     log[s][i].table = t /\ log[s][i].key = k}

CommittedContent ==
  [t \in Table |-> [k \in Key |->
     IF Changers(t, k) = {} THEN rows[t][k]
     ELSE FirstChangeTo(CHOOSE s \in Changers(t, k) : TRUE, t, k).before]]

PrivateCopies ==
  [s \in Session |-> [t \in Table |-> IF t \in Touched(s) THEN rows[t] ELSE Absent]]

Store == INSTANCE AtomicStore
  WITH db <- CommittedContent, private <- PrivateCopies, Untouched <- Absent

\* Transactions are atomic and isolated: the committed content changes only when
\* one commits, all its tables at once, and an abort leaves it as it was.
ImplementsAtomicStore == Store!StoreSpec

=============================================================================
