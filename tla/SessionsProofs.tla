--------------------------- MODULE SessionsProofs ---------------------------
(* Proofs about Sessions, for any sessions, tables, keys and values, and     *)
(* whatever may fail.                                                        *)
EXTENDS Sessions, TLAPS

LEMMA NoCallIsACall == NoCall \in Call
BY ConstantsAssumption DEF NoCall, Call, Kind

\* An undo starts where its session can take up to the last change it made.
LEMMA UndoIsACall ==
  ASSUME TypeOK, NEW s \in Session, NEW goal \in {"statement", "everything"},
         StartUndo(s, goal), goal = "statement" => explicit[s]
  PROVE  \E c \in Call : /\ GoTo(s, "opening", c) /\ c.first <= Len(log[s])
                         /\ c.goal = "statement" => explicit[s]
<1>1. /\ NoCall \in Call /\ NoCall.first = 0 /\ NoCall.goal = "everything"
      /\ Len(log[s]) \in Nat
  BY NoCallIsACall DEF NoCall, TypeOK
<1>2. call[s].first \in 0..MaxChanges /\ call[s].first <= Len(log[s])
  BY DEF TypeOK, Call
<1>3. [NoCall EXCEPT !.first = call[s].first, !.goal = goal] \in Call
  BY <1>1, <1>2 DEF Call
<1>4. CASE goal = "everything"
  BY <1>1, <1>4, ConstantsAssumption DEF StartUndo
<1>5. CASE goal = "statement"
  <2>1. GoTo(s, "opening", [NoCall EXCEPT !.first = call[s].first, !.goal = goal])
    BY <1>5 DEF StartUndo
  <2>2. [NoCall EXCEPT !.first = call[s].first, !.goal = goal].first = call[s].first
    BY DEF NoCall
  <2>3. QED
    BY <1>2, <1>3, <1>5, <2>1, <2>2
<1>6. QED
  BY <1>4, <1>5

\* The parts of the type invariant that a step of one session can disturb: where
\* it goes, with which locals, and what becomes of its log.
LEMMA StepKeepsTypes ==
  ASSUME TypeOK, NEW s \in Session, NEW location \in Location, NEW c \in Call,
         GoTo(s, location, c),
         Locks!TableTypeOK',
         log' \in [Session -> Seq(Change)],
         \A u \in Session \ {s} : log'[u] = log[u],
         c.first <= Len(log'[s]), Len(log'[s]) <= MaxChanges,
         c.goal = "statement" => explicit'[s],
         explicit' \in [Session -> BOOLEAN],
         status' \in [Session -> {"active", "committed", "aborted"}],
         \A u \in Session \ {s} : explicit'[u] = explicit[u] /\ status'[u] = status[u],
         (explicit'[s] \/ location # "idle") <=> status'[s] = "active",
         rows' \in [Table -> Content], disk' \in [Table -> Content],
         \/ guard' = guard /\ guard # s /\ location # "defining"
         \/ guard' = s /\ guard \in {Nobody, s} /\ location = "defining" /\ c.kind = "define"
         \/ guard' = Nobody /\ guard = s /\ location # "defining"
  PROVE  TypeOK'
<1>1. pc' \in [Session -> Location] /\ pc'[s] = location
      /\ \A u \in Session \ {s} : pc'[u] = pc[u]
  BY DEF GoTo, TypeOK
<1>2. call' \in [Session -> Call] /\ call'[s] = c
      /\ \A u \in Session \ {s} : call'[u] = call[u]
  BY DEF GoTo, TypeOK
<1>3. guard' \in Session \cup {Nobody}
  BY DEF TypeOK
<1>4. ASSUME NEW u \in Session
      PROVE  /\ call'[u].first <= Len(log'[u]) /\ Len(log'[u]) <= MaxChanges
             /\ (explicit'[u] \/ pc'[u] # "idle") <=> status'[u] = "active"
             /\ guard' = u <=> pc'[u] = "defining"
             /\ pc'[u] = "defining" => call'[u].kind = "define"
             /\ call'[u].goal = "statement" => explicit'[u]
  <2>1. CASE u = s
    BY <1>1, <1>2, <2>1, ConstantsAssumption
  <2>2. CASE u # s
    BY <1>1, <1>2, <2>2, ConstantsAssumption DEF TypeOK
  <2>3. QED
    BY <2>1, <2>2
<1>5. QED
  BY <1>1, <1>2, <1>3, <1>4 DEF TypeOK

\* The end of a transaction leaves its session idle, with nothing in its hands.
LEMMA EndKeepsTypes ==
  ASSUME TypeOK, NEW s \in Session, NEW state \in {"committed", "aborted"},
         End(s, state),
         guard' = (IF guard = s THEN Nobody ELSE guard)
  PROVE  TypeOK'
<1>1. NoCall \in Call /\ NoCall.first = 0 /\ NoCall.goal = "everything"
  BY NoCallIsACall DEF NoCall
<1>2. Locks!TableTypeOK'
  BY DEF End, TypeOK, Locks!LetGo, Locks!TableTypeOK, Locks!None
<1>3. /\ log' \in [Session -> Seq(Change)] /\ log'[s] = <<>>
      /\ \A u \in Session \ {s} : log'[u] = log[u]
  BY DEF End, TypeOK
<1>4. Len(log'[s]) = 0 /\ MaxChanges \in Nat
  BY <1>3, ConstantsAssumption
<1>5. GoTo(s, "idle", NoCall) /\ "idle" \in Location
  BY DEF End, Location
<1>6. /\ explicit' \in [Session -> BOOLEAN]
      /\ status' \in [Session -> {"active", "committed", "aborted"}]
      /\ \A u \in Session \ {s} : explicit'[u] = explicit[u] /\ status'[u] = status[u]
      /\ (explicit'[s] \/ "idle" # "idle") <=> status'[s] = "active"
  BY DEF End, TypeOK
<1>7. rows' \in [Table -> Content] /\ disk' \in [Table -> Content]
  BY DEF End, TypeOK
<1>8. QED
  BY <1>1, <1>2, <1>3, <1>4, <1>5, <1>6, <1>7, StepKeepsTypes

LEMMA InitTypes == ASSUME Init PROVE TypeOK
<1>1. Locks!TableTypeOK
  BY DEF Init, Locks!TableInit, Locks!TableTypeOK, Locks!NothingHeld, Locks!None
<1>2. \A s \in Session : /\ call[s] \in Call /\ call[s].first = 0 /\ log[s] = <<>>
                         /\ call[s].goal = "everything"
  BY NoCallIsACall DEF Init, NoCall
<1>3. \A s \in Session : Len(log[s]) = 0 /\ log[s] \in Seq(Change)
  <2>1. <<>> \in Seq(Change) /\ Len(<<>>) = 0
    OBVIOUS
  <2>2. QED
    BY <1>2, <2>1
<1>4. QED
  BY <1>1, <1>2, <1>3, ConstantsAssumption, NoCallIsACall DEF Init, TypeOK, Location

LEMMA NextKeepsTypes == ASSUME TypeOK, [Next]_vars PROVE TypeOK'
<1> USE ConstantsAssumption
<1>0. NoCall \in Call /\ NoCall.first = 0 /\ NoCall.goal = "everything"
  BY NoCallIsACall DEF NoCall
<1> DEFINE Rest(s) == /\ \A u \in Session : call[u] \in Call /\ log[u] \in Seq(Change)
                      /\ call[s].first \in 0..MaxChanges /\ Len(log[s]) \in 0..MaxChanges
                      /\ call[s].first <= Len(log[s])
                      /\ call[s].goal = "statement" => explicit[s]
<1>r. \A s \in Session : Rest(s)
  BY DEF TypeOK, Call
<1> HIDE DEF Rest
\* A step that moves one session and leaves the tables and the locks alone.
<1>m. ASSUME NEW s \in Session, NEW location \in Location, NEW c \in Call,
             GoTo(s, location, c), c.first <= Len(log[s]),
             c.goal = "statement" => explicit'[s],
             UNCHANGED <<held, refused, log, rows, disk>>,
             explicit' \in [Session -> BOOLEAN],
             status' \in [Session -> {"active", "committed", "aborted"}],
             \A u \in Session \ {s} : explicit'[u] = explicit[u] /\ status'[u] = status[u],
             (explicit'[s] \/ location # "idle") <=> status'[s] = "active",
             \/ guard' = guard /\ guard # s /\ location # "defining"
             \/ guard' = s /\ guard \in {Nobody, s} /\ location = "defining" /\ c.kind = "define"
             \/ guard' = Nobody /\ guard = s /\ location # "defining"
      PROVE  TypeOK'
  <2>1. Locks!TableTypeOK'
    BY <1>m DEF TypeOK, Locks!TableTypeOK
  <2>2. log' \in [Session -> Seq(Change)] /\ Len(log'[s]) <= MaxChanges
        /\ rows' \in [Table -> Content] /\ disk' \in [Table -> Content] /\ log' = log
    BY <1>m DEF TypeOK
  <2>3. QED
    BY <1>m, <2>1, <2>2, StepKeepsTypes
\* The start of an undo, which keeps everything but the place.
<1>u. ASSUME NEW s \in Session, NEW goal \in {"statement", "everything"},
             StartUndo(s, goal), status[s] = "active",
             goal = "statement" => explicit[s],
             UNCHANGED <<held, refused, explicit, status, log, rows, disk>>,
             guard' = IF guard = s THEN Nobody ELSE guard
      PROVE  TypeOK'
  <2>1. PICK c \in Call : /\ GoTo(s, "opening", c) /\ c.first <= Len(log[s])
                          /\ c.goal = "statement" => explicit[s]
    BY <1>u, UndoIsACall
  <2>2. /\ explicit' \in [Session -> BOOLEAN]
        /\ status' \in [Session -> {"active", "committed", "aborted"}]
        /\ \A u \in Session \ {s} : explicit'[u] = explicit[u] /\ status'[u] = status[u]
        /\ status'[s] = "active" /\ explicit'[s] = explicit[s]
    BY <1>u DEF TypeOK
  <2>3. "opening" \in Location
    BY DEF Location
  <2>4. QED
    <3>1. /\ c.goal = "statement" => explicit'[s]
          /\ (explicit'[s] \/ "opening" # "idle") <=> status'[s] = "active"
      BY <2>1, <2>2
    <3>2. \/ guard' = guard /\ guard # s /\ "opening" # "defining"
          \/ guard' = Nobody /\ guard = s /\ "opening" # "defining"
      BY <1>u
    <3>3. QED
      BY <1>m, <1>u, <2>1, <2>2, <2>3, <3>1, <3>2
\* The end of a statement, an undo or the beginning of a confirmation.
<1>k. ASSUME NEW s \in Session, NEW location \in Location \ {"defining"},
             GoTo(s, location, NoCall), status[s] = "active",
             location = "idle" => explicit[s],
             UNCHANGED <<held, refused, explicit, status, log, rows, disk>>,
             guard' = IF guard = s THEN Nobody ELSE guard
      PROVE  TypeOK'
  <2>1. NoCall.first <= Len(log[s])
    BY <1>0, <1>r DEF Rest
  <2>2. /\ explicit' \in [Session -> BOOLEAN]
        /\ status' \in [Session -> {"active", "committed", "aborted"}]
    BY <1>k DEF TypeOK
  <2>3. (explicit'[s] \/ location # "idle") <=> status'[s] = "active"
    BY <1>k
  <2>4. QED
    BY <1>0, <1>k, <1>m, <2>1, <2>2, <2>3
<1>1. ASSUME NEW s \in Session, Begin(s) PROVE TypeOK'
  BY <1>1 DEF Begin, TypeOK, lockVars, Locks!TableTypeOK
<1>2. ASSUME NEW s \in Session, Commit(s) PROVE TypeOK'
  <2>1. status[s] = "active" /\ guard # s
    BY <1>2 DEF Commit, TypeOK
  <2>2. QED
    BY <1>2, <1>k, <2>1 DEF Commit, Location, lockVars, txnVars
<1>3. ASSUME NEW s \in Session, Rollback(s) PROVE TypeOK'
  <2>1. status[s] = "active" /\ guard # s
    BY <1>3 DEF Rollback, TypeOK
  <2>2. QED
    BY <1>3, <1>u, <2>1 DEF Rollback, lockVars, txnVars
<1>4. ASSUME NEW s \in Session, NEW kind \in Kinds,
             NEW tables \in (SUBSET Table) \ {{}}, Start(s, kind, tables)
      PROVE  TypeOK'
  <2> DEFINE c == [NoCall EXCEPT !.kind = kind, !.tables = tables,
                                 !.todo = tables, !.first = Len(log[s])]
  <2>1. c \in Call /\ c.first = Len(log[s]) /\ c.goal = "everything"
    BY <1>r DEF NoCall, Call, Rest
  <2>2. GoTo(s, "locking", c)
    BY <1>4 DEF Start
  <2> HIDE DEF c
  <2>3. guard # s
    BY <1>4 DEF Start, TypeOK
  <2>4. c.first <= Len(log[s])
    BY <1>r, <2>1 DEF Rest
  <2>5. QED
    BY <1>4, <1>m, <2>1, <2>2, <2>3, <2>4 DEF Start, Location, TypeOK, lockVars
<1>5. ASSUME NEW s \in Session, Lock(s) PROVE TypeOK'
  <2> DEFINE c == [call[s] EXCEPT !.todo = @ \ {NextToLock(s)}]
  <2>1. c \in Call /\ c.first <= Len(log[s]) /\ c.goal = call[s].goal
    BY <1>r DEF Call, Rest
  <2>2. GoTo(s, "locking", c)
    BY <1>5 DEF Lock, MustLock, GoTo, TypeOK
  <2> HIDE DEF c
  <2>3. Locks!TableTypeOK'
    <3>1. LockMode(s) \in Locks!Mode
      BY DEF LockMode, Locks!Mode
    <3>2. QED
      BY <1>5, <3>1 DEF Lock, TypeOK, Locks!Take, Locks!TableTypeOK, Locks!Stronger,
         Locks!Mode
  <2>4. status[s] = "active" /\ guard # s /\ Len(log[s]) <= MaxChanges
    BY <1>5 DEF Lock, MustLock, TypeOK
  <2>5. QED
    BY <1>5, <1>r, <2>1, <2>2, <2>3, <2>4, StepKeepsTypes
       DEF Lock, Location, Rest, TypeOK, txnVars
<1>6. ASSUME NEW s \in Session, LockFails(s) PROVE TypeOK'
  <2>1. PICK c \in Call : /\ GoTo(s, "opening", c) /\ c.first <= Len(log[s])
                          /\ c.goal = "statement" => explicit[s]
    BY <1>6, UndoIsACall DEF LockFails
  <2>2. Locks!TableTypeOK'
    BY <1>6 DEF LockFails, TypeOK, Locks!Refuse, Locks!TableTypeOK
  <2>3. status[s] = "active" /\ guard # s /\ Len(log[s]) <= MaxChanges
    BY <1>6 DEF LockFails, MustLock, TypeOK
  <2>4. /\ UNCHANGED <<explicit, status, log, rows, disk, guard>>
        /\ log' \in [Session -> Seq(Change)]
        /\ explicit' \in [Session -> BOOLEAN]
        /\ status' \in [Session -> {"active", "committed", "aborted"}]
        /\ rows' \in [Table -> Content] /\ disk' \in [Table -> Content]
    BY <1>6 DEF LockFails, TypeOK, txnVars
  <2>5. "opening" \in Location
    BY DEF Location
  <2>6. QED
    <3>1. /\ c.goal = "statement" => explicit'[s]
          /\ (explicit'[s] \/ "opening" # "idle") <=> status'[s] = "active"
          /\ c.first <= Len(log'[s]) /\ Len(log'[s]) <= MaxChanges
      BY <2>1, <2>3, <2>4
    <3>2. QED
      BY <2>1, <2>2, <2>3, <2>4, <2>5, <3>1, StepKeepsTypes
<1>7. ASSUME NEW s \in Session, Run(s) PROVE TypeOK'
  <2>1. status[s] = "active" /\ guard # s
    BY <1>7 DEF Run, TypeOK
  <2>2. CASE call[s].kind = "define"
    BY <1>7, <1>m, <1>r, <2>1, <2>2 DEF Run, Rest, Location, TypeOK, lockVars, txnVars
  <2>3. CASE call[s].kind # "define"
    BY <1>7, <1>m, <1>r, <2>1, <2>3 DEF Run, Rest, Location, TypeOK, lockVars, txnVars
  <2>4. QED
    BY <2>2, <2>3
<1>8. ASSUME NEW s \in Session, ChangeRow(s) PROVE TypeOK'
  <2>1. PICK t \in call[s].tables, k \in Key, v \in Value \cup {Absent} :
          /\ rows' = [rows EXCEPT ![t][k] = v]
          /\ log' = [log EXCEPT ![s] = Append(@,
               [table |-> t, key |-> k, before |-> rows[t][k], after |-> v])]
    BY <1>8 DEF ChangeRow
  <2>2. t \in Table /\ rows[t][k] \in Value \cup {Absent}
    BY <1>r DEF Rest, Call, TypeOK, Content
  <2>3. [table |-> t, key |-> k, before |-> rows[t][k], after |-> v] \in Change
    BY <2>2 DEF Change
  <2>4. log' \in [Session -> Seq(Change)] /\ Len(log'[s]) = Len(log[s]) + 1
    BY <2>1, <2>3 DEF TypeOK
  <2>5. rows' \in [Table -> Content]
    BY <2>1, <2>2 DEF TypeOK, Content
  <2>6. GoTo(s, "running", call[s]) /\ call[s] \in Call
    BY <1>8, <1>r DEF ChangeRow, GoTo, TypeOK, Rest
  <2>7. Locks!TableTypeOK'
    BY <1>8 DEF ChangeRow, TypeOK, lockVars, Locks!TableTypeOK
  <2>8. call[s].first <= Len(log'[s]) /\ Len(log'[s]) <= MaxChanges
    BY <1>8, <1>r, <2>4 DEF ChangeRow, Rest
  <2>9. \A u \in Session \ {s} : log'[u] = log[u]
    BY <2>1 DEF TypeOK
  <2>10. status[s] = "active" /\ guard # s
    BY <1>8 DEF ChangeRow, TypeOK
  <2>11. QED
    BY <1>8, <1>r, <2>4, <2>5, <2>6, <2>7, <2>8, <2>9, <2>10, StepKeepsTypes
       DEF ChangeRow, Location, Rest, TypeOK, txnVars
<1>9. ASSUME NEW s \in Session, Succeed(s) PROVE TypeOK'
  <2>1. status[s] = "active" /\ guard' = (IF guard = s THEN Nobody ELSE guard)
    BY <1>9 DEF Succeed, ReleaseGuard, TypeOK
  <2>2. CASE ~explicit[s] /\ call[s].kind = "inspect"
    BY <1>9, <2>1, <2>2, EndKeepsTypes DEF Succeed
  <2>3. CASE ~(~explicit[s] /\ call[s].kind = "inspect")
    BY <1>9, <1>k, <2>1, <2>3 DEF Succeed, Location, lockVars, txnVars
  <2>4. QED
    BY <2>2, <2>3
<1>10. ASSUME NEW s \in Session, Fail(s) PROVE TypeOK'
  <2>1. status[s] = "active"
    BY <1>10 DEF Fail, StatementFails, TypeOK
  <2>2. QED
    BY <1>10, <1>u, <2>1 DEF Fail, ReleaseGuard, lockVars, txnVars
<1>11. ASSUME NEW s \in Session, FailInspect(s) PROVE TypeOK'
  <2>1. status[s] = "active" /\ guard # s
    BY <1>11 DEF FailInspect, StatementFails, TypeOK
  <2>2. CASE explicit[s]
    BY <1>11, <1>k, <2>1, <2>2 DEF FailInspect, Location, lockVars, txnVars
  <2>3. CASE ~explicit[s]
    BY <1>11, <2>1, <2>3, EndKeepsTypes DEF FailInspect
  <2>4. QED
    BY <2>2, <2>3
<1>12. ASSUME NEW s \in Session, OpenForUndo(s) PROVE TypeOK'
  BY <1>12, <1>m, <1>r DEF OpenForUndo, Rest, Location, TypeOK, lockVars, txnVars
<1>13. ASSUME NEW s \in Session, Revert(s) PROVE TypeOK'
  <2> DEFINE change == LastChange(s)
  <2>1. Len(log[s]) \in Nat /\ Len(log[s]) > 0 /\ Len(log[s]) > call[s].first
        /\ log[s] \in Seq(Change)
    BY <1>13, <1>r DEF Revert, Rest
  <2>2. change \in Change
    BY <2>1 DEF LastChange
  <2>3. change.table \in Table /\ change.key \in Key /\ change.before \in Value \cup {Absent}
    BY <2>2 DEF Change
  <2>4. rows' \in [Table -> Content]
    BY <1>13, <2>3 DEF Revert, TypeOK, Content
  <2>5. SubSeq(log[s], 1, Len(log[s]) - 1) \in Seq(Change)
        /\ Len(SubSeq(log[s], 1, Len(log[s]) - 1)) = Len(log[s]) - 1
    BY <2>1
  <2>6. log' = [log EXCEPT ![s] = SubSeq(log[s], 1, Len(log[s]) - 1)]
    BY <1>13 DEF Revert
  <2>7. log' \in [Session -> Seq(Change)] /\ Len(log'[s]) = Len(log[s]) - 1
        /\ \A u \in Session \ {s} : log'[u] = log[u]
    BY <2>5, <2>6 DEF TypeOK
  <2>8. call[s].first <= Len(log'[s]) /\ Len(log'[s]) <= MaxChanges
    BY <1>r, <2>1, <2>7 DEF Rest
  <2>9. GoTo(s, "reverting", call[s]) /\ call[s] \in Call
    BY <1>13, <1>r DEF Revert, GoTo, TypeOK, Rest
  <2>10. Locks!TableTypeOK'
    BY <1>13 DEF Revert, TypeOK, lockVars, Locks!TableTypeOK
  <2>11. status[s] = "active" /\ guard # s
    BY <1>13 DEF Revert, TypeOK
  <2>12. QED
    BY <1>13, <1>r, <2>4, <2>7, <2>8, <2>9, <2>10, <2>11, StepKeepsTypes
       DEF Revert, Location, Rest, TypeOK, txnVars
<1>14. ASSUME NEW s \in Session, Reverted(s) PROVE TypeOK'
  <2>1. status[s] = "active" /\ guard # s
    BY <1>14 DEF Reverted, TypeOK
  <2>2. CASE call[s].goal = "everything"
    BY <1>14, <2>1, <2>2, EndKeepsTypes DEF Reverted
  <2>3. CASE call[s].goal # "everything"
    <3>1. explicit[s]
      BY <1>r, <2>3 DEF Rest, Call
    <3>2. QED
      BY <1>14, <1>k, <2>1, <2>3, <3>1 DEF Reverted, Location, lockVars, txnVars
  <2>4. QED
    BY <2>2, <2>3
<1>15. ASSUME NEW s \in Session, UndoFails(s) PROVE TypeOK'
  <2>1. status[s] = "active" /\ guard # s
    BY <1>15 DEF UndoFails, TypeOK
  <2>2. CASE call[s].goal = "everything"
    BY <1>15, <2>1, <2>2, EndKeepsTypes DEF UndoFails
  <2>3. CASE call[s].goal # "everything"
    BY <1>15, <1>u, <2>1, <2>3 DEF UndoFails, lockVars, txnVars
  <2>4. QED
    BY <2>2, <2>3
<1>16. ASSUME NEW s \in Session, OpenForFlush(s) PROVE TypeOK'
  <2> DEFINE c == [NoCall EXCEPT !.todo = Touched(s)]
  <2>1. Touched(s) \subseteq Table
    <3>1. \A i \in DOMAIN log[s] : log[s][i] \in Change
      BY <1>r DEF Rest
    <3>2. QED
      BY <3>1 DEF Touched, Change
  <2>2. c \in Call /\ c.first = 0 /\ c.goal = "everything"
    BY <1>0, <2>1 DEF Call
  <2>3. GoTo(s, "flushing", c)
    BY <1>16 DEF OpenForFlush
  <2> HIDE DEF c
  <2>4. status[s] = "active" /\ guard # s /\ c.first <= Len(log[s])
    BY <1>16, <1>r, <2>2 DEF OpenForFlush, TypeOK, Rest
  <2>5. QED
    BY <1>16, <1>m, <2>2, <2>3, <2>4 DEF OpenForFlush, Location, TypeOK, lockVars, txnVars
<1>17. ASSUME NEW s \in Session, Flush(s) PROVE TypeOK'
  <2>1. PICK t \in call[s].todo :
          /\ disk' = [disk EXCEPT ![t] = rows[t]]
          /\ call' = [call EXCEPT ![s].todo = @ \ {t}]
    BY <1>17 DEF Flush
  <2> DEFINE c == [call[s] EXCEPT !.todo = @ \ {t}]
  <2>2. t \in Table /\ c \in Call /\ c.first <= Len(log[s]) /\ c.goal = call[s].goal
    <3>1. call[s] \in Call /\ call[s].first <= Len(log[s])
      BY <1>r DEF Rest
    <3>2. t \in Table /\ call[s].todo \ {t} \in SUBSET Table
      BY <3>1 DEF Call
    <3>3. QED
      BY <3>1, <3>2 DEF Call
  <2>3. GoTo(s, "flushing", c)
    <3>1. pc' = pc /\ pc[s] = "flushing"
      BY <1>17 DEF Flush
    <3>2. pc' = [pc EXCEPT ![s] = "flushing"]
      BY <3>1 DEF TypeOK
    <3>3. call' = [call EXCEPT ![s] = c]
      BY <2>1
    <3>4. QED
      BY <3>2, <3>3 DEF GoTo
  <2> HIDE DEF c
  <2>4. disk' \in [Table -> Content]
    BY <2>1, <2>2 DEF TypeOK
  <2>5. status[s] = "active" /\ guard # s /\ Len(log[s]) <= MaxChanges
    BY <1>17 DEF Flush, TypeOK
  <2>6. Locks!TableTypeOK'
    BY <1>17 DEF Flush, TypeOK, lockVars, Locks!TableTypeOK
  <2>7. QED
    BY <1>17, <1>r, <2>2, <2>3, <2>4, <2>5, <2>6, StepKeepsTypes
       DEF Flush, Location, Rest, TypeOK, txnVars
<1>18. ASSUME NEW s \in Session, Confirmed(s) PROVE TypeOK'
  <2>1. guard # s
    BY <1>18 DEF Confirmed, TypeOK
  <2>2. QED
    BY <1>18, <2>1, EndKeepsTypes DEF Confirmed
<1>19. ASSUME NEW s \in Session, ConfirmFails(s) PROVE TypeOK'
  <2>1. status[s] = "active" /\ guard # s
    BY <1>19 DEF ConfirmFails, TypeOK
  <2>2. QED
    BY <1>19, <1>u, <2>1 DEF ConfirmFails, lockVars, txnVars
<1>20. ASSUME Evict PROVE TypeOK'
  <2>1. PICK t \in Table, k \in Key : disk' = [disk EXCEPT ![t][k] = rows[t][k]]
    BY <1>20 DEF Evict
  <2>2. disk' \in [Table -> Content]
    BY <2>1 DEF TypeOK, Content
  <2>3. QED
    BY <1>20, <2>2 DEF Evict, TypeOK, lockVars, txnVars, Locks!TableTypeOK
<1>21. ASSUME UNCHANGED vars PROVE TypeOK'
  BY <1>21 DEF vars, lockVars, txnVars, TypeOK, Locks!TableTypeOK
<1>22. ASSUME NEW s \in Session, Ask(s) PROVE TypeOK'
  BY <1>1, <1>2, <1>3, <1>4, <1>22 DEF Ask
<1>23. ASSUME NEW s \in Session, Step(s) PROVE TypeOK'
  BY <1>5, <1>6, <1>7, <1>9, <1>10, <1>11, <1>12, <1>13, <1>14, <1>15, <1>16, <1>17,
     <1>18, <1>19, <1>23 DEF Step
<1>24. QED
  BY <1>8, <1>20, <1>21, <1>22, <1>23 DEF Next

\* The state has its shape in every reachable state: a session is active exactly
\* while it is in a transaction, its log never ends before the statement it is
\* in began, and the guard belongs to the session that is in a DDL statement.
THEOREM TypeCorrect == Spec => []TypeOK
<1>1. Init => TypeOK
  BY InitTypes
<1>2. TypeOK /\ [Next]_vars => TypeOK'
  BY NextKeepsTypes
<1>3. QED
  BY <1>1, <1>2, PTL DEF Spec

-----------------------------------------------------------------------------
(* The safety properties, from the type invariant and from the discipline     *)
(* every session follows with its locks and its log.                          *)

\* What a session keeps at every step, whatever the others do.
Discipline(s) ==
  /\ status[s] # "active" => s \notin refused /\ \A t \in Table : held[t][s] = "none"
  /\ \A t \in Touched(s) : held[t][s] = "exclusive"
  /\ pc[s] \in {"locking", "running"} /\ call[s].kind = "write" =>
       \A t \in call[s].tables \ call[s].todo : held[t][s] = "exclusive"
  /\ pc[s] = "running" => call[s].todo = {}
  /\ ~explicit[s] /\ (pc[s] = "idle" \/ call[s].kind = "inspect") => log[s] = <<>>

\* Locks exclude: who has a table to write has it alone.
Exclusive ==
  \A t \in Table, s \in Session : \A u \in Session \ {s} :
    held[t][s] = "exclusive" => held[t][u] = "none"

\* All that one session shows of itself.
Untouched(u) ==
  /\ explicit'[u] = explicit[u] /\ status'[u] = status[u]
  /\ pc'[u] = pc[u] /\ call'[u] = call[u] /\ log'[u] = log[u]
  /\ u \in refused' <=> u \in refused
  /\ \A t \in Table : held'[t][u] = held[t][u]

\* No step of a session shows in the place, the log or the locks of another.
LEMMA OthersAreUntouched ==
  ASSUME TypeOK, NEW s \in Session, Ask(s) \/ Step(s) \/ ChangeRow(s),
         NEW u \in Session \ {s}
  PROVE  Untouched(u)
<1> USE DEF Untouched, TypeOK, GoTo, StartUndo, lockVars, txnVars
<1>0. ASSUME NEW state, End(s, state) PROVE Untouched(u)
  BY <1>0 DEF End, Locks!LetGo, Locks!None, Locks!TableTypeOK
<1>1. ASSUME Ask(s) PROVE Untouched(u)
  BY <1>1 DEF Ask, Begin, Commit, Rollback, Start
<1>2. ASSUME Lock(s) PROVE Untouched(u)
  BY <1>2 DEF Lock, Locks!Take, Locks!TableTypeOK
<1>3. ASSUME LockFails(s) PROVE Untouched(u)
  BY <1>3 DEF LockFails, Locks!Refuse
<1>4. ASSUME Run(s) \/ ChangeRow(s) PROVE Untouched(u)
  BY <1>4 DEF Run, ChangeRow
<1>5. ASSUME Succeed(s) \/ Fail(s) \/ FailInspect(s) PROVE Untouched(u)
  BY <1>5, <1>0 DEF Succeed, Fail, FailInspect
<1>6. ASSUME OpenForUndo(s) \/ Revert(s) \/ Reverted(s) \/ UndoFails(s) PROVE Untouched(u)
  BY <1>6, <1>0 DEF OpenForUndo, Revert, Reverted, UndoFails
<1>7. ASSUME OpenForFlush(s) \/ Flush(s) \/ Confirmed(s) \/ ConfirmFails(s)
      PROVE  Untouched(u)
  BY <1>7, <1>0 DEF OpenForFlush, Flush, Confirmed, ConfirmFails
<1>8. QED
  BY <1>1, <1>2, <1>3, <1>4, <1>5, <1>6, <1>7 DEF Step

LEMMA TouchedAreTables ==
  ASSUME TypeOK, NEW s \in Session
  PROVE  Touched(s) \subseteq Table
<1>1. \A i \in DOMAIN log[s] : log[s][i] \in Change
  BY DEF TypeOK
<1>2. QED
  BY <1>1 DEF Touched, Change

-----------------------------------------------------------------------------
\* A transaction that ends leaves nothing behind: no lock, no log.
LEMMA EndKeepsDiscipline ==
  ASSUME TypeOK, NEW s \in Session, NEW state \in {"committed", "aborted"}, End(s, state)
  PROVE  Discipline(s)'
<1>1. s \notin refused' /\ \A t \in Table : held'[t][s] = "none"
  BY DEF End, TypeOK, Locks!LetGo, Locks!None, Locks!TableTypeOK
<1>2. log'[s] = <<>> /\ Touched(s)' = {}
  BY DEF End, TypeOK, Touched
<1>3. pc'[s] = "idle"
  BY DEF End, GoTo, TypeOK
<1>4. QED
  BY <1>1, <1>2, <1>3 DEF Discipline

\* A step that only moves the session within its transaction.
LEMMA MoveKeepsDiscipline ==
  ASSUME TypeOK, NEW s \in Session, Discipline(s), NEW location, NEW c,
         GoTo(s, location, c), status[s] = "active",
         UNCHANGED <<held, explicit, status, log>>,
         location = "locking" => c.todo = c.tables,
         location = "running" => c.todo = {} /\ c = call[s] /\ pc[s] = "locking",
         location = "idle" => explicit[s],
         c.kind = "inspect" => c = call[s]
  PROVE  Discipline(s)'
<1>1. pc'[s] = location /\ call'[s] = c
  BY DEF GoTo, TypeOK
<1>2. Touched(s)' = Touched(s)
  BY DEF Touched
<1>3. QED
  BY <1>1, <1>2 DEF Discipline

\* The start of an undo is such a move.
LEMMA UndoKeepsDiscipline ==
  ASSUME TypeOK, NEW s \in Session, Discipline(s), NEW goal, StartUndo(s, goal),
         status[s] = "active", UNCHANGED <<held, explicit, status, log>>
  PROVE  Discipline(s)'
<1>1. NoCall.kind = "read"
  BY DEF NoCall
<1>2. [NoCall EXCEPT !.first = call[s].first, !.goal = goal].kind = "read"
  BY DEF NoCall
<1>3. PICK c : GoTo(s, "opening", c) /\ c.kind = "read"
  BY <1>1, <1>2 DEF StartUndo
<1>4. QED
  BY <1>3, MoveKeepsDiscipline

\* Every step of a session keeps its discipline.
LEMMA StepKeepsDiscipline ==
  ASSUME TypeOK, NEW s \in Session, Discipline(s), Ask(s) \/ Step(s) \/ ChangeRow(s)
  PROVE  Discipline(s)'
<1>0. /\ NoCall.kind = "read" /\ NoCall.todo = NoCall.tables
      /\ call[s] \in Call /\ log[s] \in Seq(Change)
      /\ pc[s] # "idle" \/ explicit[s] => status[s] = "active"
  BY DEF TypeOK, NoCall
<1>1. ASSUME Begin(s) PROVE Discipline(s)'
  BY <1>1 DEF Begin, TypeOK, Discipline, Touched, lockVars
<1>2. ASSUME Commit(s) PROVE Discipline(s)'
  BY <1>0, <1>2, MoveKeepsDiscipline DEF Commit, lockVars, txnVars
<1>3. ASSUME Rollback(s) PROVE Discipline(s)'
  BY <1>0, <1>3, UndoKeepsDiscipline DEF Rollback, lockVars, txnVars
<1>4. ASSUME NEW kind \in Kinds, NEW tables \in (SUBSET Table) \ {{}},
             Start(s, kind, tables)
      PROVE  Discipline(s)'
  <2> DEFINE c == [NoCall EXCEPT !.kind = kind, !.tables = tables,
                                 !.todo = tables, !.first = Len(log[s])]
  <2>1. c.todo = c.tables
    BY DEF NoCall
  <2>2. pc'[s] = "locking" /\ call'[s] = c /\ status'[s] = "active"
    BY <1>4 DEF Start, GoTo, TypeOK
  <2> HIDE DEF c
  <2>3. /\ Touched(s)' = Touched(s)
        /\ ~explicit[s] => log[s] = <<>>
    BY <1>4 DEF Start, Touched, Discipline
  <2>4. QED
    BY <1>4, <2>1, <2>2, <2>3 DEF Start, Discipline, lockVars
<1>5. ASSUME Lock(s) PROVE Discipline(s)'
  <2>1. /\ pc[s] = "locking" /\ status[s] = "active"
        /\ UNCHANGED <<pc, explicit, status, log>>
    BY <1>0, <1>5 DEF Lock, MustLock, txnVars
  <2>2. /\ call'[s] = [call[s] EXCEPT !.todo = @ \ {NextToLock(s)}]
        /\ call'[s].tables = call[s].tables /\ call'[s].kind = call[s].kind
        /\ call'[s].todo = call[s].todo \ {NextToLock(s)}
    BY <1>0, <1>5 DEF Lock, TypeOK, Call
  <2>3. \A t \in Table : held[t][s] = "exclusive" => held'[t][s] = "exclusive"
    BY <1>5 DEF Lock, Locks!Take, Locks!Stronger, TypeOK, Locks!TableTypeOK
  <2>4. call[s].kind = "write" /\ NextToLock(s) \in Table
          => held'[NextToLock(s)][s] = "exclusive"
    BY <1>5 DEF Lock, LockMode, Locks!Take, Locks!Stronger, TypeOK, Locks!TableTypeOK
  <2>5. call[s].tables \subseteq Table /\ Touched(s)' = Touched(s)
    BY <1>0, <1>5 DEF Lock, Call, Touched
  <2>6. \A t \in Touched(s) : t \in Table
    BY TouchedAreTables
  <2>7. \A t \in Touched(s) : t \in Table /\ held[t][s] = "exclusive"
    BY <2>6 DEF Discipline
  <2>8. ASSUME call'[s].kind = "write", NEW t \in call'[s].tables \ call'[s].todo
        PROVE  held'[t][s] = "exclusive"
    BY <2>1, <2>2, <2>3, <2>4, <2>5, <2>8 DEF Discipline
  <2>9. QED
    BY <2>1, <2>2, <2>3, <2>5, <2>7, <2>8 DEF Discipline
<1>6. ASSUME LockFails(s) PROVE Discipline(s)'
  BY <1>0, <1>6, UndoKeepsDiscipline DEF LockFails, MustLock, Locks!Refuse, txnVars
<1>7. ASSUME Run(s) PROVE Discipline(s)'
  BY <1>0, <1>7, MoveKeepsDiscipline DEF Run, lockVars, txnVars
<1>8. ASSUME ChangeRow(s) PROVE Discipline(s)'
  <2>1. PICK t \in call[s].tables, k \in Key, v \in Value \cup {Absent} :
          log' = [log EXCEPT ![s] = Append(@,
            [table |-> t, key |-> k, before |-> rows[t][k], after |-> v])]
    BY <1>8 DEF ChangeRow
  <2>2. log'[s] = Append(log[s], [table |-> t, key |-> k, before |-> rows[t][k], after |-> v])
    BY <2>1 DEF TypeOK
  <2>3. Touched(s)' \subseteq Touched(s) \cup {t}
    <3>1. \A i \in DOMAIN log'[s] :
            \/ i \in DOMAIN log[s] /\ log'[s][i] = log[s][i]
            \/ log'[s][i].table = t
      BY <1>0, <2>2
    <3>2. QED
      BY <3>1 DEF Touched
  <2>4. held[t][s] = "exclusive"
    BY <1>8, <2>1 DEF ChangeRow, Discipline
  <2>5. QED
    BY <1>0, <1>8, <2>3, <2>4 DEF ChangeRow, Discipline, lockVars, txnVars
<1>9. ASSUME Succeed(s) PROVE Discipline(s)'
  <2>1. CASE ~explicit[s] /\ call[s].kind = "inspect"
    BY <1>9, <2>1, EndKeepsDiscipline DEF Succeed
  <2>2. CASE ~(~explicit[s] /\ call[s].kind = "inspect")
    BY <1>0, <1>9, <2>2, MoveKeepsDiscipline DEF Succeed, lockVars, txnVars
  <2>3. QED
    BY <2>1, <2>2
<1>10. ASSUME Fail(s) PROVE Discipline(s)'
  BY <1>0, <1>10, UndoKeepsDiscipline DEF Fail, StatementFails, lockVars, txnVars
<1>11. ASSUME FailInspect(s) PROVE Discipline(s)'
  <2>1. CASE ~explicit[s]
    BY <1>11, <2>1, EndKeepsDiscipline DEF FailInspect
  <2>2. CASE explicit[s]
    BY <1>0, <1>11, <2>2, MoveKeepsDiscipline DEF FailInspect, lockVars, txnVars
  <2>3. QED
    BY <2>1, <2>2
<1>12. ASSUME OpenForUndo(s) PROVE Discipline(s)'
  BY <1>0, <1>12, MoveKeepsDiscipline DEF OpenForUndo, lockVars, txnVars
<1>13. ASSUME Revert(s) PROVE Discipline(s)'
  <2>1. log'[s] = SubSeq(log[s], 1, Len(log[s]) - 1)
    BY <1>13 DEF Revert, TypeOK
  <2>2. Touched(s)' \subseteq Touched(s)
    <3>1. \A i \in DOMAIN log'[s] : i \in DOMAIN log[s] /\ log'[s][i] = log[s][i]
      BY <1>0, <2>1
    <3>2. QED
      BY <3>1 DEF Touched
  <2>3. log[s] = <<>> => log'[s] = <<>>
    BY <1>0, <2>1
  <2>4. QED
    BY <1>0, <1>13, <2>2, <2>3 DEF Revert, Discipline, lockVars, txnVars
<1>14. ASSUME Reverted(s) PROVE Discipline(s)'
  <2>1. CASE call[s].goal = "everything"
    BY <1>14, <2>1, EndKeepsDiscipline DEF Reverted
  <2>2. CASE call[s].goal # "everything"
    <3>1. explicit[s]
      BY <1>0, <2>2 DEF TypeOK, Call
    <3>2. QED
      BY <1>0, <1>14, <2>2, <3>1, MoveKeepsDiscipline DEF Reverted, lockVars, txnVars
  <2>3. QED
    BY <2>1, <2>2
<1>15. ASSUME UndoFails(s) PROVE Discipline(s)'
  <2>1. CASE call[s].goal = "everything"
    BY <1>15, <2>1, EndKeepsDiscipline DEF UndoFails
  <2>2. CASE call[s].goal # "everything"
    BY <1>0, <1>15, <2>2, UndoKeepsDiscipline DEF UndoFails, lockVars, txnVars
  <2>3. QED
    BY <2>1, <2>2
<1>16. ASSUME OpenForFlush(s) PROVE Discipline(s)'
  <2>1. [NoCall EXCEPT !.todo = Touched(s)].kind = "read"
    BY DEF NoCall
  <2>2. PICK c : GoTo(s, "flushing", c) /\ c.kind = "read"
    BY <1>16, <2>1 DEF OpenForFlush
  <2>3. QED
    BY <1>0, <1>16, <2>2, MoveKeepsDiscipline DEF OpenForFlush, lockVars, txnVars
<1>17. ASSUME Flush(s) PROVE Discipline(s)'
  <2>1. pc[s] = "flushing" /\ UNCHANGED <<held, refused, explicit, status, pc, log>>
        /\ call'[s].kind = call[s].kind
    BY <1>0, <1>17 DEF Flush, TypeOK, lockVars, txnVars
  <2>2. Touched(s)' = Touched(s)
    BY <2>1 DEF Touched
  <2>3. QED
    BY <2>1, <2>2 DEF Discipline
<1>18. ASSUME Confirmed(s) PROVE Discipline(s)'
  BY <1>18, EndKeepsDiscipline DEF Confirmed
<1>19. ASSUME ConfirmFails(s) PROVE Discipline(s)'
  BY <1>0, <1>19, UndoKeepsDiscipline DEF ConfirmFails, lockVars, txnVars
<1>20. QED
  BY <1>1, <1>2, <1>3, <1>4, <1>5, <1>6, <1>7, <1>8, <1>9, <1>10, <1>11, <1>12, <1>13,
     <1>14, <1>15, <1>16, <1>17, <1>18, <1>19 DEF Ask, Step

-----------------------------------------------------------------------------
\* Locks exclude each other after every step, because Take asks for it.
LEMMA StepKeepsExclusive ==
  ASSUME TypeOK, Exclusive, NEW s \in Session, Ask(s) \/ Step(s) \/ ChangeRow(s)
  PROVE  Exclusive'
<1>1. ASSUME NEW state, End(s, state) PROVE Exclusive'
  BY <1>1 DEF End, Exclusive, Locks!LetGo, Locks!None, TypeOK, Locks!TableTypeOK
<1>2. ASSUME Lock(s) PROVE Exclusive'
  BY <1>2 DEF Lock, LockMode, Exclusive, Locks!Take, Locks!Compatible, Locks!Stronger,
     Locks!None, TypeOK, Locks!TableTypeOK, Locks!Mode
<1>3. ASSUME UNCHANGED held PROVE Exclusive'
  BY <1>3 DEF Exclusive
<1>4. ASSUME Ask(s) PROVE Exclusive'
  BY <1>3, <1>4 DEF Ask, Begin, Commit, Rollback, Start, lockVars
<1>5. ASSUME Step(s) /\ ~Lock(s) PROVE UNCHANGED held \/ \E state : End(s, state)
  BY <1>5 DEF Step, LockFails, Locks!Refuse, Run, Succeed, Fail, FailInspect, OpenForUndo,
     Revert, Reverted, UndoFails, OpenForFlush, Flush, Confirmed, ConfirmFails, lockVars
<1>6. ASSUME ChangeRow(s) PROVE Exclusive'
  BY <1>3, <1>6 DEF ChangeRow, lockVars
<1>7. QED
  BY <1>1, <1>2, <1>3, <1>4, <1>5, <1>6

\* The inductive invariant.
Isolated == TypeOK /\ Exclusive /\ \A s \in Session : Discipline(s)

THEOREM SessionsAreIsolated == Spec => []Isolated
<1>1. Init => Isolated
  <2> SUFFICES ASSUME Init PROVE Exclusive /\ \A s \in Session : Discipline(s)
    BY InitTypes DEF Isolated
  <2>1. \A t \in Table, s \in Session : held[t][s] = "none"
    BY DEF Init, Locks!TableInit, Locks!NothingHeld, Locks!None
  <2>2. \A s \in Session : s \notin refused /\ log[s] = <<>> /\ pc[s] = "idle"
    BY DEF Init, Locks!TableInit
  <2>3. \A s \in Session : Touched(s) = {}
    <3>1. <<>> \in Seq(Change) /\ Len(<<>>) = 0 /\ DOMAIN <<>> = 1..0
      OBVIOUS
    <3>2. 1..0 = {}
      OBVIOUS
    <3>3. \A s \in Session : DOMAIN log[s] = {}
      BY <2>2, <3>1, <3>2
    <3>4. QED
      BY <3>3 DEF Touched
  <2>4. QED
    BY <2>1, <2>2, <2>3 DEF Exclusive, Discipline
<1>2. Isolated /\ [Next]_vars => Isolated'
  <2> SUFFICES ASSUME Isolated, [Next]_vars PROVE Isolated'
    OBVIOUS
  <2>1. TypeOK /\ Exclusive /\ \A u \in Session : Discipline(u)
    BY DEF Isolated
  <2>2. TypeOK'
    BY <2>1, NextKeepsTypes
  <2>3. ASSUME NEW s \in Session, Ask(s) \/ Step(s) \/ ChangeRow(s)
        PROVE  Exclusive' /\ \A u \in Session : Discipline(u)'
    <3>1. Exclusive'
      BY <2>1, <2>3, StepKeepsExclusive
    <3>2. Discipline(s)'
      BY <2>1, <2>3, StepKeepsDiscipline
    <3>3. ASSUME NEW u \in Session \ {s} PROVE Discipline(u)'
      <4>1. Discipline(u) /\ Untouched(u) /\ Touched(u) \subseteq Table /\ call[u] \in Call
        BY <2>1, <2>3, OthersAreUntouched, TouchedAreTables DEF TypeOK
      <4>2. Touched(u)' = Touched(u)
        BY <4>1 DEF Untouched, Touched
      <4>3. QED
        BY <4>1, <4>2 DEF Untouched, Discipline, Call
    <3>4. QED
      BY <3>1, <3>2, <3>3
  <2>4. ASSUME Evict \/ UNCHANGED vars
        PROVE  Exclusive' /\ \A u \in Session : Discipline(u)'
    <3>1. UNCHANGED <<held, refused, explicit, status, pc, call, log>>
      BY <2>4 DEF Evict, vars, lockVars, txnVars
    <3>2. QED
      BY <2>1, <3>1 DEF Exclusive, Discipline, Touched
  <2>5. QED
    BY <2>2, <2>3, <2>4 DEF Next, Isolated
<1>3. QED
  BY <1>1, <1>2, PTL DEF Spec

\* "Terminar una transaccion siempre suelta sus bloqueos", whatever fails in it.
THEOREM LocksEndWithTheirTransaction == Spec => []NoLockIsLeaked
<1>1. Isolated => NoLockIsLeaked
  BY DEF Isolated, Discipline, NoLockIsLeaked
<1>2. QED
  BY <1>1, SessionsAreIsolated, PTL

\* A row is changed, or put back, only under the exclusive lock of its table.
THEOREM ChangesAreAlwaysLocked == Spec => []ChangesAreLocked
<1>1. Isolated => ChangesAreLocked
  BY DEF Isolated, Discipline, ChangesAreLocked
<1>2. QED
  BY <1>1, SessionsAreIsolated, PTL

-----------------------------------------------------------------------------
\* Whoever changes a table has its exclusive lock and notes it in its log.
LEMMA RowsChangeUnderLock ==
  ASSUME TypeOK, NEW u \in Session, Discipline(u), Ask(u) \/ Step(u) \/ ChangeRow(u),
         NEW t \in Table, rows'[t] # rows[t]
  PROVE  /\ held[t][u] = "exclusive" /\ log'[u] # log[u]
         /\ pc[u] \in {"running", "reverting"} /\ pc'[u] = pc[u] /\ disk' = disk
<1>0. log[u] \in Seq(Change) /\ Len(log[u]) \in Nat
  BY DEF TypeOK
<1>1. CASE ChangeRow(u)
  <2>1. PICK w \in call[u].tables, k \in Key, v \in Value \cup {Absent} :
          /\ rows' = [rows EXCEPT ![w][k] = v]
          /\ log' = [log EXCEPT ![u] = Append(@,
               [table |-> w, key |-> k, before |-> rows[w][k], after |-> v])]
    BY <1>1 DEF ChangeRow
  <2>2. w = t
    BY <2>1 DEF TypeOK
  <2>3. held[t][u] = "exclusive"
    BY <1>1, <2>1, <2>2 DEF ChangeRow, Discipline
  <2>4. Len(log'[u]) = Len(log[u]) + 1
    BY <1>0, <2>1 DEF TypeOK
  <2>5. log'[u] # log[u]
    BY <1>0, <2>4
  <2>6. pc[u] = "running" /\ UNCHANGED <<pc, disk>>
    BY <1>1 DEF ChangeRow
  <2>7. QED
    BY <2>3, <2>5, <2>6
<1>2. CASE Revert(u)
  <2>1. /\ log'[u] = SubSeq(log[u], 1, Len(log[u]) - 1)
        /\ Len(log[u]) > call[u].first /\ call[u].first \in Nat
    BY <1>2 DEF Revert, TypeOK, Call
  <2>2. Len(log[u]) \in DOMAIN log[u] /\ Len(log'[u]) = Len(log[u]) - 1
    BY <1>0, <2>1
  <2>3. LastChange(u).table = t
    BY <1>2 DEF Revert, TypeOK
  <2>4. t \in Touched(u)
    BY <2>2, <2>3 DEF Touched, LastChange
  <2>5. log'[u] # log[u]
    BY <1>0, <2>2
  <2>6. pc[u] = "reverting" /\ UNCHANGED <<pc, disk>>
    BY <1>2 DEF Revert
  <2>7. QED
    BY <2>4, <2>5, <2>6 DEF Discipline
<1>3. CASE Ask(u)
  BY <1>3 DEF Ask, Begin, Commit, Rollback, Start
<1>4. CASE Step(u) /\ ~Revert(u)
  BY <1>4 DEF Step, Lock, LockFails, Run, Succeed, Fail, FailInspect, OpenForUndo,
     Reverted, UndoFails, OpenForFlush, Flush, Confirmed, ConfirmFails, End
<1>5. QED
  BY <1>1, <1>2, <1>3, <1>4

\* From the moment a transaction locks a table until it ends, only the
\* transaction itself changes it.
THEOREM ReadsAreAlwaysRepeatable == Spec => ReadsAreRepeatable
<1> DEFINE OwnChange(s, t) ==
      (held[t][s] # "none" /\ held'[t][s] # "none" /\ rows'[t] # rows[t])
         => log'[s] # log[s]
<1>1. ASSUME Isolated, [Next]_vars
      PROVE  [\A s \in Session, t \in Table : OwnChange(s, t)]_vars
  <2> SUFFICES ASSUME Next, NEW s \in Session, NEW t \in Table, held[t][s] # "none",
                      rows'[t] # rows[t]
               PROVE  log'[s] # log[s]
    BY <1>1
  <2>1. PICK u \in Session : Ask(u) \/ Step(u) \/ ChangeRow(u)
    BY DEF Next, Evict
  <2>2. held[t][u] = "exclusive" /\ log'[u] # log[u]
    BY <1>1, <2>1, RowsChangeUnderLock DEF Isolated
  <2>3. s = u
    BY <1>1, <2>2 DEF Isolated, Exclusive
  <2>4. QED
    BY <2>2, <2>3
<1>2. QED
  BY <1>1, SessionsAreIsolated, PTL DEF Spec, ReadsAreRepeatable

-----------------------------------------------------------------------------
\* While a transaction is being confirmed, what it has flushed stays flushed.
FlushedSoFar(s) ==
  pc[s] = "flushing" => \A t \in Touched(s) \ call[s].todo : disk[t] = rows[t]

LEMMA DiskChanges ==
  ASSUME NEW u \in Session, Ask(u) \/ Step(u) \/ ChangeRow(u)
  PROVE  disk' = disk \/ Flush(u)
<1>1. CASE Ask(u)
  BY <1>1 DEF Ask, Begin, Commit, Rollback, Start
<1>2. CASE Step(u) /\ ~Flush(u)
  BY <1>2 DEF Step, Lock, LockFails, Run, Succeed, Fail, FailInspect, OpenForUndo, Revert,
     Reverted, UndoFails, OpenForFlush, Confirmed, ConfirmFails, End
<1>3. CASE ChangeRow(u)
  BY <1>3 DEF ChangeRow
<1>4. QED
  BY <1>1, <1>2, <1>3

LEMMA FlushKeepsDisk ==
  ASSUME TypeOK, NEW u \in Session, Flush(u), NEW t \in Table
  PROVE  rows' = rows /\ (disk'[t] = disk[t] \/ disk'[t] = rows[t])
<1>1. PICK w \in call[u].todo : disk' = [disk EXCEPT ![w] = rows[w]]
  BY DEF Flush
<1>2. QED
  BY <1>1 DEF Flush, TypeOK

\* The places a session comes to flush from.
LEMMA WhoFlushes ==
  ASSUME TypeOK, NEW s \in Session, Ask(s) \/ Step(s) \/ ChangeRow(s), pc'[s] = "flushing"
  PROVE  OpenForFlush(s) \/ Flush(s)
<1> USE DEF GoTo, StartUndo, TypeOK, End, txnVars
<1>1. CASE Ask(s)
  BY <1>1 DEF Ask, Begin, Commit, Rollback, Start
<1>2. CASE Lock(s) \/ LockFails(s) \/ Run(s) \/ ChangeRow(s)
  BY <1>2 DEF Lock, MustLock, LockFails, Run, ChangeRow
<1>3. CASE Succeed(s) \/ Fail(s) \/ FailInspect(s)
  BY <1>3 DEF Succeed, Fail, FailInspect
<1>4. CASE OpenForUndo(s) \/ Revert(s) \/ Reverted(s) \/ UndoFails(s)
  BY <1>4 DEF OpenForUndo, Revert, Reverted, UndoFails
<1>5. CASE Confirmed(s) \/ ConfirmFails(s)
  BY <1>5 DEF Confirmed, ConfirmFails
<1>6. QED
  BY <1>1, <1>2, <1>3, <1>4, <1>5 DEF Step

THEOREM FlushesStay == Spec => []\A s \in Session : FlushedSoFar(s)
<1> DEFINE Flushed == \A s \in Session : FlushedSoFar(s)
<1>1. Init => Flushed
  BY DEF Init, FlushedSoFar
<1>2. ASSUME Isolated, Flushed, [Next]_vars PROVE Flushed'
  <2> SUFFICES ASSUME NEW s \in Session, pc'[s] = "flushing",
                      NEW t \in Touched(s)', t \notin call'[s].todo
               PROVE  disk'[t] = rows'[t]
    BY DEF FlushedSoFar
  <2>0. TypeOK /\ TypeOK' /\ Exclusive /\ \A u \in Session : Discipline(u)
    BY <1>2, NextKeepsTypes DEF Isolated
  <2>1. ASSUME NEW u \in Session, Ask(u) \/ Step(u) \/ ChangeRow(u), u # s
        PROVE  disk'[t] = rows'[t]
    <3>1. Untouched(s)
      BY <2>0, <2>1, OthersAreUntouched
    <3>2. Touched(s)' = Touched(s)
      BY <3>1 DEF Untouched, Touched
    <3>3. t \in Table /\ disk[t] = rows[t] /\ held[t][s] = "exclusive"
      BY <1>2, <2>0, <3>1, <3>2, TouchedAreTables DEF Untouched, FlushedSoFar, Discipline
    <3>4. held[t][u] = "none"
      BY <2>0, <2>1, <3>3 DEF Exclusive
    <3>5. rows'[t] = rows[t]
      BY <2>0, <2>1, <3>3, <3>4, RowsChangeUnderLock
    <3>6. QED
      BY <2>0, <2>1, <3>3, <3>5, DiskChanges, FlushKeepsDisk
  <2>2. ASSUME Ask(s) \/ Step(s) \/ ChangeRow(s) PROVE disk'[t] = rows'[t]
    <3>1. CASE OpenForFlush(s)
      <4>1. call'[s].todo = Touched(s) /\ log' = log
        BY <2>0, <3>1 DEF OpenForFlush, GoTo, TypeOK, NoCall
      <4>2. Touched(s)' = Touched(s)
        BY <4>1 DEF Touched
      <4>3. QED
        BY <4>1, <4>2
    <3>2. CASE Flush(s)
      <4>1. PICK w \in call[s].todo : /\ disk' = [disk EXCEPT ![w] = rows[w]]
                                      /\ call' = [call EXCEPT ![s].todo = @ \ {w}]
        BY <3>2 DEF Flush
      <4>2. Touched(s)' = Touched(s) /\ pc[s] = "flushing" /\ rows' = rows
        BY <3>2 DEF Flush, Touched
      <4>3. t \in Table
        BY <2>0, <4>2, TouchedAreTables
      <4>4. call'[s].todo = call[s].todo \ {w}
        BY <2>0, <4>1 DEF TypeOK, Call
      <4>5. CASE t = w
        BY <2>0, <4>1, <4>2, <4>3, <4>5 DEF TypeOK
      <4>6. CASE t # w
        <5>1. disk[t] = rows[t]
          BY <1>2, <4>2, <4>4, <4>6 DEF FlushedSoFar
        <5>2. QED
          BY <2>0, <4>1, <4>2, <4>3, <4>6, <5>1 DEF TypeOK
      <4>7. QED
        BY <4>5, <4>6
    <3>3. QED
      BY <2>0, <2>2, <3>1, <3>2, WhoFlushes
  <2>3. ASSUME Evict \/ UNCHANGED vars PROVE disk'[t] = rows'[t]
    <3>1. UNCHANGED <<pc, call, log, rows>>
      BY <2>3 DEF Evict, vars
    <3>2. Touched(s)' = Touched(s)
      BY <3>1 DEF Touched
    <3>3. t \in Table /\ disk[t] = rows[t]
      BY <1>2, <2>0, <3>1, <3>2, TouchedAreTables DEF FlushedSoFar
    <3>4. disk'[t] = disk[t]
      <4>1. CASE Evict
        <5>1. PICK w \in Table, k \in Key : disk' = [disk EXCEPT ![w][k] = rows[w][k]]
          BY <4>1 DEF Evict
        <5>2. CASE w = t
          <6>1. disk[t] \in Content /\ disk'[t] = [disk[t] EXCEPT ![k] = disk[t][k]]
            BY <2>0, <3>3, <5>1, <5>2 DEF TypeOK
          <6>2. QED
            BY <6>1 DEF Content
        <5>3. CASE w # t
          BY <2>0, <3>3, <5>1, <5>3 DEF TypeOK
        <5>4. QED
          BY <5>2, <5>3
      <4>2. CASE UNCHANGED vars
        BY <4>2 DEF vars
      <4>3. QED
        BY <2>3, <4>1, <4>2
    <3>5. QED
      BY <3>1, <3>3, <3>4
  <2>4. QED
    BY <1>2, <2>1, <2>2, <2>3 DEF Next
<1>3. QED
  BY <1>1, <1>2, SessionsAreIsolated, PTL DEF Spec

\* When a transaction becomes committed all it changed is on disk, whatever
\* failed before and whatever the pool wrote meanwhile.
THEOREM CommitsAreOnDisk == Spec => CommitIsOnDisk
<1> DEFINE OnDisk(s) ==
      status[s] = "active" /\ status'[s] = "committed"
        => \A t \in Touched(s) : disk'[t] = rows[t]
<1>1. ASSUME Isolated, \A s \in Session : FlushedSoFar(s), [Next]_vars
      PROVE  [\A s \in Session : OnDisk(s)]_vars
  <2> SUFFICES ASSUME Next, NEW s \in Session, status[s] = "active",
                      status'[s] = "committed", NEW t \in Touched(s)
               PROVE  disk'[t] = rows[t]
    BY <1>1
  <2>1. Ask(s) \/ Step(s) \/ ChangeRow(s)
    BY <1>1, OthersAreUntouched DEF Isolated, Next, Evict, txnVars, Untouched
  <2>2. Confirmed(s) \/ ((Succeed(s) \/ FailInspect(s)) /\ ~explicit[s] /\ call[s].kind = "inspect")
    <3> USE DEF End, txnVars
    <3>0. status \in [Session -> {"active", "committed", "aborted"}]
      BY <1>1 DEF Isolated, TypeOK
    <3>1. CASE Ask(s)
      BY <3>0, <3>1 DEF Ask, Begin, Commit, Rollback, Start
    <3>2. CASE Lock(s) \/ LockFails(s) \/ Run(s) \/ ChangeRow(s) \/ Fail(s)
      BY <3>2 DEF Lock, LockFails, Run, ChangeRow, Fail
    <3>3. CASE Succeed(s) \/ FailInspect(s)
      BY <3>3 DEF Succeed, FailInspect
    <3>4. CASE OpenForUndo(s) \/ Revert(s) \/ Reverted(s) \/ UndoFails(s)
      BY <3>0, <3>4 DEF OpenForUndo, Revert, Reverted, UndoFails
    <3>5. CASE OpenForFlush(s) \/ Flush(s) \/ ConfirmFails(s)
      BY <3>5 DEF OpenForFlush, Flush, ConfirmFails
    <3>6. QED
      BY <2>1, <3>1, <3>2, <3>3, <3>4, <3>5 DEF Step
  <2>3. CASE Confirmed(s)
    BY <1>1, <2>3 DEF Confirmed, End, FlushedSoFar
  <2>4. CASE ~explicit[s] /\ call[s].kind = "inspect"
    <3>1. log[s] = <<>>
      BY <1>1, <2>4 DEF Isolated, Discipline
    <3>2. <<>> \in Seq(Change) /\ Len(<<>>) = 0 /\ DOMAIN <<>> = 1..0 /\ 1..0 = {}
      OBVIOUS
    <3>3. DOMAIN log[s] = {}
      BY <3>1, <3>2
    <3>4. QED
      BY <3>3 DEF Touched
  <2>5. QED
    BY <2>2, <2>3, <2>4
<1>2. QED
  BY <1>1, SessionsAreIsolated, FlushesStay, PTL DEF Spec, CommitIsOnDisk

=============================================================================
