------------------------- MODULE DefinitionsProofs -------------------------
(* Proofs about Definitions: catalog, open tables and files agree after every *)
(* statement, whichever step of a CREATE raised.                              *)
EXTENDS Definitions, TLAPS, SequenceTheorems

-----------------------------------------------------------------------------
(* Lists of steps, one step at a time.                                      *)

IsList(list) == \E S : list \in Seq(S)

LEMMA NoneIsList == IsList(<<>>)
<1>1. <<>> \in Seq({})
  OBVIOUS
<1>2. QED
  BY <1>1 DEF IsList

\* A step and the list after it are of elements of one set.
LEMMA OneBeforeList ==
  ASSUME NEW s, NEW rest, IsList(rest)
  PROVE  \E S : <<s>> \in Seq(S) /\ rest \in Seq(S)
<1>1. PICK R : rest \in Seq(R)
  BY DEF IsList
<1> DEFINE S == R \cup {s}
<1>2. R \subseteq S /\ s \in S
  OBVIOUS
<1> HIDE DEF S
<1>3. <<s>> \in Seq(S) /\ rest \in Seq(S)
  BY <1>1, <1>2, SeqMonotonic
<1>4. QED
  BY <1>3, Zenon

LEMMA ThenIsList ==
  ASSUME NEW op, NEW t, NEW indexes, NEW recovery, NEW rest, IsList(rest)
  PROVE  IsList(Then(op, t, indexes, recovery, rest))
<1> DEFINE s == [op |-> op, table |-> t, indexes |-> indexes, recovery |-> recovery]
<1> HIDE DEF s
<1>1. PICK S : <<s>> \in Seq(S) /\ rest \in Seq(S)
  BY OneBeforeList, Zenon
<1>2. <<s>> \o rest \in Seq(S)
  BY <1>1, ConcatProperties
<1>3. QED
  BY <1>2 DEF IsList, Then, s

\* The first step of a list, and the others.
LEMMA FirstOfList ==
  ASSUME NEW op, NEW t, NEW indexes, NEW recovery, NEW rest, IsList(rest),
         NEW list, list = Then(op, t, indexes, recovery, rest)
  PROVE  /\ list # <<>> /\ Tail(list) = rest
         /\ Head(list).op = op /\ Head(list).table = t
         /\ Head(list).indexes = indexes /\ Head(list).recovery = recovery
<1> DEFINE s == [op |-> op, table |-> t, indexes |-> indexes, recovery |-> recovery]
<1>1. s.op = op /\ s.table = t /\ s.indexes = indexes /\ s.recovery = recovery
  OBVIOUS
<1>2. list = <<s>> \o rest
  BY DEF Then
<1> HIDE DEF s
<1>3. PICK S : <<s>> \in Seq(S) /\ rest \in Seq(S)
  BY OneBeforeList, Zenon
<1>4. list # <<>> /\ Head(list) = s /\ Tail(list) = rest
  BY <1>2, <1>3
<1>5. QED
  BY <1>1, <1>4

\* A list with a step that is not a save, an opening or a flush.
LeavesWork(list) == \E n \in DOMAIN list : list[n].op \notin {"save", "open", "flush"}

LEMMA ThenLeavesWork ==
  ASSUME NEW op, NEW t, NEW indexes, NEW recovery, NEW rest, IsList(rest),
         op \notin {"save", "open", "flush"} \/ LeavesWork(rest)
  PROVE  LeavesWork(Then(op, t, indexes, recovery, rest))
<1> DEFINE s == [op |-> op, table |-> t, indexes |-> indexes, recovery |-> recovery]
<1>1. s.op = op
  OBVIOUS
<1> HIDE DEF s
<1>2. PICK S : <<s>> \in Seq(S) /\ rest \in Seq(S)
  BY OneBeforeList, Zenon
<1>3. 1 \in DOMAIN (<<s>> \o rest) /\ (<<s>> \o rest)[1] = s
  BY <1>2
<1>4. \A n \in DOMAIN rest : n + 1 \in DOMAIN (<<s>> \o rest) /\ (<<s>> \o rest)[n + 1] = rest[n]
  BY <1>2
<1>5. QED
  BY <1>1, <1>3, <1>4 DEF LeavesWork, Then, s

-----------------------------------------------------------------------------
(* What each statement has yet to do, from each of its steps on. A name says  *)
(* the step that is next: UndoSave is what Unregister leaves to do when it    *)
(* comes to its save.                                                         *)

\* What is left when the files of a new table could not be made.
UndoDiscard(t, d)    == Then("discard", t, FilesOf(t, d), <<>>, <<>>)
UndoSave(t, d)       == Then("save", t, {}, <<>>, UndoDiscard(t, d))
UndoUnregister(t, d) == Then("unregister", t, {}, <<>>, UndoSave(t, d))
UndoForget(t, d)     == Then("forget", t, {}, <<>>, UndoUnregister(t, d))

\* Register, in a statement that goes on with rest.
NewFlush(t, d, rest)    == Then("flush", t, {}, UndoForget(t, d), rest)
NewOpen(t, d, rest)     == Then("open", t, {}, UndoUnregister(t, d), NewFlush(t, d, rest))
NewSave(t, d, rest)     == Then("save", t, {}, <<>>, NewOpen(t, d, rest))
NewRegister(t, d, rest) == Then("register", t, d, <<>>, NewSave(t, d, rest))

\* RemoveTable.
DropSave(t)       == Then("save", t, {}, <<>>, <<>>)
DropUnregister(t) == Then("unregister", t, {}, <<>>, DropSave(t))
DropForget(t)     == Then("forget", t, {}, <<>>, DropUnregister(t))
DropFiles(t)      == Then("removeTable", t, {}, <<>>, DropForget(t))
DropReach(t)      == Then("reach", t, {}, <<>>, DropFiles(t))

\* What is left when an index could not be built.
UnbuildDiscard(t, i, recovery) == Then("discard", t, {<<t, i>>}, recovery, recovery)
UnbuildSave(t, i, recovery)    == Then("save", t, {}, recovery, UnbuildDiscard(t, i, recovery))
UnbuildName(t, i, recovery)    == Then("dropIndex", t, {i}, <<>>, UnbuildSave(t, i, recovery))

\* AddIndex, in a statement that goes on with rest.
AddOpen(t, recovery, rest)     == Then("open", t, {}, recovery, rest)
AddClose(t, recovery, rest)    == Then("close", t, {}, recovery, AddOpen(t, recovery, rest))
AddBuild(t, i, recovery, rest) == Then("build", t, {i}, UnbuildName(t, i, recovery), AddClose(t, recovery, rest))
AddSave(t, i, recovery, rest)  == Then("save", t, {}, recovery, AddBuild(t, i, recovery, rest))
AddName(t, i, recovery, rest)  == Then("addIndex", t, {i}, <<>>, AddSave(t, i, recovery, rest))
AddReach(t, i, recovery, rest) == Then("reach", t, {}, recovery, AddName(t, i, recovery, rest))

\* DropIndex, which ends as AddIndex does.
CutSave(t)     == Then("save", t, {}, <<>>, AddClose(t, <<>>, <<>>))
CutName(t, i)  == Then("dropIndex", t, {i}, <<>>, CutSave(t))
CutFiles(t, i) == Then("removeIndex", t, {i}, <<>>, CutName(t, i))
CutReach(t, i) == Then("reach", t, {}, <<>>, CutFiles(t, i))

\* The rows of FromFile, and the table of a SELECT.
Fill(t, rest)    == Then("load", t, {}, DropReach(t), rest)
UseReach(t)      == Then("reach", t, {}, <<>>, <<>>)

-----------------------------------------------------------------------------
(* What is true of a table at each step of what is done to it.              *)

\* The files of a table are those of these indexes, or some of them; they all exist;
\* each index has the entries of all the rows; what is not empty is on disk.
NoFiles(t)     == \A file \in DOMAIN files : file[1] # t
Within(t, x)   == \A file \in DOMAIN files : file[1] = t => file \in FilesOf(t, x)
Complete(t, x) == FilesOf(t, x) \subseteq DOMAIN files
Even(t, x) ==
  /\ Content(<<t, Rows>>) # 2
  /\ \A i \in x : Content(<<t, i>>) = Content(<<t, Rows>>)
Written(t)     == \A file \in loose : file[1] = t => files[file] = 0

Named(f, t, x) == t \in DOMAIN f /\ f[t] = x

\* Between statements. It says more than the property: the rows are not a part of
\* them, and a table that is open has all its files.
Settled(t) ==
  /\ NamesAgree(t)
  /\ t \notin DOMAIN memory => NoFiles(t)
  /\ t \in DOMAIN memory => Within(t, memory[t]) /\ Even(t, memory[t])
  /\ Written(t)
  /\ t \in DOMAIN opened => Complete(t, opened[t])

\* An open table which may have much to write to its files.
Whole(t) ==
  /\ t \in DOMAIN memory /\ Named(listed, t, memory[t]) /\ Named(opened, t, memory[t])
  /\ Within(t, memory[t]) /\ Complete(t, memory[t]) /\ Even(t, memory[t])

\* CREATE TABLE: t is the table, d its indexes, rest what comes after Register.
Creating(t) == \E d \in SUBSET {Declared}, rest \in {<<>>} \cup {Fill(t, next) : next \in Filled(t)} :
  \/ /\ steps = NewRegister(t, d, rest)
     /\ Settled(t) /\ t \notin DOMAIN memory
  \/ /\ steps = NewSave(t, d, rest)
     /\ Named(memory, t, d) /\ t \notin DOMAIN listed \cup DOMAIN opened /\ NoFiles(t)
  \/ /\ steps = NewOpen(t, d, rest)
     /\ Settled(t) /\ Named(memory, t, d) /\ t \notin DOMAIN opened
  \/ /\ steps = NewFlush(t, d, rest)
     /\ Whole(t) /\ memory[t] = d

Undoing(t) == \E d \in SUBSET {Declared} :
  /\ Within(t, d)
  /\ \/ steps = UndoForget(t, d) /\ Named(memory, t, d)
     \/ steps = UndoUnregister(t, d) /\ Named(memory, t, d) /\ t \notin DOMAIN opened
     \/ steps = UndoSave(t, d) /\ t \notin DOMAIN memory \cup DOMAIN opened
     \/ steps = UndoDiscard(t, d) /\ t \notin DOMAIN memory \cup DOMAIN listed \cup DOMAIN opened

Filling(t) ==
  \/ \E next \in Filled(t) :
       steps = Fill(t, next) /\ Whole(t) /\ memory[t] \in SUBSET {Declared}
  \/ steps = LastFlush(t) /\ Whole(t)

\* DROP TABLE, or what FROM FILE does when it fails, which may find t struck.
Dropping(t) ==
  \/ /\ steps = DropReach(t) /\ t \in DOMAIN memory
     /\ t \in struck \/ (Within(t, memory[t]) /\ (t \in DOMAIN opened \/ Settled(t)))
  \/ steps = DropFiles(t) /\ t \in DOMAIN memory /\ (t \in struck \/ Within(t, memory[t]))
  \/ steps = DropForget(t) /\ (t \in struck \/ NoFiles(t))
  \/ steps = DropUnregister(t) /\ t \notin DOMAIN opened /\ (t \in struck \/ NoFiles(t))
  \/ steps = DropSave(t) /\ t \notin DOMAIN memory \cup DOMAIN opened /\ (t \in struck \/ NoFiles(t))

\* Where AddIndex is: CREATE INDEX, or the index of FROM FILE.
Ways(t) ==
  {[recovery |-> <<>>, rest |-> <<>>], [recovery |-> DropReach(t), rest |-> LastFlush(t)]}
WrittenIf(t, way) == way.recovery = <<>> => Written(t)

\* The files of the indexes of the open table are as they should be.
Standing(t) ==
  /\ t \in DOMAIN opened
  /\ Within(t, opened[t]) /\ Complete(t, opened[t]) /\ Even(t, opened[t])

Adding(t) == \E i \in IndexName, way \in Ways(t) :
  \/ /\ steps = AddReach(t, i, way.recovery, way.rest)
     /\ t \in DOMAIN memory /\ i \notin memory[t]
     /\ IF way.recovery = <<>> THEN Settled(t) ELSE Whole(t)
  \/ /\ steps = AddName(t, i, way.recovery, way.rest)
     /\ Whole(t) /\ i \notin memory[t] /\ WrittenIf(t, way)
  \/ /\ steps = AddSave(t, i, way.recovery, way.rest)
     /\ Standing(t) /\ i \notin opened[t] /\ WrittenIf(t, way)
     /\ Named(memory, t, opened[t] \cup {i})
  \/ /\ steps = AddBuild(t, i, way.recovery, way.rest)
     /\ Standing(t) /\ i \notin opened[t] /\ WrittenIf(t, way)
     /\ Named(memory, t, opened[t] \cup {i}) /\ Named(listed, t, memory[t])

Reopening(t) == \E way \in Ways(t) :
  \/ steps = AddClose(t, way.recovery, way.rest) /\ Whole(t)
  \/ /\ steps = AddOpen(t, way.recovery, way.rest)
     /\ Settled(t) /\ t \in DOMAIN memory /\ t \notin DOMAIN opened

\* The index could not be built: its file is the only one out of place.
Unbuilding(t) == \E i \in IndexName, way \in Ways(t) :
  /\ t \in DOMAIN opened /\ i \notin opened[t]
  /\ Within(t, opened[t] \cup {i}) /\ Complete(t, opened[t]) /\ Even(t, opened[t])
  /\ way.recovery = <<>> =>
       \A file \in loose : file[1] = t => file = <<t, i>> \/ files[file] = 0
  /\ \/ /\ steps = UnbuildName(t, i, way.recovery)
        /\ Named(memory, t, opened[t] \cup {i})
     \/ /\ steps = UnbuildSave(t, i, way.recovery)
        /\ Named(memory, t, opened[t])
     \/ /\ steps = UnbuildDiscard(t, i, way.recovery)
        /\ Named(memory, t, opened[t]) /\ Named(listed, t, opened[t])

Cutting(t) == \E i \in IndexName :
  \/ steps = CutReach(t, i) /\ t \in DOMAIN memory /\ i \in memory[t] /\ Settled(t)
  \/ /\ steps = CutFiles(t, i) /\ t \in DOMAIN memory /\ i \in memory[t] /\ Settled(t)
     /\ t \in DOMAIN opened
  \/ /\ Standing(t) /\ Written(t) /\ i \notin opened[t]
     /\ \/ steps = CutName(t, i) /\ Named(memory, t, opened[t] \cup {i})
        \/ steps = CutSave(t) /\ Named(memory, t, opened[t])

Using(t) == steps = UseReach(t) /\ t \in DOMAIN memory /\ Settled(t)

Underway(t) ==
  \/ Creating(t) \/ Undoing(t) \/ Filling(t) \/ Dropping(t) \/ Adding(t)
  \/ Reopening(t) \/ Unbuilding(t) \/ Cutting(t) \/ Using(t)

\* At the end of a statement, or on the way to it.
Over(t) == Quiet /\ (t \in struck \/ Settled(t))

OthersSettled(t) == \A u \in TableName \ (struck \cup {t}) : Settled(u)

\* The strengthening of DefinitionsSound that every step keeps.
DefIInv ==
  /\ DefTypeOK
  /\ \/ Quiet /\ \A u \in TableName \ struck : Settled(u)
     \/ \E t \in TableName : Underway(t) /\ OthersSettled(t)

-----------------------------------------------------------------------------
(* What a step does to the other tables.                                    *)

\* The step changes nothing of u: at most it saves what the catalog says of it.
Spares(u) ==
  /\ u \in DOMAIN memory' <=> u \in DOMAIN memory
  /\ u \in DOMAIN memory => memory'[u] = memory[u]
  /\ u \in DOMAIN opened' <=> u \in DOMAIN opened
  /\ u \in DOMAIN opened => opened'[u] = opened[u]
  /\ listed' = listed \/ listed' = memory
  /\ \A file \in DOMAIN files' : file[1] = u => file \in DOMAIN files /\ files'[file] = files[file]
  /\ \A file \in DOMAIN files : file[1] = u => file \in DOMAIN files'
  /\ \A file \in loose' : file[1] = u => file \in loose \/ files[file] = 2

LEMMA SettledIsNotPart ==
  ASSUME NEW u, Settled(u), NEW file \in DOMAIN files, file[1] = u
  PROVE  files[file] # 2
<1>1. u \in DOMAIN memory /\ file \in FilesOf(u, memory[u]) /\ Even(u, memory[u])
  BY DEF Settled, NoFiles, Within
<1>2. PICK part \in {Rows} \cup memory[u] : file = <<u, part>>
  BY <1>1 DEF FilesOf
<1>3. Content(<<u, part>>) # 2
  BY <1>1, <1>2 DEF Even
<1>4. QED
  BY <1>2, <1>3 DEF Content

LEMMA SparedStaysSettled ==
  ASSUME NEW u, Settled(u), Spares(u), loose \subseteq DOMAIN files, loose' \subseteq DOMAIN files'
  PROVE  Settled(u)'
<1>1. NamesAgree(u)'
  BY DEF Settled, NamesAgree, Spares
<1>2. (u \notin DOMAIN memory => NoFiles(u))'
  BY DEF Settled, NoFiles, Spares
<1>3. \A part : Content(<<u, part>>)' = Content(<<u, part>>)
  BY DEF Content, Spares
<1>4. ASSUME u \in DOMAIN memory' PROVE Within(u, memory[u])' /\ Even(u, memory[u])'
  <2>1. memory'[u] = memory[u] /\ Within(u, memory[u]) /\ Even(u, memory[u])
    BY <1>4 DEF Settled, Spares
  <2>2. Within(u, memory[u])'
    BY <2>1 DEF Within, Spares
  <2>3. Even(u, memory[u])'
    BY <2>1, <1>3 DEF Even
  <2>4. QED
    BY <2>2, <2>3
<1>5. Written(u)'
  <2>1. ASSUME NEW file \in loose', file[1] = u PROVE files'[file] = 0
    <3>1. file \in DOMAIN files /\ files'[file] = files[file]
      BY <2>1 DEF Spares
    <3>2. file \in loose
      BY <2>1, <3>1, SettledIsNotPart DEF Spares
    <3>3. QED
      BY <2>1, <3>1, <3>2 DEF Settled, Written
  <2>2. QED
    BY <2>1 DEF Written
<1>6. (u \in DOMAIN opened => Complete(u, opened[u]))'
  <2>1. \A x : \A file \in FilesOf(u, x) : file[1] = u
    BY DEF FilesOf
  <2>2. QED
    BY <2>1 DEF Settled, Complete, Spares
<1>7. QED
  BY <1>1, <1>2, <1>4, <1>5, <1>6 DEF Settled

\* The steps that are taken, not those that raise.
StepIsTaken ==
  \/ ChangeCatalog \/ SaveCatalog \/ OpenTable \/ ReachTable \/ FlushTable \/ CloseTable
  \/ LoadRows \/ BuildIndex \/ ForgetTable \/ RemoveFiles

LEMMA FilesHaveTheirTable ==
  ASSUME NEW t, NEW x
  PROVE  \A file \in FilesOf(t, x) : file[1] = t
BY DEF FilesOf

LEMMA StepSparesOthers ==
  ASSUME DefTypeOK, NEW u, u # T, StepIsTaken \/ StepRaises,
         Head(steps).op = "discard" => \A file \in Parts : file[1] = T
  PROVE  Spares(u)
<1>1. \A x : \A file \in FilesOf(T, x) : file[1] # u
  BY FilesHaveTheirTable
<1>2. \A i : <<T, i>>[1] # u
  OBVIOUS
<1>3. Head(steps).op \in {"removeTable", "removeIndex", "discard"} => \A file \in Gone : file[1] # u
  BY <1>1, <1>2 DEF Gone
<1>4. CASE ChangeCatalog
  BY <1>4 DEF ChangeCatalog, Next1, WithTable, WithoutTable, Restrict, Spares, DefTypeOK
<1>5. CASE SaveCatalog
  BY <1>5 DEF SaveCatalog, Spares
<1>6. CASE OpenTable
  BY <1>1, <1>6 DEF OpenTable, WithTable, Holding, Spares
<1>7. CASE ReachTable
  BY <1>7 DEF ReachTable, Spares
<1>8. CASE FlushTable
  BY <1>8 DEF FlushTable, Spares
<1>9. CASE CloseTable
  BY <1>9 DEF CloseTable, WithoutTable, Restrict, Spares
<1>10. CASE LoadRows
  BY <1>1, <1>10 DEF LoadRows, Holding, Spares
<1>11. CASE BuildIndex
  BY <1>2, <1>11 DEF BuildIndex, Holding, Spares, DefTypeOK
<1>12. CASE ForgetTable
  BY <1>12 DEF ForgetTable, WithoutTable, Restrict, Spares
<1>13. CASE RemoveFiles
  BY <1>3, <1>13 DEF RemoveFiles, Next1, Restrict, Spares, DefTypeOK
<1>14. CASE StepRaises
  <2>1. /\ u \in DOMAIN opened' <=> u \in DOMAIN opened
        /\ u \in DOMAIN opened => opened'[u] = opened[u]
    BY <1>14 DEF StepRaises, WithoutTable, Restrict, DefTypeOK
  <2>2. /\ \A file \in DOMAIN files' : file[1] = u => file \in DOMAIN files /\ files'[file] = files[file]
        /\ \A file \in DOMAIN files : file[1] = u => file \in DOMAIN files'
    <3>1. files' \in HalfDone
      BY <1>14 DEF StepRaises
    <3>2. CASE Head(steps).op \in {"open", "reach"}
      BY <3>1, <3>2, <1>1 DEF HalfDone, Holding
    <3>3. CASE Head(steps).op = "load"
      BY <3>1, <3>3, <1>1 DEF HalfDone, Holding
    <3>4. CASE Head(steps).op = "build"
      BY <3>1, <3>4, <1>2 DEF HalfDone, Holding
    <3>5. CASE Head(steps).op \in {"removeTable", "removeIndex", "discard"}
      BY <3>1, <3>5, <1>3 DEF HalfDone, Restrict
    <3>6. QED
      BY <1>14, <3>1, <3>2, <3>3, <3>4, <3>5 DEF StepRaises, HalfDone
  <2>3. \A file \in loose' : file[1] = u => file \in loose \/ files[file] = 2
    BY <1>14, <2>2 DEF StepRaises
  <2>4. QED
    BY <1>14, <2>1, <2>2, <2>3 DEF StepRaises, Spares
<1>15. QED
  BY <1>4, <1>5, <1>6, <1>7, <1>8, <1>9, <1>10, <1>11, <1>12, <1>13, <1>14 DEF StepIsTaken

-----------------------------------------------------------------------------
(* The types.                                                               *)

NamesTypeOK ==
  /\ memory \in [DOMAIN memory -> SUBSET IndexName] /\ listed \in [DOMAIN listed -> SUBSET IndexName]
  /\ opened \in [DOMAIN opened -> SUBSET IndexName]
  /\ DOMAIN memory \cup DOMAIN listed \cup DOMAIN opened \cup struck \subseteq TableName
FilesTypeOK == files \in [DOMAIN files -> 0..2] /\ loose \subseteq DOMAIN files

LEMMA TypesAre == DefTypeOK <=> NamesTypeOK /\ FilesTypeOK
BY DEF DefTypeOK, NamesTypeOK, FilesTypeOK

\* What the step that is next relies on.
StepFits ==
  /\ ~Quiet /\ T \in TableName
  /\ Head(steps).op \in {"register", "addIndex", "build"} => Parts \subseteq IndexName
  /\ Head(steps).op \in {"open", "reach"} => T \in DOMAIN memory
  /\ Head(steps).op = "build" => <<T, Rows>> \in DOMAIN files
  /\ Head(steps).op = "discard" => \A file \in Parts : file[1] = T

LEMMA StepKeepsNamesTyped ==
  ASSUME NamesTypeOK, StepFits, StepIsTaken \/ StepRaises
  PROVE  NamesTypeOK'
<1>1. CASE ChangeCatalog
  BY <1>1 DEF ChangeCatalog, Next1, WithTable, WithoutTable, Restrict, NamesTypeOK, StepFits
<1>2. CASE SaveCatalog
  BY <1>2 DEF SaveCatalog, NamesTypeOK
<1>3. CASE OpenTable
  BY <1>3 DEF OpenTable, Next1, WithTable, NamesTypeOK, StepFits
<1>4. CASE ReachTable \/ FlushTable \/ LoadRows
  BY <1>4 DEF ReachTable, FlushTable, LoadRows, NamesTypeOK
<1>5. CASE CloseTable
  BY <1>5 DEF CloseTable, WithoutTable, Restrict, NamesTypeOK
<1>6. CASE BuildIndex
  BY <1>6 DEF BuildIndex, Next1, NamesTypeOK, StepFits
<1>7. CASE ForgetTable
  BY <1>7 DEF ForgetTable, WithoutTable, Restrict, NamesTypeOK
<1>8. CASE RemoveFiles
  BY <1>8 DEF RemoveFiles, NamesTypeOK
<1>9. CASE StepRaises
  BY <1>9 DEF StepRaises, WithoutTable, Restrict, NamesTypeOK, StepFits
<1>10. QED
  BY <1>1, <1>2, <1>3, <1>4, <1>5, <1>6, <1>7, <1>8, <1>9 DEF StepIsTaken

LEMMA HoldingIsTyped ==
  ASSUME files \in [DOMAIN files -> 0..2], NEW names, NEW content \in 0..2
  PROVE  /\ Holding(names, content) \in [DOMAIN Holding(names, content) -> 0..2]
         /\ DOMAIN Holding(names, content) = DOMAIN files \cup names
BY DEF Holding

LEMMA HoldingAnyIsTyped ==
  ASSUME FilesTypeOK, NEW names
  PROVE  /\ Holding(names, 0) \in [DOMAIN files \cup names -> 0..2]
         /\ Holding(names, 1) \in [DOMAIN files \cup names -> 0..2]
         /\ Holding(names, 2) \in [DOMAIN files \cup names -> 0..2]
BY DEF Holding, FilesTypeOK

LEMMA RestrictIsTyped ==
  ASSUME files \in [DOMAIN files -> 0..2], NEW gone
  PROVE  LET left == Restrict(files, DOMAIN files \ gone)
         IN  left \in [DOMAIN left -> 0..2] /\ DOMAIN left = DOMAIN files \ gone
BY DEF Restrict

LEMMA StepKeepsFilesTyped ==
  ASSUME FilesTypeOK, StepFits, StepIsTaken \/ StepRaises
  PROVE  FilesTypeOK'
<1>1. CASE ChangeCatalog \/ SaveCatalog \/ ReachTable \/ ForgetTable
  BY <1>1 DEF ChangeCatalog, SaveCatalog, ReachTable, ForgetTable, FilesTypeOK
<1>2. CASE FlushTable \/ CloseTable
  BY <1>2 DEF FlushTable, CloseTable, FilesTypeOK
<1>3. CASE OpenTable
  <2> DEFINE made == FilesOf(T, memory[T]) \ DOMAIN files
  <2>1. files' = Holding(made, 0) /\ loose' = loose \cup made
    BY <1>3 DEF OpenTable
  <2> HIDE DEF made
  <2>2. files' \in [DOMAIN files \cup made -> 0..2]
    BY <2>1, HoldingAnyIsTyped
  <2>3. QED
    BY <2>1, <2>2 DEF FilesTypeOK
<1>4. CASE LoadRows
  <2> DEFINE loaded == FilesOf(T, opened[T])
  <2>1. files' = Holding(loaded, 1) /\ loose' = loose \cup loaded
    BY <1>4 DEF LoadRows
  <2> HIDE DEF loaded
  <2>2. files' \in [DOMAIN files \cup loaded -> 0..2]
    BY <2>1, HoldingAnyIsTyped
  <2>3. QED
    BY <2>1, <2>2 DEF FilesTypeOK
<1>5. CASE BuildIndex
  <2>1. files[<<T, Rows>>] \in 0..2
    BY <1>5 DEF BuildIndex, Next1, StepFits, FilesTypeOK
  <2> DEFINE built == {<<T, i>> : i \in Parts}
             content == files[<<T, Rows>>]
  <2>2. files' = Holding(built, content) /\ loose' = loose \cup built
    BY <1>5 DEF BuildIndex
  <2> HIDE DEF built, content
  <2>3. files' \in [DOMAIN files' -> 0..2] /\ DOMAIN files' = DOMAIN files \cup built
    BY <2>1, <2>2, HoldingIsTyped DEF FilesTypeOK, content
  <2>4. QED
    BY <2>2, <2>3 DEF FilesTypeOK
<1>6. CASE RemoveFiles
  <2>1. files' = Restrict(files, DOMAIN files \ Gone) /\ loose' = loose \ Gone
    BY <1>6 DEF RemoveFiles
  <2>2. files' \in [DOMAIN files' -> 0..2] /\ DOMAIN files' = DOMAIN files \ Gone
    BY <2>1, RestrictIsTyped DEF FilesTypeOK
  <2>3. QED
    BY <2>1, <2>2 DEF FilesTypeOK
<1>7. CASE StepRaises
  <2>1. files' \in HalfDone /\ loose' \subseteq DOMAIN files'
    BY <1>7 DEF StepRaises
  <2>2. \A names : /\ Holding(names, 0) \in [DOMAIN files \cup names -> 0..2]
                    /\ Holding(names, 2) \in [DOMAIN files \cup names -> 0..2]
    BY HoldingAnyIsTyped
  <2> DEFINE left(gone) == Restrict(files, DOMAIN files \ gone)
  <2>3. \A gone : left(gone) \in [DOMAIN left(gone) -> 0..2]
    BY RestrictIsTyped DEF FilesTypeOK
  <2>4. files' \in [DOMAIN files' -> 0..2]
    <3>1. CASE Head(steps).op \in {"open", "reach"}
      BY <2>1, <2>2, <3>1 DEF HalfDone
    <3>2. CASE Head(steps).op \in {"load", "build"}
      BY <2>1, <2>2, <3>2 DEF HalfDone
    <3>3. CASE Head(steps).op \in {"removeTable", "removeIndex", "discard"}
      <4>1. PICK gone \in SUBSET Gone : files' = left(gone)
        BY <2>1, <3>3 DEF HalfDone
      <4>2. QED
        BY <2>3, <4>1
    <3>4. QED
      BY <1>7, <2>1, <3>1, <3>2, <3>3 DEF StepRaises, HalfDone, FilesTypeOK
  <2>5. QED
    BY <2>1, <2>4 DEF FilesTypeOK
<1>8. QED
  BY <1>1, <1>2, <1>3, <1>4, <1>5, <1>6, <1>7 DEF StepIsTaken

\* A step keeps the types, and the other tables as they were.
LEMMA StepKeepsOthers ==
  ASSUME DefTypeOK, StepFits, StepIsTaken \/ StepRaises, OthersSettled(T)
  PROVE  DefTypeOK' /\ \A u \in TableName \ (struck' \cup {T}) : Settled(u)'
<1>1. DefTypeOK'
  <2>1. NamesTypeOK' /\ FilesTypeOK'
    BY TypesAre, StepKeepsNamesTyped, StepKeepsFilesTyped
  <2>2. QED
    BY <2>1 DEF DefTypeOK, NamesTypeOK, FilesTypeOK
<1>2. ASSUME NEW u \in TableName \ (struck' \cup {T}) PROVE Settled(u)'
  <2>1. u \notin struck
    BY DEF StepIsTaken, StepRaises, ChangeCatalog, SaveCatalog, OpenTable, ReachTable, FlushTable,
           CloseTable, LoadRows, BuildIndex, ForgetTable, RemoveFiles
  <2>2. Settled(u)
    BY <2>1 DEF OthersSettled
  <2>3. Spares(u)
    BY StepSparesOthers DEF StepFits
  <2>4. loose \subseteq DOMAIN files /\ loose' \subseteq DOMAIN files'
    BY <1>1 DEF DefTypeOK
  <2>5. QED
    BY <2>2, <2>3, <2>4, SparedStaysSettled
<1>3. QED
  BY <1>1, <1>2

-----------------------------------------------------------------------------
(* The end of the process.                                                  *)

\* What is on disk of the table is what a start can take it up from.
Survives(t) ==
  /\ t \notin DOMAIN listed => NoFiles(t)
  /\ t \in DOMAIN listed => Within(t, listed[t]) /\ Even(t, listed[t])

LEMMA SettledSurvives ==
  ASSUME NEW t, Settled(t)
  PROVE  Survives(t)
BY DEF Settled, NamesAgree, Survives

LEMMA EndKeepsTypes ==
  ASSUME DefTypeOK, Quiet \/ T \in TableName, ProcessEnds
  PROVE  DefTypeOK'
<1>1. files' \in [DOMAIN files' -> 0..2] /\ loose' = {}
  BY DEF ProcessEnds, DefTypeOK
<1>2. memory' \in [DOMAIN memory' -> SUBSET IndexName] /\ listed' = listed /\ listed' = memory'
  BY DEF ProcessEnds, DefTypeOK
<1>3. opened' = <<>> /\ struck' \subseteq struck \cup {T} /\ (Quiet => struck' = struck)
  BY DEF ProcessEnds
<1>4. opened' \in [DOMAIN opened' -> SUBSET IndexName] /\ DOMAIN opened' = {}
  BY <1>3
<1>5. QED
  BY <1>1, <1>2, <1>3, <1>4 DEF DefTypeOK

\* A table whose files that are not on disk are empty is settled after a start.
LEMMA StartSettles ==
  ASSUME NEW u, Survives(u), ProcessEnds,
         \A file \in DOMAIN files : file[1] = u => files'[file] = files[file]
  PROVE  Settled(u)'
<1>1. DOMAIN files' = DOMAIN files /\ memory' = listed /\ listed' = listed
  BY DEF ProcessEnds
<1>2. opened' = <<>> /\ loose' = {}
  BY DEF ProcessEnds
<1>3. NamesAgree(u)' /\ Written(u)' /\ u \notin DOMAIN opened'
  BY <1>1, <1>2 DEF NamesAgree, Written
<1>4. \A part : Content(<<u, part>>)' = Content(<<u, part>>)
  BY <1>1 DEF Content
<1>5. (u \notin DOMAIN memory => NoFiles(u))'
  BY <1>1 DEF Survives, NoFiles
<1>6. (u \in DOMAIN memory => Within(u, memory[u]) /\ Even(u, memory[u]))'
  BY <1>1, <1>4 DEF Survives, Within, Even
<1>7. QED
  BY <1>3, <1>5, <1>6 DEF Settled

LEMMA EndSettles ==
  ASSUME DefTypeOK, NEW u, Settled(u), ProcessEnds
  PROVE  Settled(u)'
<1>1. ASSUME NEW file \in DOMAIN files, file[1] = u PROVE files'[file] = files[file]
  BY <1>1 DEF ProcessEnds, Settled, Written
<1>2. QED
  BY <1>1, SettledSurvives, StartSettles

\* The table of the statement is settled too, if it is not struck.
LEMMA EndIsOver ==
  ASSUME DefTypeOK, ~Quiet, ProcessEnds, NEW t, t = T,
         t \in struck \/ LeavesWork(steps) \/ Survives(t)
  PROVE  Quiet' /\ (t \in struck' \/ Settled(t)')
<1>1. Quiet' /\ struck \subseteq struck'
  BY DEF ProcessEnds, Quiet
<1>2. CASE CutsShort
  BY <1>1, <1>2 DEF ProcessEnds
<1>3. CASE ~CutsShort /\ ~LeavesWork(steps) /\ t \notin struck
  <2>1. \A file \in loose : files[file] = 0
    BY <1>3 DEF CutsShort
  <2>2. \A file \in DOMAIN files : files'[file] = files[file]
    BY <2>1 DEF ProcessEnds
  <2>3. QED
    BY <1>1, <1>3, <2>2, StartSettles
<1>4. QED
  BY <1>1, <1>2, <1>3 DEF CutsShort, LeavesWork

-----------------------------------------------------------------------------
(* Steps, taken or not.                                                     *)

LEMMA WhatMayHappen ==
  ASSUME ~Quiet, DefNext
  PROVE  StepIsTaken \/ StepRaises \/ ProcessEnds
BY DEF DefNext, StepIsTaken, CreateTable, CreateFromFile, DropTable, UseTable, FillTable,
       CreateIndex, DropIndexOf, Start

LEMMA WhichStep ==
  ASSUME StepIsTaken
  PROVE  /\ steps' = Tail(steps) /\ struck' = struck
         /\ Head(steps).op \in {"register", "unregister", "addIndex", "dropIndex"} => ChangeCatalog
         /\ Head(steps).op = "save" => SaveCatalog
         /\ Head(steps).op = "open" => OpenTable
         /\ Head(steps).op = "reach" => IF T \in DOMAIN opened THEN ReachTable ELSE OpenTable
         /\ Head(steps).op = "flush" => FlushTable
         /\ Head(steps).op = "close" => CloseTable
         /\ Head(steps).op = "load" => LoadRows
         /\ Head(steps).op = "build" => BuildIndex
         /\ Head(steps).op = "forget" => ForgetTable
         /\ Head(steps).op \in {"removeTable", "removeIndex", "discard"} => RemoveFiles
BY DEF StepIsTaken, Next1, ChangeCatalog, SaveCatalog, OpenTable, ReachTable, FlushTable,
       CloseTable, LoadRows, BuildIndex, ForgetTable, RemoveFiles

LEMMA WhenItRaises ==
  ASSUME StepRaises
  PROVE  /\ steps' = Head(steps).recovery
         /\ memory' = memory /\ listed' = listed /\ struck \subseteq struck'
         /\ Head(steps).op \in {"save", "close", "removeTable", "removeIndex", "discard"} => T \in struck'
         /\ Head(steps).op \notin {"close", "removeIndex"} => opened' = opened
         /\ Head(steps).op = "reach" => T \notin DOMAIN opened
         /\ Head(steps).op \notin {"register", "unregister", "addIndex", "dropIndex", "forget"}
BY DEF StepRaises

\* A step that raises under no except clause, and leaves the table struck.
LEMMA RaiseIsTheEnd ==
  ASSUME StepRaises, NEW t, t = T, Head(steps).recovery = <<>>,
         Head(steps).op \in {"save", "close", "removeTable", "removeIndex", "discard"}
  PROVE  Over(t)'
BY WhenItRaises DEF Over, Quiet

-----------------------------------------------------------------------------
(* Tables that are settled, and open.                                       *)

LEMMA SettledOpenIsWhole ==
  ASSUME NEW t, Settled(t), t \in DOMAIN opened
  PROVE  Whole(t) /\ Written(t)
BY DEF Settled, NamesAgree, Whole, Named

LEMMA WholeWrittenIsSettled ==
  ASSUME NEW t, Whole(t), Written(t)
  PROVE  Settled(t)
BY DEF Settled, NamesAgree, Whole, Named

LEMMA WholeSurvives ==
  ASSUME NEW t, Whole(t)
  PROVE  Survives(t)
BY DEF Whole, Named, Survives

\* Files that are made empty, some or all, say no less of a table than no files.
LEMMA MadeFilesSettle ==
  ASSUME DefTypeOK, NEW t, Settled(t), t \in DOMAIN memory,
         NEW made, made \subseteq FilesOf(t, memory[t]) \ DOMAIN files,
         files' = Holding(made, 0), UNCHANGED <<memory, listed>>,
         \A file \in loose' : file[1] = t => file \in loose \cup made,
         opened' = opened \/ (opened' = WithTable(opened, t, memory[t]) /\ made = FilesOf(t, memory[t]) \ DOMAIN files)
  PROVE  Settled(t)'
<1>1. NamesAgree(t)'
  BY DEF Settled, NamesAgree, WithTable
<1>2. /\ DOMAIN files' = DOMAIN files \cup made
      /\ \A file \in made : files'[file] = 0
      /\ \A file \in DOMAIN files : files'[file] = files[file]
  BY DEF Holding
<1>3. \A file : Content(file)' = Content(file)
  BY <1>2 DEF Content
<1>4. Within(t, memory[t])' /\ Even(t, memory[t])'
  BY <1>2, <1>3 DEF Settled, Within, Even
<1>5. Written(t)'
  BY <1>2 DEF Settled, Written, DefTypeOK
<1>6. (t \in DOMAIN opened => Complete(t, opened[t]))'
  BY <1>1, <1>2 DEF Settled, Complete, WithTable, NamesAgree
<1>7. QED
  BY <1>1, <1>4, <1>5, <1>6 DEF Settled

LEMMA OpeningSettles ==
  ASSUME DefTypeOK, NEW t, t = T, Settled(t), t \in DOMAIN memory, OpenTable
  PROVE  Settled(t)' /\ Whole(t)' /\ memory' = memory /\ t \in DOMAIN opened'
<1> DEFINE made == FilesOf(t, memory[t]) \ DOMAIN files
<1>1. /\ files' = Holding(made, 0) /\ loose' = loose \cup made
      /\ opened' = WithTable(opened, t, memory[t]) /\ UNCHANGED <<memory, listed>>
  BY DEF OpenTable
<1>2. Settled(t)'
  BY <1>1, MadeFilesSettle
<1>3. t \in DOMAIN opened'
  BY <1>1 DEF WithTable
<1>4. Whole(t)'
  BY <1>2, <1>3 DEF Settled, NamesAgree, Whole, Named
<1>5. QED
  BY <1>1, <1>2, <1>3, <1>4

LEMMA OpeningRaisesSettled ==
  ASSUME DefTypeOK, NEW t, t = T, Settled(t), t \in DOMAIN memory, StepRaises,
         Head(steps).op \in {"open", "reach"}
  PROVE  Settled(t)'
<1>1. PICK made \in SUBSET (FilesOf(t, memory[t]) \ DOMAIN files) : files' = Holding(made, 0)
  BY DEF StepRaises, HalfDone
<1>2. ASSUME NEW file \in loose' PROVE file[1] = t => file \in loose \cup made
  <2>1. file \in DOMAIN files' /\ (file \in loose \/ file \notin DOMAIN files \/ files'[file] = 2)
    BY DEF StepRaises
  <2>2. CASE file \notin DOMAIN files
    BY <1>1, <2>1, <2>2 DEF Holding
  <2>3. CASE file \in DOMAIN files /\ files'[file] = 2
    BY <1>1, <2>3, SettledIsNotPart DEF Holding
  <2>4. QED
    BY <2>1, <2>2, <2>3
<1>3. QED
  BY <1>1, <1>2, MadeFilesSettle, WhenItRaises

LEMMA FlushSettles ==
  ASSUME DefTypeOK, NEW t, t = T, Whole(t), FlushTable
  PROVE  Settled(t)' /\ Whole(t)'
<1>1. UNCHANGED <<memory, listed, opened, files>> /\ loose' = loose \ FilesOf(t, opened[t])
  BY DEF FlushTable
<1>2. Whole(t)'
  BY <1>1 DEF Whole, Named, Within, Complete, Even, Content
<1>3. Written(t)'
  BY <1>1 DEF Whole, Named, Within, Written, DefTypeOK
<1>4. QED
  BY <1>2, <1>3 DEF Settled, NamesAgree, Whole, Named

-----------------------------------------------------------------------------
(* Every list is one.                                                       *)

LEMMA UndoIsList ==
  ASSUME NEW t, NEW d
  PROVE  /\ IsList(UndoDiscard(t, d)) /\ IsList(UndoSave(t, d))
         /\ IsList(UndoUnregister(t, d)) /\ IsList(UndoForget(t, d))
BY NoneIsList, ThenIsList DEF UndoDiscard, UndoSave, UndoUnregister, UndoForget

LEMMA NewIsList ==
  ASSUME NEW t, NEW d, NEW rest, IsList(rest)
  PROVE  /\ IsList(NewFlush(t, d, rest)) /\ IsList(NewOpen(t, d, rest))
         /\ IsList(NewSave(t, d, rest)) /\ IsList(NewRegister(t, d, rest))
BY ThenIsList DEF NewFlush, NewOpen, NewSave, NewRegister

LEMMA DropIsList ==
  ASSUME NEW t
  PROVE  /\ IsList(DropSave(t)) /\ IsList(DropUnregister(t)) /\ IsList(DropForget(t))
         /\ IsList(DropFiles(t)) /\ IsList(DropReach(t))
BY NoneIsList, ThenIsList DEF DropSave, DropUnregister, DropForget, DropFiles, DropReach

LEMMA UnbuildIsList ==
  ASSUME NEW t, NEW i, NEW recovery, IsList(recovery)
  PROVE  /\ IsList(UnbuildDiscard(t, i, recovery)) /\ IsList(UnbuildSave(t, i, recovery))
         /\ IsList(UnbuildName(t, i, recovery))
BY ThenIsList DEF UnbuildDiscard, UnbuildSave, UnbuildName

LEMMA ReopenIsList ==
  ASSUME NEW t, NEW recovery, NEW rest, IsList(rest)
  PROVE  IsList(AddOpen(t, recovery, rest)) /\ IsList(AddClose(t, recovery, rest))
BY ThenIsList DEF AddOpen, AddClose

LEMMA AddIsList ==
  ASSUME NEW t, NEW i, NEW recovery, NEW rest, IsList(rest)
  PROVE  /\ IsList(AddBuild(t, i, recovery, rest)) /\ IsList(AddSave(t, i, recovery, rest))
         /\ IsList(AddName(t, i, recovery, rest)) /\ IsList(AddReach(t, i, recovery, rest))
BY ReopenIsList, ThenIsList DEF AddBuild, AddSave, AddName, AddReach

LEMMA CutSaveIsList ==
  ASSUME NEW t
  PROVE  IsList(CutSave(t)) /\ IsList(AddClose(t, <<>>, <<>>))
BY NoneIsList, ReopenIsList, ThenIsList DEF CutSave

LEMMA CutIsList ==
  ASSUME NEW t, NEW i
  PROVE  IsList(CutName(t, i)) /\ IsList(CutFiles(t, i)) /\ IsList(CutReach(t, i))
BY CutSaveIsList, ThenIsList DEF CutName, CutFiles, CutReach

LEMMA RemoveTableIs ==
  ASSUME NEW t
  PROVE  RemoveTable(t) = DropReach(t)
BY DEF RemoveTable, Unregister, Saved, DropReach, DropFiles, DropForget, DropUnregister, DropSave

LEMMA LastFlushIs ==
  ASSUME NEW t
  PROVE  LastFlush(t) = Then("flush", t, {}, DropReach(t), <<>>) /\ IsList(LastFlush(t))
BY NoneIsList, RemoveTableIs, ThenIsList DEF LastFlush

LEMMA WaysAreLists ==
  ASSUME NEW t, NEW way \in Ways(t)
  PROVE  /\ IsList(way.recovery) /\ IsList(way.rest)
         /\ \/ way.recovery = <<>> /\ way.rest = <<>>
            \/ way.recovery = DropReach(t) /\ way.rest = LastFlush(t) /\ way.recovery # <<>>
<1>1. DropReach(t) # <<>>
  BY DropIsList, FirstOfList DEF DropReach
<1>2. QED
  BY <1>1, NoneIsList, DropIsList, LastFlushIs DEF Ways

LEMMA FilledIs ==
  ASSUME NEW t, NEW next \in Filled(t)
  PROVE  /\ IsList(next)
         /\ \/ next = LastFlush(t)
            \/ \E i \in IndexName \ {Declared} : next = AddReach(t, i, DropReach(t), LastFlush(t))
<1>1. ASSUME NEW i \in IndexName \ {Declared}
      PROVE  AddIndex(t, i, RemoveTable(t), LastFlush(t)) = AddReach(t, i, DropReach(t), LastFlush(t))
  BY RemoveTableIs DEF AddIndex, Saved, Reopen, AddReach, AddName, AddSave, AddBuild, AddClose, AddOpen,
       UnbuildName, UnbuildSave, UnbuildDiscard
<1>2. \A i : IsList(AddReach(t, i, DropReach(t), LastFlush(t)))
  BY LastFlushIs, AddIsList
<1>3. QED
  BY <1>1, <1>2, LastFlushIs DEF Filled

LEMMA FillIsList ==
  ASSUME NEW t, NEW next \in Filled(t)
  PROVE  IsList(Fill(t, next)) /\ LeavesWork(Fill(t, next))
BY FilledIs, ThenIsList, ThenLeavesWork DEF Fill

-----------------------------------------------------------------------------
(* From each step on the way to the next, or to the end.                    *)

\* The step that is next fits; if the process ends before it, what is on disk of the
\* table serves, or it is struck; when it is taken, or raises, what follows is known.
GoesOn(t) ==
  /\ T = t /\ StepFits
  /\ t \in struck \/ LeavesWork(steps) \/ Survives(t)
  /\ StepIsTaken \/ StepRaises => (Over(t) \/ Underway(t))'

LEMMA CreatingGoesOn ==
  ASSUME DefTypeOK, NEW t \in TableName, Creating(t)
  PROVE  GoesOn(t)
<1>1. PICK d \in SUBSET {Declared}, rest \in {<<>>} \cup {Fill(t, next) : next \in Filled(t)} :
        \/ /\ steps = NewRegister(t, d, rest)
           /\ Settled(t) /\ t \notin DOMAIN memory
        \/ /\ steps = NewSave(t, d, rest)
           /\ Named(memory, t, d) /\ t \notin DOMAIN listed \cup DOMAIN opened /\ NoFiles(t)
        \/ /\ steps = NewOpen(t, d, rest)
           /\ Settled(t) /\ Named(memory, t, d) /\ t \notin DOMAIN opened
        \/ /\ steps = NewFlush(t, d, rest)
           /\ Whole(t) /\ memory[t] = d
  BY DEF Creating
<1>2. IsList(rest) /\ d \subseteq IndexName
  BY NoneIsList, FillIsList, DefAssumption
<1>3. CASE steps = NewRegister(t, d, rest) /\ Settled(t) /\ t \notin DOMAIN memory
  <2>1. /\ ~Quiet /\ T = t /\ Parts = d /\ Head(steps).op = "register"
        /\ Tail(steps) = NewSave(t, d, rest)
    BY <1>2, <1>3, NewIsList, FirstOfList DEF NewRegister, Quiet, T, Parts
  <2>2. LeavesWork(steps)
    BY <1>2, <1>3, NewIsList, ThenLeavesWork DEF NewRegister
  <2>3. ASSUME StepIsTaken PROVE Creating(t)'
    <3>1. steps' = NewSave(t, d, rest) /\ memory' = WithTable(memory, t, d) /\ UNCHANGED <<listed, opened, files>>
      BY <2>1, <2>3, WhichStep DEF ChangeCatalog, Next1
    <3>2. Named(memory, t, d)' /\ t \notin DOMAIN listed' \cup DOMAIN opened' /\ NoFiles(t)'
      BY <1>3, <3>1 DEF Named, WithTable, Settled, NamesAgree, NoFiles
    <3>3. QED
      BY <3>1, <3>2 DEF Creating
  <2>4. ~StepRaises
    BY <2>1, WhenItRaises
  <2>5. QED
    BY <1>2, <2>1, <2>2, <2>3, <2>4 DEF GoesOn, StepFits, Underway
<1>4. CASE /\ steps = NewSave(t, d, rest)
           /\ Named(memory, t, d) /\ t \notin DOMAIN listed \cup DOMAIN opened /\ NoFiles(t)
  <2>1. /\ ~Quiet /\ T = t /\ Head(steps).op = "save" /\ Head(steps).recovery = <<>>
        /\ Tail(steps) = NewOpen(t, d, rest)
    BY <1>2, <1>4, NewIsList, FirstOfList DEF NewSave, Quiet, T
  <2>2. Survives(t)
    BY <1>4 DEF Survives
  <2>3. ASSUME StepIsTaken PROVE Creating(t)'
    <3>1. steps' = NewOpen(t, d, rest) /\ listed' = memory /\ UNCHANGED <<memory, opened, files, loose>>
      BY <2>1, <2>3, WhichStep DEF SaveCatalog
    <3>2. Named(memory, t, d)' /\ t \notin DOMAIN opened'
      BY <1>4, <3>1 DEF Named
    <3>3. Settled(t)'
      BY <1>4, <3>1 DEF Settled, NamesAgree, Named, NoFiles, Within, Even, Content, FilesOf, Written, DefTypeOK
    <3>4. QED
      BY <3>1, <3>2, <3>3 DEF Creating
  <2>4. ASSUME StepRaises PROVE Over(t)'
    BY <2>1, <2>4, RaiseIsTheEnd
  <2>5. QED
    BY <2>1, <2>2, <2>3, <2>4 DEF GoesOn, StepFits, Underway
<1>5. CASE /\ steps = NewOpen(t, d, rest)
           /\ Settled(t) /\ Named(memory, t, d) /\ t \notin DOMAIN opened
  <2>1. /\ ~Quiet /\ T = t /\ Head(steps).op = "open" /\ Head(steps).recovery = UndoUnregister(t, d)
        /\ Tail(steps) = NewFlush(t, d, rest)
    BY <1>2, <1>5, NewIsList, FirstOfList DEF NewOpen, Quiet, T
  <2>2. Survives(t) /\ t \in DOMAIN memory
    BY <1>5, SettledSurvives DEF Named
  <2>3. ASSUME StepIsTaken PROVE Creating(t)'
    <3>1. steps' = NewFlush(t, d, rest) /\ OpenTable
      BY <2>1, <2>3, WhichStep
    <3>2. Whole(t)' /\ memory' = memory
      BY <1>5, <2>1, <2>2, <3>1, OpeningSettles
    <3>3. QED
      BY <1>5, <3>1, <3>2 DEF Creating, Named
  <2>4. ASSUME StepRaises PROVE Undoing(t)'
    <3>1. steps' = UndoUnregister(t, d) /\ memory' = memory /\ opened' = opened
      BY <2>1, <2>4, WhenItRaises
    <3>2. Settled(t)'
      BY <1>5, <2>1, <2>2, <2>4, OpeningRaisesSettled
    <3>3. Within(t, d)'
      BY <1>5, <3>1, <3>2 DEF Settled, Named, Within
    <3>4. QED
      BY <1>5, <3>1, <3>3 DEF Undoing, Named
  <2>5. QED
    BY <2>1, <2>2, <2>3, <2>4 DEF GoesOn, StepFits, Underway
<1>6. CASE steps = NewFlush(t, d, rest) /\ Whole(t) /\ memory[t] = d
  <2>1. /\ ~Quiet /\ T = t /\ Head(steps).op = "flush" /\ Head(steps).recovery = UndoForget(t, d)
        /\ Tail(steps) = rest
    BY <1>2, <1>6, FirstOfList DEF NewFlush, Quiet, T
  <2>2. Survives(t)
    BY <1>6, WholeSurvives
  <2>3. ASSUME StepIsTaken PROVE Over(t)' \/ Filling(t)'
    <3>1. steps' = rest /\ FlushTable /\ memory' = memory
      BY <2>1, <2>3, WhichStep DEF FlushTable
    <3>2. Whole(t)' /\ Settled(t)'
      BY <1>6, <2>1, <3>1, FlushSettles
    <3>3. CASE rest = <<>>
      BY <3>1, <3>2, <3>3 DEF Over, Quiet
    <3>4. CASE \E next \in Filled(t) : rest = Fill(t, next)
      <4>1. PICK next \in Filled(t) : rest = Fill(t, next)
        BY <3>4
      <4>2. memory[t]' \in SUBSET {Declared}
        BY <1>6, <3>1
      <4>3. QED
        BY <3>1, <3>2, <4>1, <4>2 DEF Filling, Filled, LastFlush, AddIndex, RemoveTable
    <3>5. QED
      BY <3>3, <3>4
  <2>4. ASSUME StepRaises PROVE Undoing(t)'
    <3>1. steps' = UndoForget(t, d) /\ memory' = memory
      BY <2>1, <2>4, WhenItRaises
    <3>2. files' = files
      BY <2>1, <2>4 DEF StepRaises, HalfDone
    <3>3. Within(t, d)' /\ Named(memory, t, d)'
      BY <1>6, <3>1, <3>2 DEF Whole, Named, Within
    <3>4. QED
      BY <3>1, <3>3 DEF Undoing
  <2>5. QED
    BY <2>1, <2>2, <2>3, <2>4 DEF GoesOn, StepFits, Underway
<1>7. QED
  BY <1>1, <1>3, <1>4, <1>5, <1>6

LEMMA UndoingGoesOn ==
  ASSUME DefTypeOK, NEW t \in TableName, Undoing(t)
  PROVE  GoesOn(t)
<1>1. PICK d \in SUBSET {Declared} :
        /\ Within(t, d)
        /\ \/ steps = UndoForget(t, d) /\ Named(memory, t, d)
           \/ steps = UndoUnregister(t, d) /\ Named(memory, t, d) /\ t \notin DOMAIN opened
           \/ steps = UndoSave(t, d) /\ t \notin DOMAIN memory \cup DOMAIN opened
           \/ steps = UndoDiscard(t, d) /\ t \notin DOMAIN memory \cup DOMAIN listed \cup DOMAIN opened
  BY DEF Undoing
<1>2. LeavesWork(UndoDiscard(t, d)) /\ LeavesWork(UndoSave(t, d))
      /\ LeavesWork(UndoUnregister(t, d)) /\ LeavesWork(UndoForget(t, d))
  BY NoneIsList, UndoIsList, ThenLeavesWork DEF UndoDiscard, UndoSave, UndoUnregister, UndoForget
<1>3. CASE steps = UndoForget(t, d) /\ Named(memory, t, d)
  <2>1. /\ ~Quiet /\ T = t /\ Head(steps).op = "forget" /\ Tail(steps) = UndoUnregister(t, d)
    BY <1>3, UndoIsList, FirstOfList DEF UndoForget, Quiet, T
  <2>2. ASSUME StepIsTaken PROVE Undoing(t)'
    <3>1. /\ steps' = UndoUnregister(t, d) /\ UNCHANGED <<memory, files>>
          /\ opened' = WithoutTable(opened, t)
      BY <2>1, <2>2, WhichStep DEF ForgetTable
    <3>2. t \notin DOMAIN opened' /\ Named(memory, t, d)' /\ Within(t, d)'
      BY <1>1, <1>3, <3>1 DEF WithoutTable, Restrict, Named, Within
    <3>3. QED
      BY <3>1, <3>2 DEF Undoing
  <2>3. ~StepRaises
    BY <2>1, WhenItRaises
  <2>4. QED
    BY <1>2, <1>3, <2>1, <2>2, <2>3 DEF GoesOn, StepFits, Underway
<1>4. CASE steps = UndoUnregister(t, d) /\ Named(memory, t, d) /\ t \notin DOMAIN opened
  <2>1. /\ ~Quiet /\ T = t /\ Head(steps).op = "unregister" /\ Tail(steps) = UndoSave(t, d)
    BY <1>4, UndoIsList, FirstOfList DEF UndoUnregister, Quiet, T
  <2>2. ASSUME StepIsTaken PROVE Undoing(t)'
    <3>1. /\ steps' = UndoSave(t, d) /\ UNCHANGED <<opened, files>>
          /\ memory' = WithoutTable(memory, t)
      BY <2>1, <2>2, WhichStep DEF ChangeCatalog, Next1
    <3>2. t \notin DOMAIN memory' \cup DOMAIN opened' /\ Within(t, d)'
      BY <1>1, <1>4, <3>1 DEF WithoutTable, Restrict, Within
    <3>3. QED
      BY <3>1, <3>2 DEF Undoing
  <2>3. ~StepRaises
    BY <2>1, WhenItRaises
  <2>4. QED
    BY <1>2, <1>4, <2>1, <2>2, <2>3 DEF GoesOn, StepFits, Underway
<1>5. CASE steps = UndoSave(t, d) /\ t \notin DOMAIN memory \cup DOMAIN opened
  <2>1. /\ ~Quiet /\ T = t /\ Head(steps).op = "save" /\ Head(steps).recovery = <<>>
        /\ Tail(steps) = UndoDiscard(t, d)
    BY <1>5, UndoIsList, FirstOfList DEF UndoSave, Quiet, T
  <2>2. ASSUME StepIsTaken PROVE Undoing(t)'
    <3>1. steps' = UndoDiscard(t, d) /\ UNCHANGED <<memory, opened, files>> /\ listed' = memory
      BY <2>1, <2>2, WhichStep DEF SaveCatalog
    <3>2. t \notin DOMAIN memory' \cup DOMAIN listed' \cup DOMAIN opened' /\ Within(t, d)'
      BY <1>1, <1>5, <3>1 DEF Within
    <3>3. QED
      BY <3>1, <3>2 DEF Undoing
  <2>3. ASSUME StepRaises PROVE Over(t)'
    BY <2>1, <2>3, RaiseIsTheEnd
  <2>4. QED
    BY <1>2, <1>5, <2>1, <2>2, <2>3 DEF GoesOn, StepFits, Underway
<1>6. CASE steps = UndoDiscard(t, d) /\ t \notin DOMAIN memory \cup DOMAIN listed \cup DOMAIN opened
  <2>1. /\ ~Quiet /\ T = t /\ Head(steps).op = "discard" /\ Head(steps).recovery = <<>>
        /\ Tail(steps) = <<>> /\ Parts = FilesOf(t, d)
    BY <1>6, NoneIsList, FirstOfList DEF UndoDiscard, Quiet, T, Parts
  <2>2. ASSUME StepIsTaken PROVE Over(t)'
    <3>1. /\ steps' = <<>> /\ UNCHANGED <<memory, listed, opened>>
          /\ files' = Restrict(files, DOMAIN files \ FilesOf(t, d)) /\ loose' = loose \ FilesOf(t, d)
      BY <2>1, <2>2, WhichStep DEF RemoveFiles, Next1, Gone
    <3>2. NoFiles(t)'
      BY <1>1, <3>1 DEF NoFiles, Within, Restrict
    <3>3. Written(t)'
      BY <1>1, <3>1 DEF Written, Within, DefTypeOK
    <3>4. Settled(t)'
      BY <1>6, <3>1, <3>2, <3>3 DEF Settled, NamesAgree
    <3>5. QED
      BY <3>1, <3>4 DEF Over, Quiet
  <2>3. ASSUME StepRaises PROVE Over(t)'
    BY <2>1, <2>3, RaiseIsTheEnd
  <2>4. QED
    BY <1>2, <1>6, <2>1, <2>2, <2>3, FilesHaveTheirTable DEF GoesOn, StepFits, Underway
<1>7. QED
  BY <1>1, <1>3, <1>4, <1>5, <1>6

\* A statement that goes on with RemoveTable, whatever was struck.
LEMMA DroppingBegins ==
  ASSUME NEW t, steps' = DropReach(t), t \in DOMAIN memory',
         \/ t \in struck'
         \/ Within(t, memory[t])' /\ (t \in DOMAIN opened' \/ Settled(t)')
  PROVE  Underway(t)'
BY DEF Dropping, Underway

LEMMA FillingGoesOn ==
  ASSUME DefTypeOK, NEW t \in TableName, Filling(t)
  PROVE  GoesOn(t)
<1>1. Whole(t) /\ Survives(t)
  BY WholeSurvives DEF Filling
<1>2. ASSUME NEW next \in Filled(t), steps = Fill(t, next), memory[t] \in SUBSET {Declared}
      PROVE  GoesOn(t)
  <2>1. /\ ~Quiet /\ T = t /\ Head(steps).op = "load" /\ Head(steps).recovery = DropReach(t)
        /\ Tail(steps) = next
    BY <1>2, FilledIs, FirstOfList DEF Fill, Quiet, T
  <2> DEFINE loaded == FilesOf(t, memory[t])
  <2>2. loaded = FilesOf(t, opened[t]) /\ t \in DOMAIN opened /\ t \in DOMAIN memory
    BY <1>1 DEF Whole, Named
  <2>3. \A content : /\ DOMAIN Holding(loaded, content) = DOMAIN files \cup loaded
                     /\ \A file \in loaded : Holding(loaded, content)[file] = content
                     /\ \A file \in DOMAIN files \ loaded : Holding(loaded, content)[file] = files[file]
    BY DEF Holding
  <2>4. ASSUME StepIsTaken PROVE Filling(t)' \/ Adding(t)'
    <3>1. steps' = next /\ UNCHANGED <<memory, listed, opened>> /\ files' = Holding(loaded, 1)
      BY <2>1, <2>2, <2>4, WhichStep DEF LoadRows
    <3>2. DOMAIN files' = DOMAIN files \cup loaded /\ \A file \in loaded : files'[file] = 1
      BY <2>3, <3>1
    <3>3. Within(t, memory[t])' /\ Complete(t, memory[t])'
      BY <1>1, <3>1, <3>2 DEF Whole, Within, Complete
    <3>4. Even(t, memory[t])'
      BY <3>1, <3>2 DEF Even, Content, FilesOf
    <3>5. Whole(t)'
      BY <1>1, <3>1, <3>3, <3>4 DEF Whole, Named
    <3>6. CASE next = LastFlush(t)
      BY <3>1, <3>5, <3>6, LastFlushIs DEF Filling, LastFlush, RemoveTable
    <3>7. CASE \E i \in IndexName \ {Declared} : next = AddReach(t, i, DropReach(t), LastFlush(t))
      <4> DEFINE way == [recovery |-> DropReach(t), rest |-> LastFlush(t)]
      <4>1. PICK i \in IndexName \ {Declared} : next = AddReach(t, i, DropReach(t), LastFlush(t))
        BY <3>7
      <4>2. way \in Ways(t) /\ way.recovery = DropReach(t) /\ way.rest = LastFlush(t)
        BY DEF Ways
      <4>3. way.recovery # <<>>
        BY <4>2, DropIsList, FirstOfList DEF DropReach
      <4> HIDE DEF way
      <4>4. steps' = AddReach(t, i, way.recovery, way.rest) /\ t \in DOMAIN memory' /\ i \notin memory'[t]
        BY <1>2, <2>2, <3>1, <4>1, <4>2
      <4>5. QED
        BY <3>5, <4>2, <4>3, <4>4 DEF Adding
    <3>8. QED
      BY <3>6, <3>7, FilledIs
  <2>5. ASSUME StepRaises PROVE Underway(t)'
    <3>1. steps' = DropReach(t) /\ UNCHANGED <<memory, opened>>
      BY <2>1, <2>5, WhenItRaises
    <3>2. files' = Holding(loaded, 2)
      BY <2>1, <2>2, <2>5 DEF StepRaises, HalfDone
    <3>3. Within(t, memory[t])'
      BY <1>1, <2>3, <3>1, <3>2 DEF Whole, Within
    <3>4. QED
      BY <2>2, <3>1, <3>3, DroppingBegins
  <2>6. QED
    BY <1>1, <2>1, <2>4, <2>5 DEF GoesOn, StepFits, Underway
<1>3. CASE steps = LastFlush(t)
  <2>1. /\ ~Quiet /\ T = t /\ Head(steps).op = "flush" /\ Head(steps).recovery = DropReach(t)
        /\ Tail(steps) = <<>>
    BY <1>3, NoneIsList, LastFlushIs, FirstOfList DEF Quiet, T
  <2>2. ASSUME StepIsTaken PROVE Over(t)'
    BY <1>1, <2>1, <2>2, WhichStep, FlushSettles DEF Over, Quiet
  <2>3. ASSUME StepRaises PROVE Underway(t)'
    <3>1. steps' = DropReach(t) /\ UNCHANGED <<memory, opened>>
      BY <2>1, <2>3, WhenItRaises
    <3>2. files' = files
      BY <2>1, <2>3 DEF StepRaises, HalfDone
    <3>3. t \in DOMAIN memory' /\ t \in DOMAIN opened' /\ Within(t, memory[t])'
      BY <1>1, <3>1, <3>2 DEF Whole, Named, Within
    <3>4. QED
      BY <3>1, <3>3, DroppingBegins
  <2>4. QED
    BY <1>1, <2>1, <2>2, <2>3 DEF GoesOn, StepFits, Underway
<1>4. QED
  BY <1>2, <1>3 DEF Filling

LEMMA DroppingGoesOn ==
  ASSUME DefTypeOK, NEW t \in TableName, Dropping(t)
  PROVE  GoesOn(t)
<1>1. LeavesWork(DropReach(t)) /\ LeavesWork(DropFiles(t)) /\ LeavesWork(DropForget(t))
      /\ LeavesWork(DropUnregister(t))
  BY DropIsList, ThenLeavesWork DEF DropUnregister, DropForget, DropFiles, DropReach
<1>2. CASE /\ steps = DropReach(t) /\ t \in DOMAIN memory
           /\ t \in struck \/ (Within(t, memory[t]) /\ (t \in DOMAIN opened \/ Settled(t)))
  <2>1. /\ ~Quiet /\ T = t /\ Head(steps).op = "reach" /\ Head(steps).recovery = <<>>
        /\ Tail(steps) = DropFiles(t)
    BY <1>2, DropIsList, FirstOfList DEF DropReach, Quiet, T
  <2>2. ASSUME StepIsTaken PROVE Dropping(t)'
    <3>1. steps' = DropFiles(t) /\ struck' = struck
      BY <2>1, <2>2, WhichStep
    <3>2. CASE t \in DOMAIN opened
      <4>1. UNCHANGED <<memory, files>>
        BY <2>1, <2>2, <3>2, WhichStep DEF ReachTable
      <4>2. Within(t, memory[t]) => Within(t, memory[t])'
        BY <4>1 DEF Within
      <4>3. QED
        BY <1>2, <3>1, <4>1, <4>2, SettledOpenIsWhole DEF Dropping
    <3>3. CASE t \notin DOMAIN opened
      <4>1. OpenTable /\ memory' = memory
        BY <2>1, <2>2, <3>3, WhichStep DEF OpenTable
      <4>2. CASE t \in struck
        BY <1>2, <3>1, <4>1, <4>2 DEF Dropping
      <4>3. CASE Settled(t)
        <5>1. Whole(t)'
          BY <1>2, <2>1, <4>1, <4>3, OpeningSettles
        <5>2. QED
          BY <1>2, <3>1, <4>1, <5>1 DEF Dropping, Whole
      <4>4. QED
        BY <1>2, <3>3, <4>2, <4>3
    <3>4. QED
      BY <3>2, <3>3
  <2>3. ASSUME StepRaises PROVE Over(t)'
    <3>1. steps' = <<>> /\ struck \subseteq struck' /\ t \notin DOMAIN opened
      BY <2>1, <2>3, WhenItRaises
    <3>2. Settled(t) => Settled(t)'
      BY <1>2, <2>1, <2>3, OpeningRaisesSettled
    <3>3. QED
      BY <1>2, <3>1, <3>2 DEF Over, Quiet
  <2>4. QED
    BY <1>1, <1>2, <2>1, <2>2, <2>3 DEF GoesOn, StepFits, Underway
<1>3. CASE steps = DropFiles(t) /\ t \in DOMAIN memory /\ (t \in struck \/ Within(t, memory[t]))
  <2>1. /\ ~Quiet /\ T = t /\ Head(steps).op = "removeTable" /\ Head(steps).recovery = <<>>
        /\ Tail(steps) = DropForget(t)
    BY <1>3, DropIsList, FirstOfList DEF DropFiles, Quiet, T
  <2>2. ASSUME StepIsTaken PROVE Dropping(t)'
    <3>1. /\ steps' = DropForget(t) /\ struck' = struck
          /\ files' = Restrict(files, DOMAIN files \ FilesOf(t, memory[t]))
      BY <2>1, <2>2, WhichStep DEF RemoveFiles, Gone
    <3>2. Within(t, memory[t]) => NoFiles(t)'
      BY <3>1 DEF Within, NoFiles, Restrict
    <3>3. QED
      BY <1>3, <3>1, <3>2 DEF Dropping
  <2>3. ASSUME StepRaises PROVE Over(t)'
    BY <2>1, <2>3, RaiseIsTheEnd
  <2>4. QED
    BY <1>1, <1>3, <2>1, <2>2, <2>3 DEF GoesOn, StepFits, Underway
<1>4. CASE steps = DropForget(t) /\ (t \in struck \/ NoFiles(t))
  <2>1. /\ ~Quiet /\ T = t /\ Head(steps).op = "forget" /\ Tail(steps) = DropUnregister(t)
    BY <1>4, DropIsList, FirstOfList DEF DropForget, Quiet, T
  <2>2. ASSUME StepIsTaken PROVE Dropping(t)'
    <3>1. steps' = DropUnregister(t) /\ UNCHANGED <<struck, files>> /\ opened' = WithoutTable(opened, t)
      BY <2>1, <2>2, WhichStep DEF ForgetTable
    <3>2. t \notin DOMAIN opened' /\ (NoFiles(t) => NoFiles(t)')
      BY <3>1 DEF WithoutTable, Restrict, NoFiles
    <3>3. QED
      BY <1>4, <3>1, <3>2 DEF Dropping
  <2>3. ~StepRaises
    BY <2>1, WhenItRaises
  <2>4. QED
    BY <1>1, <1>4, <2>1, <2>2, <2>3 DEF GoesOn, StepFits, Underway
<1>5. CASE steps = DropUnregister(t) /\ t \notin DOMAIN opened /\ (t \in struck \/ NoFiles(t))
  <2>1. /\ ~Quiet /\ T = t /\ Head(steps).op = "unregister" /\ Tail(steps) = DropSave(t)
    BY <1>5, DropIsList, FirstOfList DEF DropUnregister, Quiet, T
  <2>2. ASSUME StepIsTaken PROVE Dropping(t)'
    <3>1. steps' = DropSave(t) /\ UNCHANGED <<struck, files, opened>> /\ memory' = WithoutTable(memory, t)
      BY <2>1, <2>2, WhichStep DEF ChangeCatalog, Next1
    <3>2. t \notin DOMAIN memory' /\ (NoFiles(t) => NoFiles(t)')
      BY <3>1 DEF WithoutTable, Restrict, NoFiles
    <3>3. QED
      BY <1>5, <3>1, <3>2 DEF Dropping
  <2>3. ~StepRaises
    BY <2>1, WhenItRaises
  <2>4. QED
    BY <1>1, <1>5, <2>1, <2>2, <2>3 DEF GoesOn, StepFits, Underway
<1>6. CASE steps = DropSave(t) /\ t \notin DOMAIN memory \cup DOMAIN opened /\ (t \in struck \/ NoFiles(t))
  <2>1. /\ ~Quiet /\ T = t /\ Head(steps).op = "save" /\ Head(steps).recovery = <<>> /\ Tail(steps) = <<>>
    BY <1>6, NoneIsList, FirstOfList DEF DropSave, Quiet, T
  <2>2. NoFiles(t) => Survives(t)
    BY DEF NoFiles, Survives, Within, Even, Content
  <2>3. ASSUME StepIsTaken PROVE Over(t)'
    <3>1. steps' = <<>> /\ UNCHANGED <<struck, memory, opened, files, loose>> /\ listed' = memory
      BY <2>1, <2>3, WhichStep DEF SaveCatalog
    <3>2. NoFiles(t) => Settled(t)'
      BY <1>6, <3>1 DEF NoFiles, Settled, NamesAgree, Written, DefTypeOK
    <3>3. QED
      BY <1>6, <3>1, <3>2 DEF Over, Quiet
  <2>4. ASSUME StepRaises PROVE Over(t)'
    BY <2>1, <2>4, RaiseIsTheEnd
  <2>5. QED
    BY <1>6, <2>1, <2>2, <2>3, <2>4 DEF GoesOn, StepFits, Underway
<1>7. QED
  BY <1>2, <1>3, <1>4, <1>5, <1>6 DEF Dropping

\* The ways out of AddIndex.
LEMMA WayOut ==
  ASSUME NEW t, NEW way \in Ways(t), steps' = way.recovery, t \in DOMAIN memory',
         \/ t \in struck'
         \/ Within(t, memory[t])' /\ Settled(t)'
         \/ Within(t, memory[t])' /\ t \in DOMAIN opened' /\ way.recovery # <<>>
  PROVE  (Over(t) \/ Underway(t))'
<1>1. CASE way.recovery = <<>>
  BY <1>1 DEF Over, Quiet
<1>2. CASE way.recovery = DropReach(t)
  BY <1>2, DroppingBegins
<1>3. QED
  BY <1>1, <1>2, WaysAreLists

LEMMA WayOn ==
  ASSUME NEW t, NEW way \in Ways(t), steps' = way.rest, Settled(t)', Whole(t)'
  PROVE  (Over(t) \/ Underway(t))'
<1>1. CASE way.rest = <<>>
  BY <1>1 DEF Over, Quiet
<1>2. CASE way.rest = LastFlush(t)
  BY <1>2, LastFlushIs DEF Underway, Filling, LastFlush, RemoveTable
<1>3. QED
  BY <1>1, <1>2, WaysAreLists

LEMMA ReopeningGoesOn ==
  ASSUME DefTypeOK, NEW t \in TableName, Reopening(t)
  PROVE  GoesOn(t)
<1>1. PICK way \in Ways(t) :
        \/ steps = AddClose(t, way.recovery, way.rest) /\ Whole(t)
        \/ /\ steps = AddOpen(t, way.recovery, way.rest)
           /\ Settled(t) /\ t \in DOMAIN memory /\ t \notin DOMAIN opened
  BY DEF Reopening
<1>2. IsList(way.recovery) /\ IsList(way.rest)
  BY WaysAreLists
<1>3. CASE steps = AddClose(t, way.recovery, way.rest) /\ Whole(t)
  <2>1. /\ ~Quiet /\ T = t /\ Head(steps).op = "close" /\ Head(steps).recovery = way.recovery
        /\ Tail(steps) = AddOpen(t, way.recovery, way.rest)
    BY <1>2, <1>3, ReopenIsList, FirstOfList DEF AddClose, Quiet, T
  <2>2. Survives(t) /\ t \in DOMAIN memory
    BY <1>3, WholeSurvives DEF Whole
  <2>3. ASSUME StepIsTaken PROVE Reopening(t)'
    <3>1. /\ steps' = AddOpen(t, way.recovery, way.rest) /\ UNCHANGED <<memory, listed, files>>
          /\ opened' = WithoutTable(opened, t) /\ loose' = loose \ FilesOf(t, opened[t])
      BY <2>1, <2>3, WhichStep DEF CloseTable
    <3>2. t \notin DOMAIN opened'
      BY <3>1 DEF WithoutTable, Restrict
    <3>3. Written(t)'
      BY <1>3, <3>1 DEF Whole, Named, Within, Written, DefTypeOK
    <3>4. Within(t, memory[t])' /\ Even(t, memory[t])'
      BY <1>3, <3>1 DEF Whole, Within, Even, Content
    <3>5. Settled(t)'
      BY <1>3, <3>1, <3>2, <3>3, <3>4 DEF Settled, NamesAgree, Whole, Named
    <3>6. QED
      BY <2>2, <3>1, <3>2, <3>5 DEF Reopening
  <2>4. ASSUME StepRaises PROVE (Over(t) \/ Underway(t))'
    BY <2>1, <2>2, <2>4, WhenItRaises, WayOut
  <2>5. QED
    BY <2>1, <2>2, <2>3, <2>4 DEF GoesOn, StepFits, Underway
<1>4. CASE /\ steps = AddOpen(t, way.recovery, way.rest)
           /\ Settled(t) /\ t \in DOMAIN memory /\ t \notin DOMAIN opened
  <2>1. /\ ~Quiet /\ T = t /\ Head(steps).op = "open" /\ Head(steps).recovery = way.recovery
        /\ Tail(steps) = way.rest
    BY <1>2, <1>4, FirstOfList DEF AddOpen, Quiet, T
  <2>2. Survives(t)
    BY <1>4, SettledSurvives
  <2>3. ASSUME StepIsTaken PROVE (Over(t) \/ Underway(t))'
    BY <1>4, <2>1, <2>3, WhichStep, OpeningSettles, WayOn
  <2>4. ASSUME StepRaises PROVE (Over(t) \/ Underway(t))'
    <3>1. Settled(t)' /\ memory' = memory /\ steps' = way.recovery
      BY <1>4, <2>1, <2>4, OpeningRaisesSettled, WhenItRaises
    <3>2. t \in DOMAIN memory' /\ Within(t, memory[t])'
      BY <1>4, <3>1 DEF Settled
    <3>3. QED
      BY <3>1, <3>2, WayOut
  <2>5. QED
    BY <1>4, <2>1, <2>2, <2>3, <2>4 DEF GoesOn, StepFits, Underway
<1>5. QED
  BY <1>1, <1>3, <1>4

LEMMA UsingGoesOn ==
  ASSUME DefTypeOK, NEW t \in TableName, Using(t)
  PROVE  GoesOn(t)
<1>1. steps = UseReach(t) /\ t \in DOMAIN memory /\ Settled(t) /\ Survives(t)
  BY SettledSurvives DEF Using
<1>2. /\ ~Quiet /\ T = t /\ Head(steps).op = "reach" /\ Head(steps).recovery = <<>> /\ Tail(steps) = <<>>
  BY <1>1, NoneIsList, FirstOfList DEF UseReach, Quiet, T
<1>3. ASSUME StepIsTaken PROVE Over(t)'
  <2>1. CASE t \in DOMAIN opened
    <3>1. steps' = <<>> /\ UNCHANGED <<memory, listed, opened, files, loose>>
      BY <1>2, <1>3, <2>1, WhichStep DEF ReachTable
    <3>2. Settled(t)'
      BY <1>1, <3>1 DEF Settled, NamesAgree, NoFiles, Within, Even, Content, Written, Complete
    <3>3. QED
      BY <3>1, <3>2 DEF Over, Quiet
  <2>2. CASE t \notin DOMAIN opened
    BY <1>1, <1>2, <1>3, <2>2, WhichStep, OpeningSettles DEF Over, Quiet
  <2>3. QED
    BY <2>1, <2>2
<1>4. ASSUME StepRaises PROVE Over(t)'
  BY <1>1, <1>2, <1>4, WhenItRaises, OpeningRaisesSettled DEF Over, Quiet
<1>5. QED
  BY <1>1, <1>2, <1>3, <1>4 DEF GoesOn, StepFits, Underway

\* Reaching a settled table opens it, if it was not, and tells nothing else of it.
LEMMA ReachingSettles ==
  ASSUME DefTypeOK, NEW t, t = T, Settled(t), t \in DOMAIN memory, StepIsTaken, Head(steps).op = "reach"
  PROVE  Settled(t)' /\ Whole(t)' /\ t \in DOMAIN opened' /\ memory' = memory
<1>1. CASE t \in DOMAIN opened
  <2>1. UNCHANGED <<memory, listed, opened, files, loose>>
    BY <1>1, WhichStep DEF ReachTable
  <2>2. Settled(t)'
    BY <2>1 DEF Settled, NamesAgree, NoFiles, Within, Even, Content, Written, Complete
  <2>3. Whole(t)'
    BY <1>1, <2>1, SettledOpenIsWhole DEF Whole, Named, Within, Even, Content, Complete
  <2>4. QED
    BY <1>1, <2>1, <2>2, <2>3
<1>2. CASE t \notin DOMAIN opened
  BY <1>2, WhichStep, OpeningSettles
<1>3. QED
  BY <1>1, <1>2

LEMMA CuttingGoesOn ==
  ASSUME DefTypeOK, NEW t \in TableName, Cutting(t)
  PROVE  GoesOn(t)
<1>1. PICK i \in IndexName :
        \/ steps = CutReach(t, i) /\ t \in DOMAIN memory /\ i \in memory[t] /\ Settled(t)
        \/ /\ steps = CutFiles(t, i) /\ t \in DOMAIN memory /\ i \in memory[t] /\ Settled(t)
           /\ t \in DOMAIN opened
        \/ /\ Standing(t) /\ Written(t) /\ i \notin opened[t]
           /\ \/ steps = CutName(t, i) /\ Named(memory, t, opened[t] \cup {i})
              \/ steps = CutSave(t) /\ Named(memory, t, opened[t])
  BY DEF Cutting
<1>2. LeavesWork(CutSave(t)) /\ LeavesWork(CutName(t, i)) /\ LeavesWork(CutFiles(t, i))
      /\ LeavesWork(CutReach(t, i))
  BY NoneIsList, ReopenIsList, CutSaveIsList, CutIsList, ThenLeavesWork DEF CutSave, CutName, CutFiles, CutReach, AddClose
<1>3. CASE steps = CutReach(t, i) /\ t \in DOMAIN memory /\ i \in memory[t] /\ Settled(t)
  <2>1. /\ ~Quiet /\ T = t /\ Head(steps).op = "reach" /\ Head(steps).recovery = <<>>
        /\ Tail(steps) = CutFiles(t, i)
    BY <1>3, CutIsList, FirstOfList DEF CutReach, Quiet, T
  <2>2. ASSUME StepIsTaken PROVE Cutting(t)'
    BY <1>3, <2>1, <2>2, WhichStep, ReachingSettles DEF Cutting
  <2>3. ASSUME StepRaises PROVE Over(t)'
    BY <1>3, <2>1, <2>3, WhenItRaises, OpeningRaisesSettled DEF Over, Quiet
  <2>4. QED
    BY <1>2, <1>3, <2>1, <2>2, <2>3 DEF GoesOn, StepFits, Underway
<1>4. CASE /\ steps = CutFiles(t, i) /\ t \in DOMAIN memory /\ i \in memory[t] /\ Settled(t)
           /\ t \in DOMAIN opened
  <2>1. /\ ~Quiet /\ T = t /\ Head(steps).op = "removeIndex" /\ Head(steps).recovery = <<>>
        /\ Tail(steps) = CutName(t, i) /\ Parts = {i}
    BY <1>4, CutIsList, FirstOfList DEF CutFiles, Quiet, T, Parts
  <2>2. ASSUME StepIsTaken PROVE Cutting(t)'
    <3>1. /\ steps' = CutName(t, i) /\ UNCHANGED memory
          /\ opened' = [opened EXCEPT ![t] = @ \ {i}]
          /\ files' = Restrict(files, DOMAIN files \ {<<t, i>>}) /\ loose' = loose \ {<<t, i>>}
      <4>1. Gone = {<<t, i>>}
        BY <2>1 DEF Gone
      <4>2. RemoveFiles /\ steps' = CutName(t, i)
        BY <2>1, <2>2, WhichStep
      <4>3. QED
        BY <2>1, <4>1, <4>2 DEF RemoveFiles, Next1
    <3>2. Whole(t) /\ Written(t)
      BY <1>4, SettledOpenIsWhole
    <3>3. t \in DOMAIN opened' /\ opened'[t] = memory[t] \ {i}
      BY <3>1, <3>2 DEF Whole, Named, DefTypeOK
    <3>4. /\ DOMAIN files' = DOMAIN files \ {<<t, i>>}
          /\ \A file \in DOMAIN files' : files'[file] = files[file]
      BY <3>1 DEF Restrict
    <3>5. Within(t, opened[t])' /\ Complete(t, opened[t])'
      BY <3>2, <3>3, <3>4, DefAssumption DEF Whole, Within, Complete, FilesOf
    <3>6. \A part : part # i => Content(<<t, part>>)' = Content(<<t, part>>)
      BY <3>4 DEF Content
    <3>7. Even(t, opened[t])'
      BY <3>2, <3>3, <3>6, DefAssumption DEF Whole, Even
    <3>8. Written(t)'
      BY <3>1, <3>2, <3>4 DEF Written, DefTypeOK
    <3>9. Named(memory, t, opened[t] \cup {i})'
      BY <1>4, <3>1, <3>3 DEF Named
    <3>10. Standing(t)' /\ i \notin opened'[t]
      BY <3>3, <3>5, <3>7 DEF Standing
    <3>11. QED
      BY <3>1, <3>8, <3>9, <3>10 DEF Cutting
  <2>3. ASSUME StepRaises PROVE Over(t)'
    BY <2>1, <2>3, RaiseIsTheEnd
  <2>4. QED
    BY <1>2, <1>4, <2>1, <2>2, <2>3 DEF GoesOn, StepFits, Underway
<1>5. CASE /\ Standing(t) /\ Written(t) /\ i \notin opened[t]
           /\ steps = CutName(t, i) /\ Named(memory, t, opened[t] \cup {i})
  <2>1. /\ ~Quiet /\ T = t /\ Head(steps).op = "dropIndex" /\ Tail(steps) = CutSave(t) /\ Parts = {i}
    BY <1>5, CutSaveIsList, FirstOfList DEF CutName, Quiet, T, Parts
  <2>2. ASSUME StepIsTaken PROVE Cutting(t)'
    <3>1. /\ steps' = CutSave(t) /\ UNCHANGED <<opened, files, loose>>
          /\ memory' = [memory EXCEPT ![t] = @ \ {i}]
      BY <2>1, <2>2, WhichStep DEF ChangeCatalog, Next1
    <3>2. Standing(t)' /\ Written(t)'
      BY <1>5, <3>1 DEF Standing, Within, Complete, Even, Content, Written
    <3>3. Named(memory, t, opened[t])'
      BY <1>5, <3>1 DEF Named, DefTypeOK
    <3>4. QED
      BY <1>5, <3>1, <3>2, <3>3 DEF Cutting
  <2>3. ~StepRaises
    BY <2>1, WhenItRaises
  <2>4. QED
    BY <1>2, <1>5, <2>1, <2>2, <2>3 DEF GoesOn, StepFits, Underway
<1>6. CASE /\ Standing(t) /\ Written(t) /\ i \notin opened[t]
           /\ steps = CutSave(t) /\ Named(memory, t, opened[t])
  <2>1. /\ ~Quiet /\ T = t /\ Head(steps).op = "save" /\ Head(steps).recovery = <<>>
        /\ Tail(steps) = AddClose(t, <<>>, <<>>)
    BY <1>6, CutSaveIsList, FirstOfList DEF CutSave, Quiet, T
  <2>2. ASSUME StepIsTaken PROVE Reopening(t)'
    <3>1. steps' = AddClose(t, <<>>, <<>>) /\ UNCHANGED <<memory, opened, files, loose>> /\ listed' = memory
      BY <2>1, <2>2, WhichStep DEF SaveCatalog
    <3>2. Whole(t)'
      BY <1>6, <3>1 DEF Standing, Whole, Named, Within, Complete, Even, Content
    <3> DEFINE way == [recovery |-> <<>>, rest |-> <<>>]
    <3>3. way \in Ways(t) /\ way.recovery = <<>> /\ way.rest = <<>>
      BY DEF Ways
    <3> HIDE DEF way
    <3>4. QED
      BY <3>1, <3>2, <3>3 DEF Reopening
  <2>3. ASSUME StepRaises PROVE Over(t)'
    BY <2>1, <2>3, RaiseIsTheEnd
  <2>4. QED
    BY <1>2, <1>6, <2>1, <2>2, <2>3 DEF GoesOn, StepFits, Underway
<1>7. QED
  BY <1>1, <1>3, <1>4, <1>5, <1>6

LEMMA OneMoreFile ==
  ASSUME NEW t, NEW x, NEW i, i \notin x, i # Rows
  PROVE  FilesOf(t, x \cup {i}) = FilesOf(t, x) \cup {<<t, i>>} /\ <<t, i>> \notin FilesOf(t, x)
<1>1. \A part : part \in {Rows} \cup (x \cup {i}) <=> part \in {Rows} \cup x \/ part = i
  OBVIOUS
<1>2. FilesOf(t, x \cup {i}) = FilesOf(t, x) \cup {<<t, i>>}
  BY <1>1 DEF FilesOf
<1>3. QED
  BY <1>2 DEF FilesOf

LEMMA AddingGoesOn ==
  ASSUME DefTypeOK, NEW t \in TableName, Adding(t)
  PROVE  GoesOn(t)
<1>1. PICK i \in IndexName, way \in Ways(t) :
        \/ /\ steps = AddReach(t, i, way.recovery, way.rest)
           /\ t \in DOMAIN memory /\ i \notin memory[t]
           /\ IF way.recovery = <<>> THEN Settled(t) ELSE Whole(t)
        \/ /\ steps = AddName(t, i, way.recovery, way.rest)
           /\ Whole(t) /\ i \notin memory[t] /\ WrittenIf(t, way)
        \/ /\ steps = AddSave(t, i, way.recovery, way.rest)
           /\ Standing(t) /\ i \notin opened[t] /\ WrittenIf(t, way)
           /\ Named(memory, t, opened[t] \cup {i})
        \/ /\ steps = AddBuild(t, i, way.recovery, way.rest)
           /\ Standing(t) /\ i \notin opened[t] /\ WrittenIf(t, way)
           /\ Named(memory, t, opened[t] \cup {i}) /\ Named(listed, t, memory[t])
  BY DEF Adding
<1>2. IsList(way.recovery) /\ IsList(way.rest) /\ i # Rows
  BY WaysAreLists, DefAssumption
<1>3. /\ LeavesWork(AddReach(t, i, way.recovery, way.rest)) /\ LeavesWork(AddName(t, i, way.recovery, way.rest))
      /\ LeavesWork(AddSave(t, i, way.recovery, way.rest)) /\ LeavesWork(AddBuild(t, i, way.recovery, way.rest))
  BY <1>2, ReopenIsList, AddIsList, ThenLeavesWork DEF AddReach, AddName, AddSave, AddBuild
<1>4. CASE /\ steps = AddReach(t, i, way.recovery, way.rest)
           /\ t \in DOMAIN memory /\ i \notin memory[t]
           /\ IF way.recovery = <<>> THEN Settled(t) ELSE Whole(t)
  <2>1. /\ ~Quiet /\ T = t /\ Head(steps).op = "reach" /\ Head(steps).recovery = way.recovery
        /\ Tail(steps) = AddName(t, i, way.recovery, way.rest)
    BY <1>2, <1>4, AddIsList, FirstOfList DEF AddReach, Quiet, T
  <2>2. ASSUME StepIsTaken PROVE Adding(t)'
    <3>1. steps' = AddName(t, i, way.recovery, way.rest)
      BY <2>1, <2>2, WhichStep
    <3>2. Whole(t)' /\ memory' = memory /\ (way.recovery = <<>> => Written(t)')
      <4>1. CASE way.recovery = <<>>
        <5>1. Settled(t)' /\ Whole(t)' /\ memory' = memory
          BY <1>4, <2>1, <2>2, <4>1, ReachingSettles
        <5>2. QED
          BY <5>1 DEF Settled
      <4>2. CASE way.recovery # <<>>
        <5>1. Whole(t)
          BY <1>4, <4>2
        <5>2. UNCHANGED <<memory, listed, opened, files>>
          BY <2>1, <2>2, <5>1, WhichStep DEF ReachTable, Whole, Named
        <5>3. QED
          BY <4>2, <5>1, <5>2 DEF Whole, Named, Within, Complete, Even, Content
      <4>3. QED
        BY <4>1, <4>2
    <3>3. WrittenIf(t, way)'
      BY <3>2 DEF WrittenIf
    <3>4. QED
      BY <1>4, <3>1, <3>2, <3>3 DEF Adding
  <2>3. ASSUME StepRaises PROVE (Over(t) \/ Underway(t))'
    <3>1. steps' = way.recovery /\ memory' = memory /\ t \notin DOMAIN opened
      BY <2>1, <2>3, WhenItRaises
    <3>2. Settled(t)
      BY <1>4, <3>1 DEF Whole, Named
    <3>3. Settled(t)'
      BY <1>4, <2>1, <2>3, <3>2, OpeningRaisesSettled
    <3>4. t \in DOMAIN memory' /\ Within(t, memory[t])'
      BY <1>4, <3>1, <3>3 DEF Settled
    <3>5. QED
      BY <3>1, <3>3, <3>4, WayOut
  <2>4. QED
    BY <1>3, <1>4, <2>1, <2>2, <2>3 DEF GoesOn, StepFits, Underway
<1>5. CASE /\ steps = AddName(t, i, way.recovery, way.rest)
           /\ Whole(t) /\ i \notin memory[t] /\ WrittenIf(t, way)
  <2>1. /\ ~Quiet /\ T = t /\ Head(steps).op = "addIndex" /\ Parts = {i}
        /\ Tail(steps) = AddSave(t, i, way.recovery, way.rest)
    BY <1>2, <1>5, AddIsList, FirstOfList DEF AddName, Quiet, T, Parts
  <2>2. ASSUME StepIsTaken PROVE Adding(t)'
    <3>1. /\ steps' = AddSave(t, i, way.recovery, way.rest) /\ UNCHANGED <<opened, files, loose>>
          /\ memory' = [memory EXCEPT ![t] = @ \cup {i}]
      BY <2>1, <2>2, WhichStep DEF ChangeCatalog, Next1
    <3>2. Standing(t)' /\ i \notin opened'[t]
      BY <1>5, <3>1 DEF Standing, Whole, Named, Within, Complete, Even, Content
    <3>3. WrittenIf(t, way)'
      BY <1>5, <3>1 DEF WrittenIf, Written
    <3>4. Named(memory, t, opened[t] \cup {i})'
      BY <1>5, <3>1 DEF Whole, Named, DefTypeOK
    <3>5. QED
      BY <3>1, <3>2, <3>3, <3>4 DEF Adding
  <2>3. ~StepRaises
    BY <2>1, WhenItRaises
  <2>4. QED
    BY <1>3, <1>5, <2>1, <2>2, <2>3 DEF GoesOn, StepFits, Underway
<1>6. CASE /\ steps = AddSave(t, i, way.recovery, way.rest)
           /\ Standing(t) /\ i \notin opened[t] /\ WrittenIf(t, way)
           /\ Named(memory, t, opened[t] \cup {i})
  <2>1. /\ ~Quiet /\ T = t /\ Head(steps).op = "save" /\ Head(steps).recovery = way.recovery
        /\ Tail(steps) = AddBuild(t, i, way.recovery, way.rest)
    BY <1>2, <1>6, AddIsList, FirstOfList DEF AddSave, Quiet, T
  <2>2. ASSUME StepIsTaken PROVE Adding(t)'
    <3>1. /\ steps' = AddBuild(t, i, way.recovery, way.rest) /\ UNCHANGED <<memory, opened, files, loose>>
          /\ listed' = memory
      BY <2>1, <2>2, WhichStep DEF SaveCatalog
    <3>2. Standing(t)' /\ i \notin opened'[t]
      BY <1>6, <3>1 DEF Standing, Within, Complete, Even, Content
    <3>3. WrittenIf(t, way)'
      BY <1>6, <3>1 DEF WrittenIf, Written
    <3>4. Named(memory, t, opened[t] \cup {i})' /\ Named(listed, t, memory[t])'
      BY <1>6, <3>1 DEF Named
    <3>5. QED
      BY <3>1, <3>2, <3>3, <3>4 DEF Adding
  <2>3. ASSUME StepRaises PROVE (Over(t) \/ Underway(t))'
    BY <1>6, <2>1, <2>3, WhenItRaises, WayOut DEF Named
  <2>4. QED
    BY <1>3, <1>6, <2>1, <2>2, <2>3 DEF GoesOn, StepFits, Underway
<1>7. CASE /\ steps = AddBuild(t, i, way.recovery, way.rest)
           /\ Standing(t) /\ i \notin opened[t] /\ WrittenIf(t, way)
           /\ Named(memory, t, opened[t] \cup {i}) /\ Named(listed, t, memory[t])
  <2>1. /\ ~Quiet /\ T = t /\ Head(steps).op = "build" /\ Parts = {i}
        /\ Head(steps).recovery = UnbuildName(t, i, way.recovery)
        /\ Tail(steps) = AddClose(t, way.recovery, way.rest)
    BY <1>2, <1>7, ReopenIsList, FirstOfList DEF AddBuild, Quiet, T, Parts
  <2>2. <<t, Rows>> \in DOMAIN files /\ <<t, Rows>> # <<t, i>>
    BY <1>2, <1>7 DEF Standing, Complete, FilesOf
  <2>3. \A content : /\ DOMAIN Holding({<<t, i>>}, content) = DOMAIN files \cup {<<t, i>>}
                     /\ Holding({<<t, i>>}, content)[<<t, i>>] = content
                     /\ \A file \in DOMAIN files \ {<<t, i>>} :
                          Holding({<<t, i>>}, content)[file] = files[file]
    BY DEF Holding
  <2>4. {<<T, j>> : j \in Parts} = {<<t, i>>}
    BY <2>1
  <2>5. ASSUME StepIsTaken PROVE Reopening(t)'
    <3>1. /\ steps' = AddClose(t, way.recovery, way.rest) /\ UNCHANGED <<memory, listed>>
          /\ files' = Holding({<<t, i>>}, files[<<t, Rows>>])
          /\ opened' = [opened EXCEPT ![t] = @ \cup {i}]
      BY <2>1, <2>4, <2>5, WhichStep DEF BuildIndex
    <3>2. t \in DOMAIN opened' /\ opened'[t] = opened[t] \cup {i} /\ opened'[t] = memory[t]
      BY <1>7, <3>1 DEF Standing, Named, DefTypeOK
    <3>3. Within(t, memory[t])' /\ Complete(t, memory[t])'
      <4>1. FilesOf(t, opened[t] \cup {i}) = FilesOf(t, opened[t]) \cup {<<t, i>>}
        BY <1>2, <1>7, OneMoreFile
      <4>2. memory'[t] = opened[t] \cup {i}
        BY <1>7, <3>1 DEF Named
      <4>3. QED
        BY <1>7, <2>3, <3>1, <4>1, <4>2 DEF Standing, Within, Complete
    <3>4. /\ Content(<<t, i>>)' = Content(<<t, Rows>>)
          /\ \A part : part # i => Content(<<t, part>>)' = Content(<<t, part>>)
      BY <2>2, <2>3, <3>1 DEF Content
    <3>5. Even(t, memory[t])'
      BY <1>2, <1>7, <3>1, <3>2, <3>4 DEF Standing, Even
    <3>6. Whole(t)'
      BY <1>7, <3>1, <3>2, <3>3, <3>5 DEF Whole, Named
    <3>7. QED
      BY <3>1, <3>6 DEF Reopening
  <2>6. ASSUME StepRaises PROVE Unbuilding(t)'
    <3>1. /\ steps' = UnbuildName(t, i, way.recovery) /\ UNCHANGED <<memory, opened>>
          /\ files' = Holding({<<t, i>>}, 2)
      BY <2>1, <2>4, <2>6, WhenItRaises DEF StepRaises, HalfDone
    <3>2. Within(t, opened[t] \cup {i})' /\ Complete(t, opened[t])'
      <4>1. FilesOf(t, opened[t] \cup {i}) = FilesOf(t, opened[t]) \cup {<<t, i>>}
        BY <1>2, <1>7, OneMoreFile
      <4>2. QED
        BY <1>7, <2>3, <3>1, <4>1 DEF Standing, Within, Complete
    <3>3. /\ \A file : file # <<t, i>> =>
                /\ file \in DOMAIN files' <=> file \in DOMAIN files
                /\ file \in DOMAIN files => files'[file] = files[file]
          /\ \A part : part # i => Content(<<t, part>>)' = Content(<<t, part>>)
      <4>1. ASSUME NEW file, file # <<t, i>>
            PROVE  /\ file \in DOMAIN files' <=> file \in DOMAIN files
                   /\ file \in DOMAIN files => files'[file] = files[file]
        BY <2>3, <3>1, <4>1
      <4>2. ASSUME NEW part, part # i
            PROVE  Content(<<t, part>>)' = Content(<<t, part>>)
        <5>1. <<t, part>> # <<t, i>>
          BY <4>2
        <5>2. QED
          BY <4>1, <5>1 DEF Content
      <4>3. QED
        BY <4>1, <4>2
    <3>4. Even(t, opened[t])'
      BY <1>2, <1>7, <3>1, <3>3 DEF Standing, Even
    <3>5. ASSUME way.recovery = <<>>, NEW file \in loose', file[1] = t, file # <<t, i>>
          PROVE  files'[file] = 0
      <4>1. file \in DOMAIN files' /\ (file \in loose \/ file \notin DOMAIN files \/ files'[file] = 2)
        BY <2>6, <3>5 DEF StepRaises
      <4>2. file \in DOMAIN files /\ files'[file] = files[file]
        BY <3>3, <3>5, <4>1
      <4>3. files[file] # 2
        <5>1. PICK part \in {Rows} \cup opened[t] : file = <<t, part>>
          BY <1>7, <3>5, <4>2 DEF Standing, Within, FilesOf
        <5>2. Content(<<t, part>>) # 2
          BY <1>7, <5>1 DEF Standing, Even
        <5>3. QED
          BY <4>2, <5>1, <5>2 DEF Content
      <4>4. QED
        BY <1>7, <3>5, <4>1, <4>2, <4>3 DEF WrittenIf, Written
    <3>6. QED
      BY <1>7, <3>1, <3>2, <3>4, <3>5 DEF Unbuilding, Standing, Named
  <2>7. QED
    BY <1>3, <1>7, <2>1, <2>2, <2>5, <2>6 DEF GoesOn, StepFits, Underway
<1>8. QED
  BY <1>1, <1>4, <1>5, <1>6, <1>7

LEMMA UnbuildingGoesOn ==
  ASSUME DefTypeOK, NEW t \in TableName, Unbuilding(t)
  PROVE  GoesOn(t)
<1>1. PICK i \in IndexName, way \in Ways(t) :
        /\ t \in DOMAIN opened /\ i \notin opened[t]
        /\ Within(t, opened[t] \cup {i}) /\ Complete(t, opened[t]) /\ Even(t, opened[t])
        /\ way.recovery = <<>> =>
             \A file \in loose : file[1] = t => file = <<t, i>> \/ files[file] = 0
        /\ \/ /\ steps = UnbuildName(t, i, way.recovery)
              /\ Named(memory, t, opened[t] \cup {i})
           \/ /\ steps = UnbuildSave(t, i, way.recovery)
              /\ Named(memory, t, opened[t])
           \/ /\ steps = UnbuildDiscard(t, i, way.recovery)
              /\ Named(memory, t, opened[t]) /\ Named(listed, t, opened[t])
  BY DEF Unbuilding
<1>2. IsList(way.recovery) /\ IsList(way.rest) /\ i # Rows
  BY WaysAreLists, DefAssumption
<1>3. /\ LeavesWork(UnbuildName(t, i, way.recovery)) /\ LeavesWork(UnbuildSave(t, i, way.recovery))
      /\ LeavesWork(UnbuildDiscard(t, i, way.recovery))
  BY <1>2, UnbuildIsList, ThenLeavesWork DEF UnbuildName, UnbuildSave, UnbuildDiscard
<1>4. ASSUME UNCHANGED <<opened, files, loose>>
      PROVE  /\ t \in DOMAIN opened' /\ i \notin opened'[t]
             /\ Within(t, opened[t] \cup {i})' /\ Complete(t, opened[t])' /\ Even(t, opened[t])'
             /\ way.recovery = <<>> =>
                  \A file \in loose' : file[1] = t => file = <<t, i>> \/ files'[file] = 0
  BY <1>1, <1>4 DEF Within, Complete, Even, Content
<1>5. CASE steps = UnbuildName(t, i, way.recovery) /\ Named(memory, t, opened[t] \cup {i})
  <2>1. /\ ~Quiet /\ T = t /\ Head(steps).op = "dropIndex" /\ Parts = {i}
        /\ Tail(steps) = UnbuildSave(t, i, way.recovery)
    BY <1>2, <1>5, UnbuildIsList, FirstOfList DEF UnbuildName, Quiet, T, Parts
  <2>2. ASSUME StepIsTaken PROVE Unbuilding(t)'
    <3>1. /\ steps' = UnbuildSave(t, i, way.recovery) /\ UNCHANGED <<opened, files, loose>>
          /\ memory' = [memory EXCEPT ![t] = @ \ {i}]
      BY <2>1, <2>2, WhichStep DEF ChangeCatalog, Next1
    <3>2. Named(memory, t, opened[t])'
      BY <1>1, <1>5, <3>1 DEF Named, DefTypeOK
    <3>3. QED
      BY <1>4, <3>1, <3>2 DEF Unbuilding
  <2>3. ~StepRaises
    BY <2>1, WhenItRaises
  <2>4. QED
    BY <1>3, <1>5, <2>1, <2>2, <2>3 DEF GoesOn, StepFits, Underway
<1>6. CASE steps = UnbuildSave(t, i, way.recovery) /\ Named(memory, t, opened[t])
  <2>1. /\ ~Quiet /\ T = t /\ Head(steps).op = "save" /\ Head(steps).recovery = way.recovery
        /\ Tail(steps) = UnbuildDiscard(t, i, way.recovery)
    BY <1>2, <1>6, UnbuildIsList, FirstOfList DEF UnbuildSave, Quiet, T
  <2>2. ASSUME StepIsTaken PROVE Unbuilding(t)'
    <3>1. /\ steps' = UnbuildDiscard(t, i, way.recovery) /\ UNCHANGED <<memory, opened, files, loose>>
          /\ listed' = memory
      BY <2>1, <2>2, WhichStep DEF SaveCatalog
    <3>2. Named(memory, t, opened[t])' /\ Named(listed, t, opened[t])'
      BY <1>6, <3>1 DEF Named
    <3>3. QED
      BY <1>4, <3>1, <3>2 DEF Unbuilding
  <2>3. ASSUME StepRaises PROVE (Over(t) \/ Underway(t))'
    BY <1>6, <2>1, <2>3, WhenItRaises, WayOut DEF Named
  <2>4. QED
    BY <1>3, <1>6, <2>1, <2>2, <2>3 DEF GoesOn, StepFits, Underway
<1>7. CASE /\ steps = UnbuildDiscard(t, i, way.recovery)
           /\ Named(memory, t, opened[t]) /\ Named(listed, t, opened[t])
  <2>1. /\ ~Quiet /\ T = t /\ Head(steps).op = "discard" /\ Head(steps).recovery = way.recovery
        /\ Tail(steps) = way.recovery /\ Parts = {<<t, i>>}
    BY <1>2, <1>7, FirstOfList DEF UnbuildDiscard, Quiet, T, Parts
  <2>2. ASSUME StepIsTaken PROVE (Over(t) \/ Underway(t))'
    <3>1. /\ steps' = way.recovery /\ UNCHANGED <<memory, listed, opened>>
          /\ files' = Restrict(files, DOMAIN files \ {<<t, i>>}) /\ loose' = loose \ {<<t, i>>}
      <4>1. Gone = {<<t, i>>}
        BY <2>1 DEF Gone
      <4>2. RemoveFiles /\ steps' = way.recovery
        BY <2>1, <2>2, WhichStep
      <4>3. QED
        BY <2>1, <4>1, <4>2 DEF RemoveFiles, Next1
    <3>2. /\ DOMAIN files' = DOMAIN files \ {<<t, i>>}
          /\ \A file \in DOMAIN files' : files'[file] = files[file]
      BY <3>1 DEF Restrict
    <3>3. Within(t, memory[t])' /\ Complete(t, memory[t])'
      <4>1. /\ FilesOf(t, opened[t] \cup {i}) = FilesOf(t, opened[t]) \cup {<<t, i>>}
            /\ <<t, i>> \notin FilesOf(t, opened[t])
        BY <1>1, <1>2, OneMoreFile
      <4>2. memory'[t] = opened[t]
        BY <1>7, <3>1 DEF Named
      <4>3. QED
        BY <1>1, <3>2, <4>1, <4>2 DEF Within, Complete
    <3>4. \A part : part # i => Content(<<t, part>>)' = Content(<<t, part>>)
      BY <3>2 DEF Content
    <3>5. Even(t, memory[t])'
      BY <1>1, <1>2, <1>7, <3>1, <3>4 DEF Named, Even
    <3>6. Whole(t)'
      BY <1>1, <1>7, <3>1, <3>3, <3>5 DEF Whole, Named
    <3>7. CASE way.recovery = <<>>
      <4>1. Written(t)'
        BY <1>1, <3>1, <3>2, <3>7 DEF Written, DefTypeOK
      <4>2. Settled(t)'
        BY <3>6, <4>1 DEF Settled, NamesAgree, Whole, Named
      <4>3. QED
        BY <3>1, <3>7, <4>2 DEF Over, Quiet
    <3>8. CASE way.recovery # <<>>
      BY <3>1, <3>6, <3>8, WayOut DEF Whole, Named
    <3>9. QED
      BY <3>7, <3>8
  <2>3. ASSUME StepRaises PROVE (Over(t) \/ Underway(t))'
    BY <1>7, <2>1, <2>3, WhenItRaises, WayOut DEF Named
  <2>4. QED
    BY <1>3, <1>7, <2>1, <2>2, <2>3 DEF GoesOn, StepFits, Underway
<1>8. QED
  BY <1>1, <1>5, <1>6, <1>7

-----------------------------------------------------------------------------
(* The theorems.                                                            *)

LEMMA UnderwayGoesOn ==
  ASSUME DefTypeOK, NEW t \in TableName, Underway(t)
  PROVE  GoesOn(t)
BY CreatingGoesOn, UndoingGoesOn, FillingGoesOn, DroppingGoesOn, AddingGoesOn, ReopeningGoesOn,
   UnbuildingGoesOn, CuttingGoesOn, UsingGoesOn DEF Underway

LEMMA DefIInvInit ==
  ASSUME DefInit
  PROVE  DefIInv
<1>1. DefTypeOK
  BY DEF DefInit, DefTypeOK
<1>2. ASSUME NEW u PROVE Settled(u)
  BY DEF DefInit, Settled, NamesAgree, NoFiles, Written
<1>3. QED
  BY <1>1, <1>2 DEF DefInit, DefIInv, Quiet

\* A statement in course.
LEMMA DefIInvInStatement ==
  ASSUME DefTypeOK, NEW t \in TableName, Underway(t), OthersSettled(t), DefNext
  PROVE  DefIInv'
<1>1. GoesOn(t) /\ ~Quiet /\ T = t
  BY UnderwayGoesOn DEF GoesOn, StepFits
<1>2. CASE StepIsTaken \/ StepRaises
  <2>1. DefTypeOK' /\ \A u \in TableName \ (struck' \cup {t}) : Settled(u)'
    BY <1>1, <1>2, StepKeepsOthers DEF GoesOn
  <2>2. (Over(t) \/ Underway(t))'
    BY <1>1, <1>2 DEF GoesOn
  <2>3. QED
    BY <2>1, <2>2 DEF DefIInv, Over, OthersSettled
<1>3. CASE ProcessEnds
  <2>1. DefTypeOK'
    BY <1>1, <1>3, EndKeepsTypes
  <2>2. Quiet' /\ (t \in struck' \/ Settled(t)')
    BY <1>1, <1>3, EndIsOver DEF GoesOn
  <2>3. ASSUME NEW u \in TableName \ struck', u # t PROVE Settled(u)'
    <3>1. u \notin struck
      BY <1>3 DEF ProcessEnds
    <3>2. QED
      BY <1>3, <2>3, <3>1, EndSettles DEF OthersSettled
  <2>4. QED
    BY <2>1, <2>2, <2>3 DEF DefIInv
<1>4. QED
  BY <1>1, <1>2, <1>3, WhatMayHappen

\* A statement that begins.
LEMMA StartChanges ==
  ASSUME NEW t, NEW list, Start(t, list), NEW u, Settled(u)
  PROVE  Settled(u)'
BY DEF Start, Settled, NamesAgree, NoFiles, Within, Even, Content, Written, Complete

LEMMA DefIInvBegins ==
  ASSUME DefTypeOK, Quiet, \A u \in TableName \ struck : Settled(u), NEW t \in TableName, NEW list,
         Start(t, list), (Underway(t))'
  PROVE  DefIInv'
<1>1. DefTypeOK' /\ struck' = struck
  BY DEF Start, DefTypeOK
<1>2. OthersSettled(t)'
  BY <1>1, StartChanges DEF OthersSettled
<1>3. QED
  BY <1>1, <1>2 DEF DefIInv

\* Each statement begins at the first of its steps.
LEMMA StatementsBegin ==
  ASSUME Quiet, \A u \in TableName \ struck : Settled(u), NEW t \in TableName, NEW i \in IndexName,
         CreateTable(t) \/ CreateFromFile(t) \/ DropTable(t) \/ UseTable(t) \/ CreateIndex(t, i) \/ DropIndexOf(t, i)
  PROVE  \E list : Start(t, list) /\ (Underway(t))'
<1>1. ASSUME NEW list, Start(t, list)
      PROVE  /\ steps' = list /\ Settled(t) /\ Settled(t)' /\ memory' = memory /\ opened' = opened
  BY <1>1, StartChanges DEF Start
<1>2. CASE CreateTable(t)
  <2>1. PICK d \in SUBSET {Declared} : t \notin DOMAIN memory /\ Start(t, Register(t, d, <<>>))
    BY <1>2 DEF CreateTable
  <2>2. Register(t, d, <<>>) = NewRegister(t, d, <<>>)
    BY DEF Register, Saved, Unregister, NewRegister, NewSave, NewOpen, NewFlush,
           UndoForget, UndoUnregister, UndoSave, UndoDiscard
  <2>3. QED
    BY <1>1, <2>1, <2>2 DEF Creating, Underway
<1>3. CASE CreateFromFile(t)
  <2>1. PICK d \in SUBSET {Declared}, next \in Filled(t) :
          t \notin DOMAIN memory /\ Start(t, FromFile(t, d, next))
    BY <1>3 DEF CreateFromFile
  <2>2. FromFile(t, d, next) = NewRegister(t, d, Fill(t, next))
    BY RemoveTableIs DEF FromFile, Fill, Register, Saved, Unregister, NewRegister, NewSave, NewOpen, NewFlush,
           UndoForget, UndoUnregister, UndoSave, UndoDiscard
  <2>3. Fill(t, next) \in {<<>>} \cup {Fill(t, after) : after \in Filled(t)}
    OBVIOUS
  <2>4. (Creating(t))'
    <3>1. steps' = NewRegister(t, d, Fill(t, next)) /\ Settled(t)' /\ t \notin DOMAIN memory'
      BY <1>1, <2>1, <2>2
    <3>2. QED
      BY <3>1, <2>3 DEF Creating, Filled, LastFlush, AddIndex, RemoveTable
  <2>5. QED
    BY <2>1, <2>4 DEF Underway
<1>4. CASE DropTable(t)
  <2>1. t \in DOMAIN memory /\ Start(t, DropReach(t))
    BY <1>4, RemoveTableIs DEF DropTable
  <2>2. Settled(t)' /\ steps' = DropReach(t) /\ t \in DOMAIN memory'
    BY <1>1, <2>1
  <2>3. Within(t, memory[t])'
    BY <2>2 DEF Settled
  <2>4. QED
    BY <2>1, <2>2, <2>3, DroppingBegins
<1>5. CASE UseTable(t)
  BY <1>1, <1>5 DEF UseTable, UseReach, Using, Underway
<1>6. CASE CreateIndex(t, i)
  <2> DEFINE way == [recovery |-> <<>>, rest |-> <<>>]
  <2>1. t \in DOMAIN memory /\ i \notin memory[t] /\ Start(t, AddIndex(t, i, <<>>, <<>>))
    BY <1>6 DEF CreateIndex
  <2>2. AddIndex(t, i, <<>>, <<>>) = AddReach(t, i, <<>>, <<>>)
    BY DEF AddIndex, Saved, Reopen, AddReach, AddName, AddSave, AddBuild, AddClose, AddOpen,
           UnbuildName, UnbuildSave, UnbuildDiscard
  <2>3. way \in Ways(t) /\ way.recovery = <<>> /\ way.rest = <<>>
    BY DEF Ways
  <2> HIDE DEF way
  <2>4. QED
    BY <1>1, <2>1, <2>2, <2>3 DEF Adding, Underway
<1>7. CASE DropIndexOf(t, i)
  <2>1. t \in DOMAIN memory /\ i \in memory[t] /\ Start(t, DropIndex(t, i))
    BY <1>7 DEF DropIndexOf
  <2>2. DropIndex(t, i) = CutReach(t, i)
    BY DEF DropIndex, Saved, Reopen, CutReach, CutFiles, CutName, CutSave, AddClose, AddOpen
  <2>3. QED
    BY <1>1, <2>1, <2>2 DEF Cutting, Underway
<1>8. QED
  BY <1>2, <1>3, <1>4, <1>5, <1>6, <1>7

LEMMA DefIInvFills ==
  ASSUME DefTypeOK, Quiet, \A u \in TableName \ struck : Settled(u), NEW t \in TableName, FillTable(t)
  PROVE  DefIInv'
<1>1. /\ t \in DOMAIN opened \ struck /\ UNCHANGED <<memory, listed, opened, steps, struck>>
      /\ files' = Holding(FilesOf(t, opened[t]), 1) /\ loose' = loose \ FilesOf(t, opened[t])
  BY DEF FillTable
<1>2. Whole(t) /\ Written(t)
  BY <1>1, SettledOpenIsWhole
<1> DEFINE filled == FilesOf(t, opened[t])
<1>3. /\ DOMAIN files' = DOMAIN files \cup filled
      /\ \A file \in filled : files'[file] = 1
      /\ \A file \in DOMAIN files \ filled : files'[file] = files[file]
  BY <1>1 DEF Holding
<1>4. DefTypeOK'
  <2>1. FilesTypeOK
    BY DEF DefTypeOK, FilesTypeOK
  <2>2. files' \in [DOMAIN files \cup filled -> 0..2]
    BY <1>1, <2>1, HoldingAnyIsTyped
  <2>3. QED
    BY <1>1, <2>2 DEF DefTypeOK
<1>5. filled = FilesOf(t, memory[t])
  BY <1>2 DEF Whole, Named
<1>6. Settled(t)'
  <2>1. Within(t, memory[t])' /\ Complete(t, memory[t])'
    BY <1>1, <1>2, <1>3, <1>5 DEF Whole, Within, Complete
  <2>2. Even(t, memory[t])'
    <3>1. \A part \in {Rows} \cup memory'[t] : <<t, part>> \in filled
      BY <1>1, <1>5 DEF FilesOf
    <3>2. \A part \in {Rows} \cup memory'[t] : Content(<<t, part>>)' = 1
      BY <1>3, <3>1 DEF Content
    <3>3. QED
      BY <3>2 DEF Even
  <2>3. Written(t)'
    BY <1>1, <1>2, <1>5 DEF Whole, Within, Written, DefTypeOK
  <2>4. QED
    BY <1>1, <1>2, <2>1, <2>2, <2>3 DEF Settled, NamesAgree, Whole, Named
<1>7. ASSUME NEW u \in TableName \ struck, u # t PROVE Settled(u)'
  <2>1. \A file \in filled : file[1] # u
    BY <1>7, FilesHaveTheirTable
  <2>2. Spares(u)
    BY <1>1, <1>3, <2>1 DEF Spares
  <2>3. QED
    BY <1>4, <1>7, <2>2, SparedStaysSettled DEF DefTypeOK
<1>8. QED
  BY <1>1, <1>4, <1>6, <1>7 DEF DefIInv, Quiet

\* When nothing changes.
LEMMA DefIInvStutters ==
  ASSUME DefIInv, UNCHANGED defVars
  PROVE  DefIInv'
<1>1. UNCHANGED <<memory, listed, opened, files, loose, steps, struck>>
  BY DEF defVars
<1>2. ASSUME NEW t, NEW x
      PROVE  /\ (Within(t, x) <=> Within(t, x)') /\ (NoFiles(t) <=> NoFiles(t)') /\ (Written(t) <=> Written(t)')
             /\ (Complete(t, x) <=> Complete(t, x)') /\ (Even(t, x) <=> Even(t, x)')
  BY <1>1 DEF Within, NoFiles, Written, Complete, Even, Content
<1>3. ASSUME NEW t
      PROVE  /\ (Settled(t) <=> Settled(t)') /\ (Whole(t) <=> Whole(t)') /\ (Standing(t) <=> Standing(t)')
  BY <1>1, <1>2 DEF Settled, NamesAgree, Whole, Named, Standing
<1>4. ASSUME NEW t, Creating(t) \/ Undoing(t) \/ Filling(t) \/ Dropping(t)
      PROVE  (Creating(t) \/ Undoing(t) \/ Filling(t) \/ Dropping(t))'
  <2>1. CASE Creating(t)
    BY <1>1, <1>2, <1>3, <2>1 DEF Creating, Named, Filled, LastFlush, AddIndex, RemoveTable
  <2>2. CASE Undoing(t)
    BY <1>1, <1>2, <2>2 DEF Undoing, Named
  <2>3. CASE Filling(t)
    BY <1>1, <1>3, <2>3 DEF Filling, Filled, LastFlush, AddIndex, RemoveTable
  <2>4. CASE Dropping(t)
    BY <1>1, <1>2, <1>3, <2>4 DEF Dropping
  <2>5. QED
    BY <1>4, <2>1, <2>2, <2>3, <2>4
<1>5. ASSUME NEW t, Adding(t) \/ Reopening(t) \/ Unbuilding(t) \/ Cutting(t) \/ Using(t)
      PROVE  (Adding(t) \/ Reopening(t) \/ Unbuilding(t) \/ Cutting(t) \/ Using(t))'
  <2>1. CASE Adding(t)
    BY <1>1, <1>2, <1>3, <2>1 DEF Adding, Named, WrittenIf
  <2>2. CASE Reopening(t)
    BY <1>1, <1>3, <2>2 DEF Reopening
  <2>3. CASE Unbuilding(t)
    BY <1>1, <1>2, <2>3 DEF Unbuilding, Named
  <2>4. CASE Cutting(t)
    BY <1>1, <1>2, <1>3, <2>4 DEF Cutting, Named
  <2>5. CASE Using(t)
    BY <1>1, <1>3, <2>5 DEF Using
  <2>6. QED
    BY <1>5, <2>1, <2>2, <2>3, <2>4, <2>5
<1>6. DefTypeOK'
  BY <1>1 DEF DefIInv, DefTypeOK
<1>7. CASE Quiet /\ \A u \in TableName \ struck : Settled(u)
  <2>1. Quiet' /\ struck' = struck
    BY <1>1, <1>7 DEF Quiet
  <2>2. \A u \in TableName \ struck' : Settled(u)'
    BY <1>3, <1>7, <2>1
  <2>3. QED
    BY <1>6, <2>1, <2>2 DEF DefIInv
<1>8. CASE \E t \in TableName : Underway(t) /\ OthersSettled(t)
  <2>1. PICK t \in TableName : Underway(t) /\ OthersSettled(t)
    BY <1>8
  <2>2. Underway(t)'
    BY <1>4, <1>5, <2>1 DEF Underway
  <2>3. OthersSettled(t)'
    BY <1>1, <1>3, <2>1 DEF OthersSettled
  <2>4. QED
    BY <1>6, <2>2, <2>3 DEF DefIInv
<1>9. QED
  BY <1>7, <1>8 DEF DefIInv

\* Every step keeps the invariant.
LEMMA DefIInvNext ==
  ASSUME DefIInv, [DefNext]_defVars
  PROVE  DefIInv'
<1>1. CASE UNCHANGED defVars
  BY <1>1, DefIInvStutters
<1>2. CASE DefNext /\ \E t \in TableName : Underway(t) /\ OthersSettled(t)
  BY <1>2, DefIInvInStatement DEF DefIInv
<1>3. CASE DefNext /\ Quiet /\ \A u \in TableName \ struck : Settled(u)
  <2>1. DefTypeOK
    BY DEF DefIInv
  <2>2. CASE \E t \in TableName, i \in IndexName :
               CreateTable(t) \/ CreateFromFile(t) \/ DropTable(t) \/ UseTable(t) \/ CreateIndex(t, i) \/ DropIndexOf(t, i)
    <3>1. PICK t \in TableName, i \in IndexName :
            CreateTable(t) \/ CreateFromFile(t) \/ DropTable(t) \/ UseTable(t) \/ CreateIndex(t, i) \/ DropIndexOf(t, i)
      BY <2>2
    <3>2. PICK list : Start(t, list) /\ (Underway(t))'
      BY <1>3, <3>1, StatementsBegin
    <3>3. QED
      BY <1>3, <2>1, <3>2, DefIInvBegins
  <2>3. CASE \E t \in TableName : FillTable(t)
    BY <1>3, <2>1, <2>3, DefIInvFills
  <2>4. CASE ProcessEnds
    <3>1. DefTypeOK'
      BY <1>3, <2>1, <2>4, EndKeepsTypes
    <3>2. Quiet' /\ struck' = struck
      BY <1>3, <2>4 DEF ProcessEnds, Quiet
    <3>3. \A u \in TableName \ struck' : Settled(u)'
      BY <1>3, <2>1, <2>4, <3>2, EndSettles
    <3>4. QED
      BY <3>1, <3>2, <3>3 DEF DefIInv
  <2>5. QED
    BY <1>3, <2>2, <2>3, <2>4, DefAssumption DEF DefNext, StepRaises, Next1, ChangeCatalog, SaveCatalog, OpenTable,
       ReachTable, FlushTable, CloseTable, LoadRows, BuildIndex, ForgetTable, RemoveFiles
<1>4. QED
  BY <1>1, <1>2, <1>3 DEF DefIInv

LEMMA DefIInvSound ==
  ASSUME DefIInv
  PROVE  DefinitionsSound
<1>1. ASSUME NEW t, Settled(t) PROVE NamesAgree(t) /\ FilesAgree(t)
  <2>1. ASSUME NEW file \in DOMAIN files, file[1] = t
        PROVE  t \in DOMAIN memory /\ file \in FilesOf(t, memory[t])
    BY <1>1, <2>1 DEF Settled, NoFiles, Within
  <2>2. t \in DOMAIN memory =>
          \A i \in memory[t] : Content(<<t, i>>) = Content(<<t, Rows>>) /\ Content(<<t, i>>) # 2
    BY <1>1 DEF Settled, Even
  <2>3. \A file \in loose : file[1] = t => files[file] = 0
    BY <1>1 DEF Settled, Written
  <2>4. QED
    BY <1>1, <2>1, <2>2, <2>3 DEF Settled, FilesAgree
<1>2. ASSUME Quiet, NEW t \in TableName, Underway(t) PROVE FALSE
  BY <1>2, UnderwayGoesOn DEF GoesOn, StepFits, DefIInv
<1>3. QED
  BY <1>1, <1>2 DEF DefIInv, DefinitionsSound, DefinitionsAgree

\* The inductive invariant holds in every state (the whole of query/catalog.py and the
\* definitions of query/engine.py).
THEOREM DefIInvHolds == DefSpec => []DefIInv
<1>1. DefInit => DefIInv
  BY DefIInvInit
<1>2. DefIInv /\ [DefNext]_defVars => DefIInv'
  BY DefIInvNext
<1>3. QED
  BY <1>1, <1>2, PTL DEF DefSpec

\* Between statements the catalog in memory and on disk, the open tables and the files
\* of every table that was not struck tell the same, whatever statements were run,
\* however many of their steps raised and however often the process ended.
THEOREM DefinitionsAreSound == DefSpec => []DefinitionsSound
<1>1. DefIInv => DefinitionsSound
  BY DefIInvSound
<1>2. QED
  BY <1>1, DefIInvHolds, PTL

=============================================================================
