---------------------------- MODULE Definitions ----------------------------
(* query/catalog.py, the definitions of query/engine.py and the files of
   query/table.py: CREATE and DROP change the catalog in memory, the catalog on disk,
   the tables that are open and the files, one after another, and any of these steps
   may raise, or be the last one before the process ends. One runs at a time: each
   holds the guard of the engine from its beginning to its end.

   What a file holds is one of: nothing (0), the rows of the table, or their entries
   if it is an index (1), or part of them (2). *)
EXTENDS Integers, Sequences, Functions

CONSTANTS TableName,    \* the tables
          IndexName,    \* the names of indexes; Declared is in CREATE TABLE
          Declared,     \* the index declared with a table, as that of its key
          FailureLimit  \* bound: steps that raise, and ends of the process

VARIABLES memory,   \* Catalog._tables: table -> set of its indexes
          listed,    \* the same in the file of the catalog
          opened,   \* Engine._tables: table -> the indexes of the open Table
          files,    \* <<table, "rows" or index>> -> what it holds
          loose,    \* files with pages that are only in memory
          steps,    \* what the statement in course has yet to do
          struck,   \* tables whose definition was cut short by the end of the process,
                    \* or by a save or a removal that raised
          failures  \* how many steps have raised

defVars == <<memory, listed, opened, files, loose, steps, struck, failures>>

Rows == "rows"

\* The rows and each index have files of their own.
ASSUME DefAssumption == Declared \in IndexName /\ Rows \notin IndexName

FilesOf(t, indexes) == {<<t, part>> : part \in {Rows} \cup indexes}
Holding(names, content) == [file \in DOMAIN files \cup names |-> IF file \in names THEN content ELSE files[file]]
WithTable(f, t, indexes) == [u \in DOMAIN f \cup {t} |-> IF u = t THEN indexes ELSE f[u]]
WithoutTable(f, t) == Restrict(f, DOMAIN f \ {t})

DefTypeOK ==
  /\ memory \in [DOMAIN memory -> SUBSET IndexName] /\ listed \in [DOMAIN listed -> SUBSET IndexName]
  /\ opened \in [DOMAIN opened -> SUBSET IndexName]
  /\ DOMAIN memory \cup DOMAIN listed \cup DOMAIN opened \cup struck \subseteq TableName
  /\ files \in [DOMAIN files -> 0..2] /\ loose \subseteq DOMAIN files

DefInit ==
  /\ memory = <<>> /\ listed = <<>> /\ opened = <<>> /\ files = <<>>
  /\ loose = {} /\ steps = <<>> /\ struck = {} /\ failures = 0

-----------------------------------------------------------------------------
\* A list of steps, from the first on: what it does, what the except clauses around it
\* do if it raises, and what comes after it.
Then(op, t, indexes, recovery, rest) ==
  <<[op |-> op, table |-> t, indexes |-> indexes, recovery |-> recovery]>> \o rest

Saved(op, t, indexes, recovery, rest) ==
  Then(op, t, indexes, <<>>, Then("save", t, {}, recovery, rest))

\* _register: CREATE TABLE. The table leaves the catalog if its files cannot be made.
Unregister(t, rest) == Saved("unregister", t, {}, <<>>, rest)
Register(t, indexes, rest) ==
  LET undone == Unregister(t, Then("discard", t, FilesOf(t, indexes), <<>>, <<>>))
  IN  Saved("register", t, indexes, <<>>,
        Then("open", t, {}, undone,
          Then("flush", t, {}, Then("forget", t, {}, <<>>, undone), rest)))

\* _remove_table: the files go before the name.
RemoveTable(t) ==
  Then("reach", t, {}, <<>>,
    Then("removeTable", t, {}, <<>>, Then("forget", t, {}, <<>>, Unregister(t, <<>>))))

Reopen(t, recovery, rest) == Then("close", t, {}, recovery, Then("open", t, {}, recovery, rest))

\* Mutant: an index that was not built stays in the catalog.
AddIndexForGood(t, i, recovery, rest) ==
  LET undone == Then("discard", t, {<<t, i>>}, <<>>, recovery)
  IN  Then("reach", t, {}, recovery,
        Saved("addIndex", t, {i}, recovery, Then("build", t, {i}, undone, Reopen(t, recovery, rest))))

\* _add_index: the name goes before the files, and leaves if they are not built.
AddIndex(t, i, recovery, rest) ==
  LET undone == Saved("dropIndex", t, {i}, recovery, Then("discard", t, {<<t, i>>}, recovery, recovery))
  IN  Then("reach", t, {}, recovery,
        Saved("addIndex", t, {i}, recovery, Then("build", t, {i}, undone, Reopen(t, recovery, rest))))

\* The files go before the name.
DropIndex(t, i) ==
  Then("reach", t, {}, <<>>,
    Then("removeIndex", t, {i}, <<>>, Saved("dropIndex", t, {i}, <<>>, Reopen(t, <<>>, <<>>))))

\* CREATE TABLE ... FROM FILE, with or without an index to add: whatever fails after
\* _register removes the table.
LastFlush(t) == Then("flush", t, {}, RemoveTable(t), <<>>)
Filled(t) ==
  {LastFlush(t)} \cup {AddIndex(t, i, RemoveTable(t), LastFlush(t)) : i \in IndexName \ {Declared}}
FromFile(t, declared, rest) == Register(t, declared, Then("load", t, {}, RemoveTable(t), rest))

Quiet == steps = <<>>
\* Bound: nothing more is asked of a table that was struck.
Start(t, list) ==
  /\ Quiet /\ t \notin struck /\ steps' = list
  /\ UNCHANGED <<memory, listed, opened, files, loose, struck, failures>>

CreateTable(t) == \E declared \in SUBSET {Declared} : t \notin DOMAIN memory /\ Start(t, Register(t, declared, <<>>))
CreateFromFile(t) ==
  \E declared \in SUBSET {Declared} : \E rest \in Filled(t) :
    t \notin DOMAIN memory /\ Start(t, FromFile(t, declared, rest))
CreateIndex(t, i) == t \in DOMAIN memory /\ i \notin memory[t] /\ Start(t, AddIndex(t, i, <<>>, <<>>))
DropTable(t) == t \in DOMAIN memory /\ Start(t, RemoveTable(t))
DropIndexOf(t, i) == t \in DOMAIN memory /\ i \in memory[t] /\ Start(t, DropIndex(t, i))

\* A SELECT or an INSERT opens the table it names.
UseTable(t) == t \in DOMAIN memory \ DOMAIN opened /\ Start(t, Then("reach", t, {}, <<>>, <<>>))

\* A committed INSERT: the rows are in the files and on disk (TableRows, Sessions).
FillTable(t) ==
  /\ Quiet /\ t \in DOMAIN opened \ struck
  /\ files' = Holding(FilesOf(t, opened[t]), 1)
  /\ loose' = loose \ FilesOf(t, opened[t])
  /\ UNCHANGED <<memory, listed, opened, steps, struck, failures>>

-----------------------------------------------------------------------------
\* What each step does.
Next1(op) == ~Quiet /\ Head(steps).op = op /\ steps' = Tail(steps)
T == Head(steps).table
Parts == Head(steps).indexes

ChangeCatalog ==
  /\ \/ Next1("register") /\ memory' = WithTable(memory, T, Parts)
     \/ Next1("unregister") /\ memory' = WithoutTable(memory, T)
     \/ Next1("addIndex") /\ memory' = [memory EXCEPT ![T] = @ \cup Parts]
     \/ Next1("dropIndex") /\ memory' = [memory EXCEPT ![T] = @ \ Parts]
  /\ UNCHANGED <<listed, opened, files, loose, struck, failures>>

\* The whole catalog, in a file of its own that takes the place of the other.
SaveCatalog ==
  /\ Next1("save")
  /\ listed' = memory
  /\ UNCHANGED <<memory, opened, files, loose, struck, failures>>

\* table(): a Table is opened if it is not. Files that are missing are made, empty.
OpenTable ==
  /\ Next1("open") \/ (Next1("reach") /\ T \notin DOMAIN opened)
  /\ LET made == FilesOf(T, memory[T]) \ DOMAIN files
     IN  files' = Holding(made, 0) /\ loose' = loose \cup made
  /\ opened' = WithTable(opened, T, memory[T])
  /\ UNCHANGED <<memory, listed, struck, failures>>

ReachTable ==
  /\ Next1("reach") /\ T \in DOMAIN opened
  /\ UNCHANGED <<memory, listed, opened, files, loose, struck, failures>>

FlushTable ==
  /\ Next1("flush")
  /\ loose' = loose \ FilesOf(T, opened[T])
  /\ UNCHANGED <<memory, listed, opened, files, struck, failures>>

\* _reopen closes the table, which writes its pages.
CloseTable ==
  /\ Next1("close")
  /\ loose' = loose \ FilesOf(T, opened[T])
  /\ opened' = WithoutTable(opened, T)
  /\ UNCHANGED <<memory, listed, files, struck, failures>>

LoadRows ==
  /\ Next1("load")
  /\ files' = Holding(FilesOf(T, opened[T]), 1)
  /\ loose' = loose \cup FilesOf(T, opened[T])
  /\ UNCHANGED <<memory, listed, opened, struck, failures>>

BuildIndex ==
  /\ Next1("build")
  /\ LET built == {<<T, i>> : i \in Parts}
     IN  files' = Holding(built, files[<<T, Rows>>]) /\ loose' = loose \cup built
  /\ opened' = [opened EXCEPT ![T] = @ \cup Parts]
  /\ UNCHANGED <<memory, listed, struck, failures>>

\* The table is no longer among the open ones.
ForgetTable ==
  /\ Next1("forget")
  /\ opened' = WithoutTable(opened, T)
  /\ UNCHANGED <<memory, listed, files, loose, struck, failures>>

\* The files of a table that was closed, of an index that was, or those of a
\* definition that failed.
Gone ==
  CASE Head(steps).op = "removeTable" -> FilesOf(T, memory[T])
    [] Head(steps).op = "removeIndex" -> {<<T, i>> : i \in Parts}
    [] OTHER                          -> Parts

RemoveFiles ==
  /\ \/ Next1("removeTable") /\ UNCHANGED opened
     \/ Next1("discard") /\ UNCHANGED opened
     \/ Next1("removeIndex") /\ opened' = [opened EXCEPT ![T] = @ \ Parts]
  /\ files' = Restrict(files, DOMAIN files \ Gone)
  /\ loose' = loose \ Gone
  /\ UNCHANGED <<memory, listed, struck, failures>>

-----------------------------------------------------------------------------
\* What a step that raises may have done: files made, or filled in part, or removed.
HalfDone ==
  LET op == Head(steps).op
  IN  CASE op \in {"open", "reach"} -> {Holding(made, 0) : made \in SUBSET (FilesOf(T, memory[T]) \ DOMAIN files)}
        [] op = "load"  -> {Holding(FilesOf(T, opened[T]), 2)}
        [] op = "build" -> {Holding({<<T, i>> : i \in Parts}, 2)}
        [] op \in {"removeTable", "removeIndex", "discard"} ->
             {Restrict(files, DOMAIN files \ gone) : gone \in SUBSET Gone}
        [] OTHER        -> {files}

\* The statement goes on with its recovery. _reopen has the table out of the open
\* ones before closing it.
StepRaises ==
  /\ ~Quiet /\ failures < FailureLimit
  /\ Head(steps).op = "reach" => T \notin DOMAIN opened
  /\ Head(steps).op \in {"save", "reach", "open", "flush", "close", "load", "build",
                         "removeTable", "removeIndex", "discard"}
  /\ files' \in HalfDone
  /\ loose' = (loose \cup {file \in DOMAIN files' : file \notin DOMAIN files \/ files'[file] = 2})
                \cap DOMAIN files'
  /\ opened' = CASE Head(steps).op = "close"       -> WithoutTable(opened, T)
                 [] Head(steps).op = "removeIndex" -> [opened EXCEPT ![T] = @ \ Parts]
                 [] OTHER                          -> opened
  /\ struck' = IF Head(steps).op \in {"save", "close", "removeTable", "removeIndex", "discard"}
               THEN struck \cup {T} ELSE struck
  /\ steps' = Head(steps).recovery
  /\ failures' = failures + 1
  /\ UNCHANGED <<memory, listed>>

\* What is left of a CREATE TABLE, or of a DROP TABLE without its files, harms nothing.
CutsShort ==
  \/ \E n \in DOMAIN steps : steps[n].op \notin {"save", "open", "flush"}
  \/ \E file \in loose : files[file] # 0

\* The process ends. A file that was not flushed may hold part of what it should.
ProcessEnds ==
  /\ failures < FailureLimit
  /\ failures' = failures + 1
  /\ files' \in {[file \in DOMAIN files |-> IF file \in lost THEN 2 ELSE files[file]] :
                   lost \in SUBSET {file \in loose : files[file] # 0}}
  /\ struck' = IF ~Quiet /\ CutsShort THEN struck \cup {T} ELSE struck
  /\ memory' = listed /\ opened' = <<>> /\ loose' = {} /\ steps' = <<>>
  /\ UNCHANGED listed

DefNext ==
  \/ \E t \in TableName : CreateTable(t) \/ CreateFromFile(t) \/ DropTable(t) \/ UseTable(t) \/ FillTable(t)
  \/ \E t \in TableName, i \in IndexName : CreateIndex(t, i) \/ DropIndexOf(t, i)
  \/ ChangeCatalog \/ SaveCatalog \/ OpenTable \/ ReachTable \/ FlushTable \/ CloseTable
  \/ LoadRows \/ BuildIndex \/ ForgetTable \/ RemoveFiles
  \/ StepRaises \/ ProcessEnds

DefSpec == DefInit /\ [][DefNext]_defVars

-----------------------------------------------------------------------------
\* Between statements, for every table whose definition was not cut short, and
\* although a CREATE raised at any of its steps: the catalog says the same in memory
\* and on disk, a table that is open has the indexes it names, there is no file that it
\* does not name, every index has the entries of all the rows, and all but
\* files still empty is on disk.
Content(file) == IF file \in DOMAIN files THEN files[file] ELSE 0
NamesAgree(t) ==
  /\ t \in DOMAIN memory <=> t \in DOMAIN listed
  /\ t \in DOMAIN memory => memory[t] = listed[t]
  /\ t \in DOMAIN opened => t \in DOMAIN memory /\ opened[t] = memory[t]
FilesAgree(t) ==
  /\ \A file \in DOMAIN files : file[1] = t => t \in DOMAIN memory /\ file \in FilesOf(t, memory[t])
  /\ t \in DOMAIN memory =>
       \A i \in memory[t] : Content(<<t, i>>) = Content(<<t, Rows>>) /\ Content(<<t, i>>) # 2
  /\ \A file \in loose : file[1] = t => files[file] = 0
DefinitionsAgree == Quiet => \A t \in TableName \ struck : NamesAgree(t) /\ FilesAgree(t)

DefinitionsSound == DefTypeOK /\ DefinitionsAgree

=============================================================================
