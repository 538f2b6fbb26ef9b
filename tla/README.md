# A TLA+ verification of the BD2 database engine

The repository is a small relational engine in Python: SQL in, pages out, with
table locks, transactions, B+ tree, hash, R-tree, inverted and vector indexes,
and an HTTP service. This directory models its control in TLA+, checks the models
with TLC on small instances and proves the most important facts with TLAPS.

Paths below are relative to the repository; line numbers are in `PROJECT.json`
(`map`), which also lists components, runs, hazards, findings and theorems.

## 1. Inventory

### Components, their state and their operations

| Component | State | Operations | Correct means |
|---|---|---|---|
| Lock manager (`txn/lock_manager.py`) | `_holders`, `_waiting` with turns, one `Condition` | `acquire`, `release_all` | locks exclude; deadlocks are found and only they; nobody sleeps for nothing, starves or is overtaken |
| Session (`txn/session.py`) | `_current` transaction | `run`, `inspect`, `close`; `_confirm`, `_abort`, `_undo_failed_statement`, `_end` | two-phase locking, atomic and isolated transactions, no lock leaked, commits on disk |
| Undo log (`txn/transaction.py`) | `changes`, `state` | `record_*`, `undo`, `undo_statement` | the log can always put the rows back |
| Engine (`query/engine.py`) | open `_tables`, `_guard` | `run`, `table`, DDL | one DDL at a time, every wait bounded, no half-made table or index |
| Service (`api/service.py`) | `_sessions`: slots with `requests`, `closing`, `last_used`, `guard` | `session`, `close_session`, expiry, `close` | one request at a time per session; no transaction is left in a session nobody remembers |
| Buffer pool and pager (`storage/`) | frames in LRU order, dirty set, page count | `read`, `write`, `allocate`, `flush`, eviction | a read sees the last write; a flush leaves all of it on disk |
| Heap file | pages, list of pages with free slots, header | `insert`, `delete`, `update`, `scan` | a page is in the list iff it has a free slot; no record lost |
| Sequential file | sorted main pages, overflow chains, header | `insert`, `delete`, `reorganize` | order; same records before and after reorganising; crash between the two replacements |
| Variable-length file | slotted pages, free space map | `insert`, `read`, `delete` | map never promises more than there is |
| B+ tree, extendible hash, R-tree | nodes, directory, buckets | `insert`, `delete`, `search` | structural invariants, agreement with a plain map |
| Inverted index | segments, block in memory, document table, manifest | `insert`, `delete`, `flush`, `merge` | each live document is found exactly once; a crash loses only what was not flushed |
| Similarity, vectors, multimedia | feature store, faiss index | `build`, `insert`, `delete`, `flush` | rows, features and vectors agree |
| Catalog (`query/catalog.py`) | definitions, JSON file | `create_table`, `drop_table`, `add_index`, `drop_index` | catalog and files agree across failures |
| Table (`query/table.py`) | row store and its indexes | `insert_all`, `delete_where`, `update_where`, undo helpers, `flush` | uniqueness; every index agrees with the rows |
| Boolean and ranked search (`text/boolean_query.py`, `index/inverted/ranking.py`, `merges.py`) | accumulators of one search | parse, merge lists, score, prune | a query means what it says; pruning drops none of the k best |
| Planner, expressions, operators (`query/`) | none between queries | plan, evaluate, iterate | same answer as the naive plan; what cannot be answered is rejected |
| External algorithms (`external/`) | runs and partitions of one query | sort, group, join, distinct | same answer whatever the memory |
| SQL parser (`sql/parser.py`) | position and depth in one text | parse a statement | the tree that was meant, or an error; limits on depth |
| Lexer, text analysis, loader, routes, configuration | none | pure or input/output | out of scope, see section 7 |

### How they interact

A route takes a named session from the `Service` and runs one statement in it,
on the request's thread. The `Session` asks the `LockManager` for the statement's
tables in the order of their names, runs the statement in the `Engine` (which opens
tables under `_guard`, with a deadline) and passes its `Transaction` as the journal,
in which each row change is noted. `COMMIT` flushes every table touched and only then
ends the transaction; an error undoes the log backwards. Pages go through a buffer
pool shared by all files, which writes a dirty page whenever it needs room, committed
or not: *steal* and *force*, with an undo log in memory only.

### What is hard here

Waiting threads that must be woken and must time out; cycles that run through the
queue as well as through holders; errors on error paths (an undo that fails, a flush
that fails half way); an engine guard that times out inside an undo; pages that reach
the disk early; files that must be replaced together; rows, indexes and out-of-row texts
that change one call at a time; operators that change algorithm when memory runs out; a
planner that reads, cuts or skips early because of an index. `PROJECT.json` lists each hazard
at its line with the properties that cover it, or says why none does.

## 2. Modules

| Module | Models | Notes |
|---|---|---|
| `LockTable` | what the lock manager promises | abstract: no queue, no threads, no clock |
| `LockManager` | `txn/lock_manager.py` | implements `LockTable` (`ImplementsLockTable`) |
| `LockManagerProofs` | | the theorems about it, and why statements never deadlock |
| `StatementLocks` | `Session._lock_for` over `LockManager` | autocommit only |
| `AtomicStore` | what transactions promise | abstract: deferred updates on private copies |
| `Sessions` | `txn/session.py`, `txn/transaction.py`, the engine's guard, the flushes | written over `LockTable`, implements `AtomicStore` |
| `SessionsProofs` | | its type invariant and its safety theorems |
| `SessionsLogProofs` | | the undo log, the refinement of `AtomicStore`, durability |
| `SessionService` | `api/service.py`: registry, request counts, closing, expiry, shutdown | a session is whether it has an open transaction |
| `SessionServiceProofs` | | its invariant and its safety theorems |
| `BufferPool` | `storage/buffer_pool.py`, `storage/pager.py` | frames, dirty marks, file, device |
| `BufferPoolProofs` | | reads see the last write, flushes survive |
| `RecordPages` | `storage/page.py`, chains and free pages of `storage/layout.py` | used by the four files and indexes below |
| `HeapFile`, `SequentialFile` | the two row files | |
| `HeapFileProofs` | | the list of free pages, and that a heap file is a `KeyedStore` |
| `VariableLengthFile` | `storage/varlen/` | |
| `BPlusTree`, `ExtendibleHash`, `RTree` | the three indexes of pages | `Ordering` holds the order of points |
| `KeyedStore` | what files and indexes promise | abstract: a set of entries |
| `TableRows` | `query/table.py`, `row_store.py`, `out_of_row.py`, the undo log applied to them | one call at a time, any may raise |
| `TableRowsProofs` | | what the indexes and the TEXT values say of the rows is true; undoing gives the rows back |
| `Definitions` | `query/catalog.py` and the DDL of `query/engine.py` | one step at a time, any may raise or be the last |
| `DefinitionsProofs` | | catalog, open tables and files agree between statements |
| `InvertedIndex` | `index/inverted/` but ranking | files of a flush one at a time, crashes |
| `TextSearch` | `text/boolean_query.py`, `merges.py`, `ranking.py` | each search against what it means |
| `ExternalAlgorithms` | `external/` and the operators over it | each algorithm against what SQL asks for |
| `Expressions` | `query/expressions.py`, `comparison.py`, `functions.py` | types, validation, three-valued evaluation |
| `Planner` | `query/planner.py` and the searches it recognises | a plan is a record of what it does |
| `Queries` | `query/operators.py`, `aggregation.py` and the ways into a table | each plan against the naive answer |
| `SqlNodes`, `SqlParser` | `sql/nodes.py`, `sql/parser.py` | words to trees; how SQL writes a tree is the reference |
| `MC...` | | instances for TLC |

`InvertedIndex`, `TextSearch`, `ExternalAlgorithms`, `Expressions`, `Planner`, `Queries` and
`SqlParser` follow recursive code over lists and trees with RECURSIVE operators, so nothing is proved
about them. The others are written to be proved about as well as checked.

### LockManager

All state of the manager is behind one `threading.Condition`, so an action is what a
thread does between taking that lock and giving it up (by returning or by sleeping in
`wait`). `AcquireAtOnce`, `AcquireRefused` and `AcquireWaits` are the three ways in
which `acquire` reaches its first answer or first sleep; `WakeGranted`, `WakeFails` and
`WakeWaits` are one turn of the loop of `_wait_until_free`; `Expire` is the passing of
the fixed deadline; `ReleaseAll` is `release_all`. `notify_all` empties `asleep`, the
set of threads with no pending notification. `turn` numbers grow without bound, so
the model keeps what they are compared for: `earlier[t]` is the set of transactions
that were waiting when `t` arrived and still are. `_closes_a_cycle` is a depth-first
search; `ClosesACycle` says what it computes, that `t` is in every set that contains its
blockers and is closed under blockers. `MayAsk` states the protocol of the callers: one
thread per transaction, and after a `LockError` the session only aborts.

### StatementLocks

The detailed manager with the requests an autocommit statement makes: an exclusive lock
on its only table, or shared locks in the order of the names (`Place`). It answers a
question the abstract lock table cannot ask, since waiting behind a queue is an edge of
the wait-for graph too. `discipline` is chosen at the beginning: "statements" if every caller
locks like this, "any" if everybody asks for what it likes, as BEGIN ... COMMIT blocks do.

### Sessions

One thread per session. `pc` says where it is between two points at which other threads
can act: before each lock (`locking`, where a DROP INDEX has asked the engine's guard which table the
index is of, and may be refused), in the engine (`running`, or `defining` while it
holds the guard), before the tables of an undo or of a commit are opened (`opening`,
`confirming`), between two reverts (`reverting`) and between two flushes (`flushing`).
`log` is `Transaction.changes`; `call[s].first` is `first_change`. `rows` are the tables
as all threads see them through the buffer pool, `disk` what a crash would leave.
A row is a value per key, or `Absent`. `Revert` follows `_revert`: undoing an insert or
an update looks for the row as it was left and does nothing if it is not there, undoing
a delete inserts.

`MayFail` chooses what goes wrong in a run: a statement (any error that is not a
`LockError`), an undo, a flush, the engine being busy past the deadline, an eviction.
Lock failures are always possible when somebody else holds the table or queues for it.

`ImplementsAtomicStore` is the refinement: the committed content of a table is its rows
with every open log taken back (`CommittedContent`), a private copy is the rows of a
table somebody is changing (`PrivateCopies`).

### SessionService

One request per server thread. What happens under `_sessions_guard` is one action
(`Claim`, `Release`, `CloseSession`, `Stop`); closing sessions (`CloseOther`,
`CloseOwn`), waiting for `slot.guard` (`Enter`) and running statements (`Work`) are
steps of their own. `registry` is `_sessions`, `requests` and `closing` are the fields of
the slots, `stale` the slots whose `last_used` is too old, `open` those whose session has
a transaction open. `task[th].toClose` are the expired sessions that a request took out
of the registry and has to close. `CloseOther` may raise: the others are closed all the
same and the request ends with the error, as with the `ExitStack` of `_close_all`.
`Stop` waits for the requests because the server drains them before the lifespan ends
(`api/main.py:61-64`). Slots are recycled when nobody refers to them; their number
is a bound. Deadlock is not checked, because the server really stops.

### Files and indexes of pages

`RecordPages` has the page with slots, tombstones and a link that `page.py` and
`layout.py` give to everybody. Each structure is one variable, a record with the pages of
its file and its header, and each operation of its class one action, whole: an insert with
every split up to the root, a delete with its borrows, joins and released pages, a sequential insert
with the reorganisation that it sets off. `SeqInsert` and `SeqDelete` may also end with a
crash between the two replacements of a reorganisation (`HalfReplaced`), which leaves the old
overflow pages with their records and no chain that reaches them. Records are
atoms, capacities are constants. `KeyedStore` is the abstract set of entries that each of
them is compared with, step by step, by `MCStructures` (`StoredAsAsked`): after each step a
scan gives what the set holds. The comparison is on state and not a refinement `PROPERTY`,
because one run serves six structures. `SearchFindsAll` compares searches by key, by range,
by rectangle and by nearness with the scan.

### BufferPool

`frames` is the `OrderedDict` of pages shared by several files, as a function from `<<file, page>>`
to the version of the content; `older` is its order, for each page the pages used before it, and
`dirty` the set of marks. The page with nothing older is the one that leaves. `written` is what the operating system shows of each file and `device` what a crash
leaves. `StartFlush` writes the dirty pages under the guard, `EndFlush` is the `fsync`
outside it, so that other threads act in between, and `SyncFails` an `fsync` that raises, with its
pages already marked clean. `latest` and `promised` are history, only for
the properties.

### TableRows

One table with a key, a UNIQUE column that may be NULL and a TEXT stored out of the
row. `organization` is that of its rows: a heap file with an index on each column (`heap`), one
whose indexes were dropped, which is gone through to find a key and where only the key is UNIQUE
(`bare`), or a file that finds a row by its key (`keyed`). A statement computes the changes of rows it will make (`todo`) with what it has read of each
row, and begins them one after another (`NextRow`): the rewritings, then the deletions, then the
insertions. Within each of the three the code follows the order in which it found the rows, and
the model any. A change in course (`course`) is a few calls: pack, put, enter each index, note the
change, leave each index, and so on. `call` is the next one, `ahead` the indexes that a loop has yet
to reach and `hand` the packed record, and `CallAfter` says from the tables `StoreCalls`,
`DeleteCalls` and `UpdateCalls` what follows each call. Undoing makes the same calls and takes the
change off the log at the end instead of noting it. Each call is a step and any may
raise (`CallRaises`); an error undoes the statement with the log, as `Session` does, and
`RollbackRows` undoes all of it. `raised` tells an error between two rows from one in the
middle of a row, which the code does not repair: after it `TableSound` asks only that the entries
on the key and on the code name rows with that value, and `UndoRestoresRows` nothing.

### Definitions

Each statement of DDL is the list of its steps with, in each, the recovery that the
`except` clauses around it would run, nested as they are for `CREATE TABLE ... FROM FILE`.
An operator that stands for a method of the engine (`Register`, `AddIndex`, ...) puts its
steps before those that its caller has yet to do (`Then`).
`StepRaises` takes the recovery, `ProcessEnds` starts again with the catalog on disk.
`struck` holds the tables whose definition was cut short where the code has no answer: by
the end of the process in the middle of a definition, or by a save or a removal that
raised. `DefinitionsAgree` says everything about the others.

### InvertedIndex and TextSearch

Documents, the map of addresses, the block in memory, the segments and the manifest, in
memory and in their files; `SaveNext` is one file of `_persist` and `CrashInverted` may
come between any two. A posting is its document, because only ranking reads the frequency.
Pages are taken to reach the disk only in a flush; that they may be evicted before is the
subject of `BufferPool` and of the finding about evicted pages.

`TextSearch` parses a boolean query, distributes and orders it as the code does, merges
sorted lists, and scores a term at a time, each a step, with the pruning of MaxScore.
Scores are small integers with an upper bound per term, added up exactly: the factor of
1 + 10^-9 that the code gives to a bound, for the rounding of its sums, changes no comparison of
them. The order of the rows is a part of each search, and is not that of the documents; `k`
may be 0, and `Unlimited` stands for `ranked`.

### ExternalAlgorithms, Expressions, Planner, Queries

Pure code. `ExternalAlgorithms` has two inputs that grow a row at a time and a number of
buffers; every sort, grouping, DISTINCT and join over them must give what SQL asks for.
`Expressions` evaluates and validates as the classes do, with errors as values that the
order of evaluation carries. `Planner` chooses, for a statement and a catalog, the way into
each table and the operators above, or rejects it. `Queries` runs the plan over every
content of the tables and compares it with `Answers`: all the rows, the whole WHERE, then
groups, order and limit. A star that names no table of the FROM is refused only where nothing was
projected before it, as in the code (`planner.py:532` looks at the whole list): `SELECT zz.*, id FROM a` is an
error, and `SELECT id, zz.* FROM a` gives the column alone. Values are small numbers of each family; points lie on a line, so
a distance is a difference and a polygon an interval; a similarity index is an exact search.

An aggregation, and a key that is not a column, is known by its text (`Described`), as in
the program: two expressions written the same are taken for the same.

### SqlParser

A text is a sequence of words, and each operator reads from one word and gives the trees it
made and the word that is next, or `Failed`. The six methods that read one level of
precedence each are one operator, `Descend`, with the level as its argument; a method that
reads a list or a clause is one operator each. `WrittenStatement` says how SQL writes a tree,
with the parentheses that precedence asks for and no others; it is the definition of what a
text means, and no translation of code. `Mistake` then loses, repeats or swaps a word, so
that the texts are also almost right. All 39 190 texts of the run were given to the program,
with the same limits: it accepts the same 3 393, and makes the same trees.

## 3. Runs

| Run | Instance | Question | States |
|---|---|---|---|
| `locks` | 3 free transactions or 4 autocommit statements, 2 tables | exclusion, detection of deadlocks, right victims, turns, wake-ups, overtaking, ordered locking never deadlocks, implements `LockTable` | 181 k |
| `endings` | 3 transactions, fair: with deadlines on 1 table, or without them and upgrades on 2; or 2 requests, 2 names, 2 slots, fair | every wait ends, forgotten sessions end | 34 k |
| `sessions` | 2 sessions, 2 tables, 1 key, statement failures, 2 changes | two-phase locking, log, repeatable reads, durability, implements `AtomicStore` | 212 k |
| `failures` | 2 sessions, writes and DDL, all failures, 1 change, fair | no lock leaked, commits on disk, every statement ends | 135 k |
| `service` | 3 threads, 2 session names, 4 slots | no orphan transaction, closing alone, engine last | 396 k |
| `structures` | the six files and indexes, 2 to 4 entries in a page; or 1017 statements, one mistake in each | sound structure, searches, contents; what is written is what is read | 78 k |
| `engine` | the seven components above them, one in each behaviour | one invariant for each, two for `TableRows` | 884 k |
| `idle_sessions` | `service` with fewer, only anonymous requests guaranteed | finding, section 6 | |
| `busy_rollback` | engine busy | finding, section 6 | |
| `evicted_page` | eviction | finding, section 6 | |
| `table_exchange` | 2 rows, no errors | finding, section 6 | |
| `aggregates` | one SELECT with two sums | finding, section 6 | |

`structures` and `engine` choose a `subject` in `Init` and only it moves, and `endings` a
`kind`, so their behaviours are those of each module on its own, joined in one run.

Why the bounds are enough to see the interesting cases.

* `locks`, `endings`: a cycle of three transactions needs three tables or, with queue edges,
  two; the mutant that only looks for cycles of two is caught. Wrong victims, overtaking
  and lost wake-ups need a holder, a waiter and somebody behind it. A deadlock of
  statements that lock out of order needs four (two readers, each followed by a
  writer), and its mutant shows that the instance reaches it.
* `sessions`: a log of two changes lets two changes hit one row (insert and
  update, whose order of undoing matters) or two tables (a commit with two flushes).
  `MaxChanges` limits the row changes of one transaction.
* `service`: a third thread lets somebody ask to close a session that one request uses
  while another waits for its turn, and four slots let a name be claimed again before
  its old session is closed. `Slot` is a bound. `endings` has two of each: the session
  that is forgotten, and what goes on with its name; with a third slot it holds too.
* `structures`: with 2 to 4 entries in a page, 10 entries make a B+ tree three levels high whose deletes join up
  to the root; 17 make such an R-tree, with reinsertion at two levels; three hash bits
  let the directory double to 8 and halve again, and a key with more than a bucket of
  entries makes a chain; varlen pages hold one or two fragments, so values span
  pages. `HeapPageLimit`, `SeqLimit`, `OverflowLimit`, `TreePageLimit`, `HashPageLimit`,
  `VarlenPageLimit`, `VarlenLimit` and `RTreePageLimit` are bounds. `VIEW UpToPageNumbers`
  forgets which number a page of a tree has, which no operation looks at but to follow it, and what is in
  the overflow pages that no chain reaches.
* `engine`: a pool of one frame for three pages of two files evicts in every operation.
  Blocks of two postings, a fan-in of two and one pending segment make every insert close
  to a merge; three documents and four generations (`DocumentLimit`, `GenerationLimit`) let a merge take
  a deleted document out while another arrives, and one crash
  (`CrashLimit`) may come between any two files. Boolean trees are up to two operators deep, over
  words of no, one and two terms, 17 queries are malformed, and one asks for no result (`k` = 0).
  Free text has three documents with up to three terms, `k` of 1 or 2, and rows in the order of the
  documents and in the opposite one. Five rows (`InputLimit`) with one or two buffers recurse,
  meet a key that fills the memory, and spill on both sides. Two raised steps or ends of
  the process (`FailureLimit`) let a recovery fail too. Two rows in a transaction of two changes
  (`RowLimit`, `LogLimit`) exchange keys and codes, one or both out of reach of the
  statement, and two references (`RefLimit`) let a TEXT stay where it was or move. `MCQueries` lists statements: each condition that an
  index could answer alone and beside another, every order, search, group, join and
  limit, and statements that are wrong, over catalogs with and without each index, with
  up to two rows in a table, values chosen at and beside the bounds, and NULL.

* The statements of `structures`: every operator and predicate has every other in each of its places, and every
  clause, join and column constraint is written; a tree of three levels (`MaxDepth`) and
  four restarts (`MaxNesting`) put some statements within the limits, at them and
  beyond. `EditLimit` bounds the mistakes.

Symmetry is used only in runs without liveness; transactions, tables without order,
keys and values are interchangeable in them. Deadlock is not checked in the runs whose
system really stops: a server that shut down, a search that was scored, an input at its
bound. Every property of a passing run has a mutant of the code model that breaks it,
listed in `PROJECT.json`; the mutated forms stand beside the definitions they replace,
marked `Mutant`.

`Expressions`, `Planner` and `Queries` were also compared with the program itself while they
were written: each statement, catalog and content of a sample was run in the engine, and
plan and rows agreed, but for the order of the rows of joins, which depends on partitions
and belongs to `ExternalAlgorithms`.

## 4. Fairness

* `EndingsSpec` of `MCEndings`: a notified or expired thread gets the processor
  (`WF(Wake)`). Then there are two kinds of behaviour of the locks. In one (`deadlines`) clocks advance
  (`WF(Expire)`: the deadline is computed once and `Condition.wait` has a timeout) and no
  holder is assumed to release anything. In the other (`patience`) no deadline passes, but each
  transaction that is not waiting ends: the client ends it, or `session_idle_seconds`
  does while named sessions keep being claimed (see the third finding). Upgrades are left
  out of it because they overtake by design ("Ascender de compartido a exclusivo no hace
  cola"): with a stream of them and no deadline a woken reader can lose the race each time.
  In the third kind (`service`) a request that came in goes on (`WF(Step)`, in which
  `Leave` ends a script). `slot.guard` is a `threading.Lock`, which is not fair, so a
  waiting request of a named session is only assumed to enter if its turn stays free.
* `FairSpec` of `Sessions` (`failures`): a statement that was asked for keeps running. Clients
  are not assumed to send anything more. The run needs both deadlines, that of a lock and
  that of the guard; without the second (its mutant) the property fails.
* `BusySpec`: the server stays up and keeps receiving requests without `session_id`
  (`WF(Anonymous)`). It is the weakest environment in which expiry could be expected.

The other modules state safety only: their operations are sequential and each ends by itself.

## 5. Proofs

`LockManagerProofs` proves for any sets of transactions and tables, with only the
assumption that "none" is not a table (`NoneIsNotAResource`):

* `TypeCorrect`: the type invariant. The base of the rest.
* `LocksExclude`: `CompatibleHolders`. A grant happens only with no blockers, so no
  other holder conflicts with the merged mode.
* `TurnsAreAnOrder`: who is ahead of a request still waits, and of two that wait exactly
  one is ahead. Arrivals put everybody ahead, departures remove from all sets.
* `NoWakeupIsLost`: whoever sleeps unnotified has a blocker. The only steps that take
  blockers away without notifying are grants. The one granted had no blockers, and if
  it blocked a sleeper by its turn then it blocks it as a holder afterwards.
* `DeadlocksAreDetected`: no set of waiters waits only for itself. The inductive step
  takes a set that would be such after the step and shows that it was one before,
  or that the thread that has just gone to sleep closes a cycle.
* `OnlyHoldersAreVictims`: a refused transaction holds something, because nobody waits
  for a request that has the last turn and no lock.
* `NobodyOvertakes` (`NoOvertaking`): only a grant adds a holder, and one without blockers has
  nobody ahead of it in the queue whom it conflicts with.
* `ImplementsTheLockTable`: every step is a `Take`, a `Refuse`, a `LetGo` or a stutter of
  `LockTable`.

`SessionsProofs` proves, for any sessions, tables, keys, values
and bound on changes, and whatever may fail (`ConstantsAssumption` says only that tables
are numbers and that the markers are not values):

* `TypeCorrect`: the type invariant. Besides the shapes it says that a session is active
  exactly while it is in a transaction, that its log never gets shorter than at the
  beginning of the statement it is in, who owns the guard, and that only a transaction
  that BEGIN opened undoes a single statement.
* `SessionsAreIsolated`: the inductive invariant `Isolated`. It joins `Exclusive` (who has a
  table to write has it alone) with `Discipline(s)` of each session: what it has touched
  and what a write has passed in its list is held exclusively, it runs with nothing left
  to lock, it holds nothing outside a transaction, and an autocommit session that is idle
  or inspecting has an empty log. The proof needs that no step shows in the place, log or
  locks of another session (`OthersAreUntouched`), so each conjunct is checked only for
  the session that moves.
* `LocksEndWithTheirTransaction` (`NoLockIsLeaked`) and `ChangesAreAlwaysLocked`
  (`ChangesAreLocked`) follow from it.
* `ReadsAreAlwaysRepeatable` (`ReadsAreRepeatable`): rows change only in `ChangeRow` and
  `Revert`, whose table the session holds exclusively (`RowsChangeUnderLock`).
* `CommitsAreOnDisk` (`CommitIsOnDisk`): what a commit has flushed stays equal to the
  rows until it ends (`FlushesStay`), because others cannot change those tables and an
  eviction writes what is in memory.

`SessionsLogProofs` goes on from `Isolated`, with one more assumption on a marker, that
`Absent` is not itself the content of a table (`AbsentAssumption`):

* `LogsMatchRows` (`LogMatchesRows`), whatever fails. `Recorded` says it of each log and row:
  the row stands as the last change to it left it, and each change began where the one
  before it on that row ended (`ChainedAt`). Noting a change puts a link at the end of one
  chain, a revert takes the last link off (`AppendChains`, `RevertChains`), and no other session
  changes a row that a log speaks of, by `Isolated`.
* `SessionsImplementAtomicStore` (`ImplementsAtomicStore`), if no undo fails (`UndoesSucceed`).
  `CommittedContent` takes every open log back at once; `CommittedTells` says that for a table
  with one writer it is what that writer's log began from (`Original`), and for a table without
  a writer it is the rows. So a change and its revert leave it alone (`CommittedMoves`), a commit makes
  it the rows in all the tables of its transaction (`EndPublishes`), and an abort ends with
  an empty log (`UndoesAll`, `HowItEnds`), where there is nothing to publish.
* `RollbackUndoes` (`RollbackUndoesEverything`), if no undo fails. The run `busy_rollback` is
  the counterexample when the guard of the engine may be busy: the hypothesis is needed.
* `CommitsSurvive` (`CommittedSurvives`), if nothing fails but statements; deadlocks and
  timeouts are included. `Saved` says that a table is on disk as it was last committed, unless
  its transaction is between its flushes and has done that one. The hypothesis is needed: with
  evictions the run `evicted_page` refutes it, and a flush or an undo that fails does the same.

It also proves, of `StatementLocks` with any transactions, tables and order of their names:

* `StatementsAreNeverVictims` and `DisciplineAvoidsDeadlocks` (`StatementsNeverDeadlock`). The invariant
  `WaitsUpwards` says that what a statement holds comes before what it waits for. It is not
  enough by itself, because a request also waits for those ahead of it in the queue, who may hold
  nothing: the edge of a queue stays on the same table and follows the turns, that of a
  holder goes up. To show that a newcomer closes no cycle, `NewcomerInOrderClosesNoCycle` exhibits
  the closed set without it that `ClosesACycle` asks about: all who do not wait, or wait
  for its table or a later one. A thread that wakes finds no cycle
  either, because no set of waiters waits only for itself (`NoCycleOnWaking`).

`SessionServiceProofs` proves, for any names, slots and finite pool of threads
(`ThreadsAreFinite`, which counting them needs), that `ServiceInv` is inductive:

* `CountsAreRight` (`TypeOK`, which has the count of each slot in it): `requests[s]` is the number of threads
  between `_claim` and `_release`. `ClaimCounts` and `ReleaseCounts` are the two steps that
  change it, `CountsTell` what it is used for.
* `SessionsCloseAlone` (`ClosedAlone`) and `TransactionsHaveSomebody`
  (`NoOrphanTransaction`). Neither is inductive alone: that nobody can come to use a session
  that is being closed needs `Remembers` (a slot with requests that has lost its name was asked to
  close, and one that was asked to close has no name), and both need `Placed`, what a thread has in
  its hands where it is.
* `EngineIsClosedLast` (`EngineClosesLast`) needs `Stopped`: from `Service.close` on one thread is at
  work and no slot has a name.

`BufferPoolProofs` proves `PoolKeepsPages` (`PagesAreKept`) for any files, threads that flush,
capacity and bounds, on a device that does not fail when a page leaves. The hypothesis is needed: with
`DiskFails` TLC finds the page that was lost (see 6). `PoolInv` is inductive:

* `Kept` of each file: a page in memory is as it was last given to write, and one without a mark is so
  in the file; a closed file has all that was written; neither the file nor the device is behind
  what was promised. `Later(a, b)`, no page of `a` is older than the same of `b`, is what all
  of it is said with.
* `Loaded`: the pages in memory are of open files. Otherwise a file that is closed and opened again
  would show what it had before.
* `Promises`: what an `fsync` under way is going to promise was in the file when it began. Files never
  go back (`PromisesStay`), so it still is when it ends, whatever was done in between.

`PlaceIs` says once what placing a page does, whether or not one leaves, and `PlaceKeeps`
that memory and files are right after it; reads, writes and new pages follow from them.
`FlushWrites` says what a whole flush, or the part of one that fails, leaves in the file.

`HeapFileProofs` proves, for any records, slots in a page and pages in a file, `HeapIsSound`
(`HeapSound`) and `HeapKeepsItsRecords`: insert adds one entry at an address that had none, and update and
delete change only the entry of their address (the operations of `KeyedStore`).

* `HeapInv` says that some sequence is what the file's links go through from the head of its list
  (`Linked`) and that it has the pages with room, each once. Stated so, a step is proved by giving the
  sequence that it makes: the same (`LinksStay`), without its first (`FirstLeaves`) or with another
  first (`FirstEnters`).
* `ChainIs` gives what is meant back: `Chain`, which follows the links, computes the sequence that is
  linked. It goes from `n` links to `n + 1` (`FollowGoesOn`) by the least number of links for which
  it would fail, since the induction theorems are out of reach. That a list is no longer than its
  file is the injection of its places into the pages.
* `WriteIs`, `FreeIs` and `FreeSlotIs` say what a page becomes, with the free slots at the end that are
  given back; `RecordEnters`, `RecordLeaves` and `RecordChanges`, what that does to the addresses, the
  entries and their number.

`DefinitionsProofs` proves `DefinitionsAreSound` (`DefinitionsSound`) for any tables and names of indexes
(`DefAssumption`: the index declared with a table is one of the names, and no index has the name of the
rows), whichever steps raise and whenever the process ends:

* `DefIInv` says what the list of steps still to do is, in each state: nothing, or what is left of one of the
  nine ways a definition or a recovery goes (`Creating`, `Undoing`, `Filling`, `Dropping`, `Adding`, `Reopening`,
  `Unbuilding`, `Cutting`, `Using`), and for each place in each of them what is true of its table there:
  which of memory, disk and open tables name which indexes, which files there may be, which all are, and
  which have what they should. Between statements, and of the other tables always, it is `Settled`, which says
  more than the property: an open table has all its files, and no file of the rows is half written.
* A step is taken, raises, or the process ends before it. The lemmas `...GoesOn`, one for each way, show from
  the first two the assertion of the next place, or of the first place of the recovery, or `Settled`, or that the
  table is struck. The end of the process anywhere leaves the other tables settled (`EndSettles`), and this one
  too (`EndIsOver`) unless something was cut short (`CutsShort`).
* A recovery inside another, as in `CREATE TABLE ... FROM FILE` with an index that cannot be built, is followed
  once: the lists take what comes after as a parameter (`Ways`), and `Dropping` admits a table already struck,
  which a second failure may leave.

`TableRowsProofs` proves `TableIsAlwaysSound` (`TableSound`) for any rows, batches of rows and updates
(`RowAssumption`: a row has a key that is not NULL, and a batch and an update are of rows), whichever call
raises and whatever is undone. `TableIInv` is inductive and has two parts:

* One that holds whatever was raised: `CallsInTurn`, what each call finds when its turn comes (before
  a row is rewritten or taken, its address and its record are still those that were read), and
  `EntriesTrue`, that an entry on the key or the code names a row with that value.
* One that holds until a call raises midway, `Unhurt`. `EntriesExact` says which entries there are at each call:
  those of the rows, but for the columns of the row in course that were left or are not entered
  yet (`Absent`). `TextsCounted` says that each TEXT is of one row or is the one in hand (`Loose`), and `RowsReadWell`
  that the text a row refers to is one it may have. `KeysApart` is why no two rows ever have one key: a key yet to be
  stored is of no row, or of one that is yet to be deleted (`Leaving`), because `Repeats` looked at
  what the statement leaves behind (`NewKeysAreFree`, `UpdateWhereKeeps`); it needs that a row is found by its key, whether through an index, a scan or its place
  (`RowIsFoundByItsKey`). `Pending` keeps what was read of the other rows true while one changes.
* An error that comes before the first call of a change leaves no trace of it (`UntilHalfway`), so `Unhurt` stays.

There is a lemma for each action, `...Keeps`.

`UndoAlwaysRestores` (`UndoRestoresRows`) is that the log takes the rows back to those the transaction began with, and
that no key or code is repeated, in a keyed file, in a heap file without indexes and in a heap file none of whose UPDATEs changes both keys and
codes (`KeyOrCodeStays`; `table_exchange` shows that without it this is false). `UndoRestoresUntilItRepeats` has instead the
hypothesis that no undoing has found a value of what it puts back (`UndoMeetsARepeat`), for any UPDATEs. The invariant,
`UndoIInv`, is that there are `states` of the rows, one for each length of the log (`History`): each `Fits` the
next change and the next state is its `Result`.

* `Standing` relates the last of them to the rows that can be read whole: less the row in course while it is rewritten,
  the result of the change once it is put. Each call keeps it (`PackStands` to `RewriteStands`), so noting a change adds
  a state and popping one drops it, because what undoes a change has as its result the state before it (`GoesBack`).
* No code is twice in the rows that the statement will leave (`Final`), which is what `Repeats` looks at before it
  begins, and none was when the statement and the transaction began (`Begun`). Codes may be twice on the way, when an
  UPDATE exchanges them; if it also deletes rows, `KeyOrCodeStays` rules that out, and so what is put back is not
  rejected (`NoRepeatIsMet`).
* `Reverted` computes the states from the last to the first (`LogTakesBack`): the states themselves solve its recursive
  definition, and there is no other solution, because the set of numbers of steps after which another one would differ
  has no least element.


Only model-checked: all liveness (fairness and ENABLED are out of the prover's reach); of the
run `structures` all but `HeapSound`, and of `engine` all but `PagesAreKept`, `DefinitionsSound`,
`TableSound` and `UndoRestoresRows`. What the modules with
RECURSIVE operators state stays with TLC, and so does what a tree or a fold over data computes: the
induction theorems of the library cannot be used.

## 6. Findings

* **A rollback that undoes nothing** (`busy_rollback`). `Session._rollback` and `_abort`
  open the tables of the transaction before undoing. If another session's DDL keeps the
  engine's guard longer than `lock_timeout_seconds`, `Engine.table` raises
  `EngineBusyError` and the `finally` branch ends the transaction and releases its locks
  with its changes in place. `txn/README.md:119` says that ROLLBACK undoes everything.
* **Rolled back rows on disk** (`evicted_page`). An evicted page of an open transaction
  is on disk; the rollback restores it in memory and does not flush. If the process ends
  then, with no transaction open, the committed row is gone. `txn/README.md:158-161`
  excepts only a crash in the middle of a transaction. The same happens when a commit
  fails after flushing some of its tables.

* **Idle sessions that nobody closes** (`idle_sessions`). Expired sessions are looked for
  only when a request with another `session_id` arrives. On a server that only receives
  requests without one, a tab closed in the middle of a transaction keeps its tables
  locked, although `api/README.md:66-68` says it does not.

* **A rollback that stops half way** (`table_exchange`). `UPDATE t SET id = id*id, code =
  3-code` on the rows (1,1) and (2,2), with `code` UNIQUE, succeeds: the first row keeps its
  key and is rewritten, the second moves and is deleted and inserted. The log is a
  rewriting, a deletion and an insertion; undoing takes the insertion back, then inserts
  the deleted (2,2) while the first row still holds code 2, and `insert` raises
  `DuplicateValueError`. The table is left with (1,2). `query/table.py:392-393` says that
  this is the order in which the changes have to be undone. The engine shows it: the
  statement above and ROLLBACK, with no failure of any kind. `UndoRestoresRows` holds in
  `engine`, none of whose UPDATEs changes both keys and codes, and `UndoAlwaysRestores` proves
  that this is enough.

* **Two aggregations taken for one** (`aggregates`). `describe_expression` puts parentheses
  around the operands of a binary operator and of nothing else, so `-(id + v)` is written
  `-id + v`. The planner recognises an aggregation by this text: `SELECT SUM(-(id + v)),
  SUM(-id + v) FROM a` computes the second sum and shows it in both columns.
  `planner.py:799-804` says that the text identifies an aggregation and that equal calls are
  computed once, `expressions.py:618` that it is what one would write in SQL. The program
  shows it with the same statement. `QueriesAnswer` holds in `engine`, none of whose
  statements has two calls that are written the same and are not.

Disagreements without a run of their own:

* `buffer_pool.py:112-116` drops the dirty mark and the frame before writing. If the write
  raises, the page is lost and a later flush promises what it does not write, although the
  docstring (lines 9-10) says that a modified page is written before it leaves memory. With `DiskFails = TRUE`,
  `PagesAreKept` fails in `MCEngine`; the run has it FALSE.
* `planner.py:546-552`: `SELECT SUM(v) AS x, COUNT(*) AS x FROM t` answers the count twice,
  because the label of the second aggregate replaces the first one.
* A crash between two files of a flush of the inverted index leaves documents in the saved
  table without postings (`torn` in `InvertedIndex`), which no search finds again.
* A crash inside CREATE INDEX, DROP INDEX or CREATE TABLE FROM FILE leaves an index that is
  empty or incomplete and that is believed (`struck` in `Definitions`).
* NOT, AND and OR over what is not a condition are accepted in a projection (`SELECT NOT v`)
  and fail at the first row; the model does the same.

Not a finding, but worth knowing: `release_all` for a transaction whose thread is waiting
would let that `acquire` return as granted. The callers never do it, because a session
is closed only when no request uses it (`ClosedAlone`).

## 7. Not modelled, and why

* The lexer, text analysis, the loader, routes, schemas and configuration have no
  state or control that a property here would be about; statements, words, rows and
  requests are the inputs of the models.
* In the parser: EXPLAIN, scripts of many statements, the options after WITH, IF NOT EXISTS,
  CREATE INDEX, CREATE TABLE FROM FILE, DROP and the statements about transactions, which
  are a few words in a row.
* Vector indexes, the similarity index and the multimedia code are floating-point work of
  libraries; a query sees them as an exact search.
* `storage/record.py`, `types.py`, `schema.py` and `stream.py` encode data.
* Inside what is modelled: EXPLAIN and statistics; the numbers of BM25 and of distances on
  a sphere; dates as literals; the `USING` and `WITH` options of indexes; tuples of columns;
  secondary indexes of tables that are not heap files, which the engine refuses; crashes between the
  flushes of the files of one table, for which the code has no recovery to state.

## 8. Plan

What is left is proof. In this order:

1. `VariableLengthFile` and `SequentialFile`: the part of `VarlenSound` and `SeqSound` that is about lists
   of pages, with `Linked` and `ChainIs`.
