----------------------------- MODULE TableRows -----------------------------
(* query/table.py with query/row_store.py, storage/out_of_row.py and the common
   part of the secondary indexes (index/secondary.py), and the undo log of
   txn/transaction.py applied to it: one table whose rows have a primary key, a
   UNIQUE code, NULL or not, and a TEXT, NULL or stored out of the row.

   A statement changes its rows one after another, and each change makes its calls
   to the rows, the indexes, the TEXT values and the log one by one: any may raise.
   0 is NULL. *)
EXTENDS Integers, Sequences, FiniteSets, SequencesExt

CONSTANTS Batches,     \* the sequences of rows that are inserted
          Transforms,  \* the functions [Row -> Row] of the UPDATEs
          Row,         \* the rows there may be
          RowLimit,    \* bound: addresses of the heap file
          RefLimit,    \* bound: references of the file of TEXT values
          LogLimit     \* bound: changes of a transaction

ASSUME RowAssumption ==
  /\ Row \subseteq [key : Nat \ {0}, code : Nat, text : Nat]
  /\ Batches \subseteq Seq(Row) /\ Transforms \subseteq [Row -> Row]

VARIABLES organization, \* "heap", "bare" for a heap file whose indexes were dropped, or
                        \* "keyed" for a sequential or clustered file
          rows,         \* address -> record; a keyed file has the key as address
          texts,        \* reference -> TEXT
          entries,      \* column -> {<<value, address>>}: the secondary indexes
          log,          \* changes of the open transaction
          todo,         \* changes of rows that the statement has yet to begin
          course,       \* the change of a row that is being made, or taken back
          call,         \* the next call that it makes, "none" between two changes
          ahead,        \* in a loop over indexes, the columns it has yet to reach
          hand,         \* the record that is being stored, and where
          undoing,      \* what is being undone: "nothing", "statement", "transaction"
          mark,         \* len(changes) when the statement began
          halfway,      \* whether the change in course has made a call
          raised,       \* whether a call has raised: "no", "cleanly" between two changes
                        \* of rows, or "midway", leaving one, or a rollback, halfway
          began         \* the rows when the transaction began

courseVars == <<todo, course, call, ahead>>
tableVars == <<organization, rows, texts, entries, log, courseVars, hand, undoing, mark, halfway, raised, began>>

NoRecord == [key |-> 0, code |-> 0, ref |-> 0]
NoHand == [at |-> 0, record |-> NoRecord]
NoCourse == [kind |-> "none", at |-> 0, record |-> NoRecord, before |-> NoRecord, after |-> NoRecord]
Columns == {"key", "code", "text"}

\* definition.indexes: a heap file is created with one on its key, and here with one on
\* each column; DROP INDEX may take them all away.
Indexes == IF organization = "heap" THEN Columns ELSE {}

TableInit ==
  /\ organization \in {"heap", "bare", "keyed"}
  /\ rows = <<>> /\ texts = <<>> /\ entries = [column \in Columns |-> {}]
  /\ log = <<>> /\ todo = {} /\ course = NoCourse /\ call = "none" /\ ahead = {} /\ hand = NoHand
  /\ undoing = "nothing" /\ mark = 0 /\ halfway = FALSE /\ raised = "no" /\ began = {}

TextAt(ref) ==
  CASE ref = 0                     -> 0
    [] ref # 0 /\ ref \in DOMAIN texts -> texts[ref]
    [] OTHER                       -> -1

\* unpack and unpack_field: the TEXT is read where the reference says, now.
Unpacked(record) == [key |-> record.key, code |-> record.code, text |-> TextAt(record.ref)]
ValueIn(record, column) == IF column = "text" THEN TextAt(record.ref) ELSE record[column]

LogicalRows == {Unpacked(rows[a]) : a \in DOMAIN rows}
Without(f, x) == [y \in DOMAIN f \ {x} |-> f[y]]
With(f, x, value) == [y \in DOMAIN f \cup {x} |-> IF y = x THEN value ELSE f[y]]
NewRefs == 1..RefLimit \ DOMAIN texts

-----------------------------------------------------------------------------
(* The changes of a row and, for each call of one, the call that follows it. *)

StoreOf(row) == [kind |-> "insert", at |-> 0, record |-> NoRecord, before |-> row, after |-> row]
UpdateOf(at, after) ==
  [kind |-> "update", at |-> at, record |-> rows[at], before |-> Unpacked(rows[at]), after |-> after]
DeleteOf(at) == [UpdateOf(at, Unpacked(rows[at])) EXCEPT !.kind = "delete"]

StoreCalls == [start |-> "pack", pack |-> "put", put |-> "enter", enter |-> "log"]

DeleteCalls == [start |-> "leave", leave |-> "take", take |-> "release", release |-> "log"]

\* A keyed file rewrites a row by deleting it and inserting it.
RewriteCall == IF organization = "keyed" THEN "take" ELSE "rewrite"

\* Mutant: the TEXT is rewritten before the row leaves its indexes.
UpdateCallsRepackFirst ==
  [start |-> "repack", repack |-> "leave", leave |-> RewriteCall,
   rewrite |-> "enter", take |-> "put", put |-> "enter", enter |-> "log"]

UpdateCalls ==
  [start |-> "leave", leave |-> "repack", repack |-> RewriteCall,
   rewrite |-> "enter", take |-> "put", put |-> "enter", enter |-> "log"]

CallsOf(change) ==
  CASE change.kind = "insert" -> StoreCalls
    [] change.kind = "delete" -> DeleteCalls
    [] OTHER                  -> UpdateCalls

\* An update goes only to the indexes whose column changes.
Stale(before, after) == {column \in Columns : before[column] # after[column]}
IndexesOf(change) ==
  {column \in Indexes : change.kind = "update" => column \in Stale(change.before, change.after)}

\* A loop over no indexes makes no call.
CallAfter(change, op) ==
  LET next == CallsOf(change)[op]
  IN  IF next \in {"leave", "enter"} /\ IndexesOf(change) = {} THEN CallsOf(change)[next] ELSE next

Begins(change) ==
  course' = change /\ call' = CallAfter(change, "start") /\ ahead' = IndexesOf(change)

NothingInCourse == course' = NoCourse /\ call' = "none" /\ ahead' = {} /\ hand' = NoHand

-----------------------------------------------------------------------------
\* Each call.
Idle == todo = {} /\ call = "none" /\ undoing = "nothing"
KeptByCalls == <<organization, undoing, mark, raised, began, todo>>

Called(op) ==
  /\ call = op /\ call' = CallAfter(course, op)
  /\ ahead' = IndexesOf(course) /\ halfway' = TRUE
  /\ UNCHANGED course

\* The indexes are gone through in the order in which they were made.
Place == [key |-> 1, code |-> 2, text |-> 3]
CalledFor(op, column) ==
  /\ call = op /\ column \in ahead /\ \A other \in ahead : Place[column] <= Place[other]
  /\ ahead' = ahead \ {column}
  /\ call' = IF ahead = {column} THEN CallAfter(course, op) ELSE op
  /\ halfway' = TRUE
  /\ UNCHANGED course

\* pack puts the TEXT among the values.
PackRow ==
  /\ Called("pack")
  /\ LET row == course.after
     IN  \E ref \in IF row.text = 0 THEN {0} ELSE NewRefs :
           /\ texts' = IF ref = 0 THEN texts ELSE With(texts, ref, row.text)
           /\ hand' = [at |-> 0, record |-> [key |-> row.key, code |-> row.code, ref |-> ref]]
  /\ UNCHANGED <<rows, entries, log, KeptByCalls>>

\* A row takes any free slot of a heap file, and the place of its key in a keyed one.
PutRow ==
  /\ Called("put")
  /\ \E at \in IF organization = "keyed" THEN {hand.record.key} ELSE 1..RowLimit \ DOMAIN rows :
       /\ rows' = With(rows, at, hand.record)
       /\ hand' = [hand EXCEPT !.at = at]
  /\ UNCHANGED <<texts, entries, log, KeptByCalls>>

\* A row with NULL is not in the index.
EnterIndex(column) ==
  /\ CalledFor("enter", column)
  /\ LET value == ValueIn(hand.record, column)
     IN  entries' = IF value = 0 THEN entries
                    ELSE [entries EXCEPT ![column] = @ \cup {<<value, hand.at>>}]
  /\ UNCHANGED <<rows, texts, log, hand, KeptByCalls>>

\* The value to take out is read from the record, and a TEXT from its file.
LeaveIndex(column) ==
  /\ CalledFor("leave", column)
  /\ entries' = [entries EXCEPT ![column] = @ \ {<<ValueIn(course.record, column), course.at>>}]
  /\ UNCHANGED <<rows, texts, log, hand, KeptByCalls>>

TakeRow ==
  /\ Called("take")
  /\ rows' = Without(rows, course.at)
  /\ UNCHANGED <<texts, entries, log, hand, KeptByCalls>>

ReleaseTexts ==
  /\ Called("release")
  /\ texts' = Without(texts, course.record.ref)
  /\ UNCHANGED <<rows, entries, log, hand, KeptByCalls>>

\* repack: a TEXT that does not change keeps its reference; one that does is replaced
\* where it is, or moves if it does not fit; to NULL, it is deleted.
RepackRow ==
  /\ Called("repack")
  /\ LET after == course.after
         ref == course.record.ref
         kept == ref # 0 /\ TextAt(ref) = after.text
         others == Without(texts, ref)
     IN  \E place \in CASE kept                              -> {ref}
                        [] ~kept /\ after.text = 0           -> {0}
                        [] ~kept /\ after.text # 0 /\ ref = 0 -> NewRefs
                        [] OTHER                             -> {ref} \cup NewRefs :
           /\ texts' = IF place = 0 THEN others ELSE With(others, place, after.text)
           /\ hand' = [at |-> 0, record |-> [key |-> after.key, code |-> after.code, ref |-> place]]
  /\ UNCHANGED <<rows, entries, log, KeptByCalls>>

RewriteRow ==
  /\ Called("rewrite")
  /\ rows' = [rows EXCEPT ![course.at] = hand.record]
  /\ hand' = [hand EXCEPT !.at = course.at]
  /\ UNCHANGED <<texts, entries, log, KeptByCalls>>

\* The change is noted once it is done; one that is undone leaves the log.
NoteChange ==
  /\ call = "log" /\ undoing = "nothing"
  /\ log' = Append(log, [kind |-> course.kind, before |-> course.before, after |-> course.after])
  /\ NothingInCourse /\ halfway' = FALSE
  /\ UNCHANGED <<rows, texts, entries, KeptByCalls>>

PopChange ==
  /\ call = "log" /\ undoing # "nothing"
  /\ log' = Front(log)
  /\ NothingInCourse /\ halfway' = FALSE
  /\ UNCHANGED <<rows, texts, entries, KeptByCalls>>

-----------------------------------------------------------------------------
\* addressed_by_primary_key: through the index of a heap file, or going through all of it
\* if it has none; a keyed file finds the place of the key.
AtKey(key) ==
  CASE organization = "heap"  -> {e[2] : e \in {e \in entries["key"] : e[1] = key}}
    [] organization = "bare"  -> {a \in DOMAIN rows : rows[a].key = key}
    [] organization = "keyed" -> {key} \cap DOMAIN rows

Holds(column, value) ==
  IF column = "key" THEN AtKey(value) # {} ELSE \E e \in entries[column] : e[1] = value

\* The key, and the column of each index that is UNIQUE.
UniqueColumns == {"key"} \cup IF organization = "heap" THEN {"code"} ELSE {}

\* _changing: what counts is the result. A value is free if nobody has it or who has
\* it changes it, and no other row takes it.
Repeats(column, before, after) ==
  LET changing == {i \in DOMAIN after : after[i] # before[i]}
      vacated == {before[i] : i \in changing}
  IN  \E i \in changing :
        /\ after[i] # 0
        /\ \/ \E j \in changing : j # i /\ after[j] = after[i]
           \/ after[i] \notin vacated /\ Holds(column, after[i])

NoRow == -1
RejectsNew(batch) ==
  \E column \in UniqueColumns :
    Repeats(column, [i \in DOMAIN batch |-> NoRow], [i \in DOMAIN batch |-> batch[i][column]])

StatementMayStart == Idle /\ raised # "midway" /\ Len(log) < LogLimit
KeptByStatements ==
  <<organization, rows, texts, entries, log, course, call, ahead, hand, halfway, undoing, raised, began>>

\* insert_all: nothing is stored unless every row may be.
InsertAll(batch) ==
  /\ StatementMayStart /\ ~RejectsNew(batch)
  /\ Cardinality(DOMAIN rows) + Len(batch) <= RowLimit
  /\ todo' = {StoreOf(batch[i]) : i \in DOMAIN batch}
  /\ mark' = Len(log)
  /\ UNCHANGED KeptByStatements

\* The victims are read, with their addresses and records, before anything changes.
DeleteWhere(addresses) ==
  /\ StatementMayStart
  /\ todo' = {DeleteOf(a) : a \in addresses}
  /\ mark' = Len(log)
  /\ UNCHANGED KeptByStatements

\* update_where: the rows whose key changes are deleted, and then stored.
UpdateWhere(addresses, transform) ==
  LET before == [a \in addresses |-> Unpacked(rows[a])]
      after  == [a \in addresses |-> transform[before[a]]]
      moving == {a \in addresses : before[a].key # after[a].key}
  IN  /\ StatementMayStart
      /\ \A column \in UniqueColumns :
           ~Repeats(column, [a \in addresses |-> before[a][column]], [a \in addresses |-> after[a][column]])
      /\ todo' = {UpdateOf(a, after[a]) : a \in addresses \ moving}
                   \cup {DeleteOf(a) : a \in moving} \cup {StoreOf(after[a]) : a \in moving}
      /\ mark' = Len(log)
      /\ UNCHANGED KeptByStatements

\* A statement rewrites the rows it rewrites, then deletes those it deletes, then
\* stores those it stores, in the order in which it found them, which may be any.
Turn == [update |-> 1, delete |-> 2, insert |-> 3]
NextRow(change) ==
  /\ call = "none" /\ \A other \in todo : Turn[change.kind] <= Turn[other.kind]
  /\ todo' = todo \ {change} /\ Begins(change)
  /\ UNCHANGED <<organization, rows, texts, entries, log, hand, undoing, mark, halfway, raised, began>>

-----------------------------------------------------------------------------
\* What is left of the log after undoing what is being undone.
UndoneDownTo == IF undoing = "statement" THEN mark ELSE 0

\* The rows equal to one that the log names, found by their key.
Like(row) == {at \in AtKey(row.key) : Unpacked(rows[at]) = row}

\* Mutant: the log is undone from its beginning.
OldestChange(changes) == Head(changes)
NextUndone(changes) == Last(changes)

\* An error ends the undoing: of a statement, the whole transaction is undone then;
\* of a transaction, it ends as it is.
GivesUp ==
  IF undoing = "statement"
  THEN undoing' = "transaction" /\ UNCHANGED log
  ELSE undoing' = "nothing" /\ log' = <<>>

\* _revert of the last change, which leaves the log after that. A row that is not
\* there is not looked for further.
Reverts(kind, courses) ==
  /\ NextUndone(log).kind = kind
  /\ \/ \E reverse \in courses : Begins(reverse)
     \/ courses = {} /\ call' = "log" /\ UNCHANGED <<course, ahead>>
  /\ UNCHANGED <<log, undoing>>

UndoChange ==
  /\ undoing # "nothing" /\ call = "none" /\ Len(log) > UndoneDownTo
  /\ LET before == NextUndone(log).before
         found == Like(NextUndone(log).after)
     IN  \/ Reverts("insert", {DeleteOf(at) : at \in found})
         \/ Reverts("update", {UpdateOf(at, before) : at \in found})
         \/ /\ NextUndone(log).kind = "delete" /\ ~RejectsNew(<<before>>)
            /\ Begins(StoreOf(before)) /\ UNCHANGED <<log, undoing>>
         \/ /\ NextUndone(log).kind = "delete" /\ RejectsNew(<<before>>)
            /\ GivesUp /\ UNCHANGED <<course, call, ahead>>
  /\ UNCHANGED <<organization, rows, texts, entries, todo, hand, mark, halfway, raised, began>>

UndoEnds ==
  /\ undoing # "nothing" /\ call = "none" /\ Len(log) <= UndoneDownTo
  /\ undoing' = "nothing"
  /\ UNCHANGED <<organization, rows, texts, entries, log, courseVars, hand, mark, halfway, raised, began>>

\* One call, at most, raises: the statement is undone down to where it began.
CallRaises ==
  /\ raised = "no" /\ call \notin {"none", "log"}
  /\ raised' = IF halfway \/ undoing = "transaction" THEN "midway" ELSE "cleanly"
  /\ todo' = {} /\ NothingInCourse /\ halfway' = FALSE
  /\ IF undoing # "nothing" THEN GivesUp ELSE undoing' = "statement" /\ UNCHANGED log
  /\ UNCHANGED <<organization, rows, texts, entries, mark, began>>

CommitRows ==
  /\ Idle /\ log # <<>>
  /\ log' = <<>> /\ began' = LogicalRows
  /\ UNCHANGED <<organization, rows, texts, entries, courseVars, hand, undoing, mark, halfway, raised>>

RollbackRows ==
  /\ Idle /\ log # <<>>
  /\ undoing' = "transaction"
  /\ UNCHANGED <<organization, rows, texts, entries, log, courseVars, hand, mark, halfway, raised, began>>

TableNext ==
  \/ PackRow \/ PutRow \/ TakeRow \/ ReleaseTexts \/ RepackRow \/ RewriteRow
  \/ \E column \in Columns : EnterIndex(column) \/ LeaveIndex(column)
  \/ NoteChange \/ PopChange
  \/ \E batch \in Batches : InsertAll(batch)
  \/ \E addresses \in SUBSET DOMAIN rows \ {{}} :
       \/ DeleteWhere(addresses)
       \/ \E transform \in Transforms : UpdateWhere(addresses, transform)
  \/ \E change \in todo : NextRow(change)
  \/ UndoChange \/ UndoEnds \/ CallRaises \/ CommitRows \/ RollbackRows

TableSpec == TableInit /\ [][TableNext]_tableVars

-----------------------------------------------------------------------------
\* Every index has the rows whose column is not NULL and no more.
IndexesAgree ==
  \A column \in Columns :
    entries[column] = IF column \notin Indexes THEN {}
                      ELSE {<<ValueIn(rows[a], column), a>> :
                              a \in {a \in DOMAIN rows : ValueIn(rows[a], column) # 0}}

\* Every TEXT is referred to by one row, and every reference is to a TEXT.
TextsAreReferred ==
  /\ DOMAIN texts = {rows[a].ref : a \in DOMAIN rows} \ {0}
  /\ \A a, b \in DOMAIN rows : a # b /\ rows[a].ref # 0 => rows[a].ref # rows[b].ref

\* In the middle of a statement and after a call that raised: an entry of the index on
\* the key or the code names a row that has that value. Unless a call raised midway,
\* so does one of the index on the TEXT, which reads it from the file of values, and
\* no two rows have one key, not even while an UPDATE exchanges keys.
EntriesAreTrue ==
  /\ \A column \in Columns : column # "text" \/ raised # "midway" =>
       \A e \in entries[column] : e[2] \in DOMAIN rows /\ ValueIn(rows[e[2]], column) = e[1]
  /\ raised # "midway" =>
       /\ \A a, b \in DOMAIN rows : a # b => rows[a].key # rows[b].key
       /\ call = "put" => hand.record.key \notin {rows[a].key : a \in DOMAIN rows}

\* At every moment the entries are true. Between statements, unless a call has raised
\* in the middle of the change of a row, the indexes have every row and each TEXT is
\* of one: also after a statement that failed, or an undoing that gave up.
TableSound ==
  /\ EntriesAreTrue
  /\ Idle /\ raised # "midway" => IndexesAgree /\ TextsAreReferred

\* The rows with the changes of the log taken back, the last one first.
Reverted(changes) ==
  LET back[n \in 0..Len(changes)] ==
        IF n = Len(changes) THEN LogicalRows
        ELSE LET later == back[n + 1]
                 change == changes[n + 1]
             IN  (later \ IF change.kind = "delete" THEN {} ELSE {change.after})
                   \cup IF change.kind = "insert" THEN {} ELSE {change.before}
  IN  back[0]

NothingRepeats ==
  \A a, b \in DOMAIN rows : a # b =>
    \A column \in UniqueColumns : rows[a][column] # rows[b][column] \/ rows[a][column] = 0

\* Between statements the log takes the rows back to those the transaction began
\* with, so a statement that failed between two rows, or a transaction that was
\* rolled back, leaves them as they were, although undoing checks again that no
\* value is repeated; and no key or code is.
UndoRestoresRows == Idle /\ raised # "midway" => Reverted(log) = began /\ NothingRepeats

=============================================================================
