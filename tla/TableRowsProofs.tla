-------------------------- MODULE TableRowsProofs --------------------------
(* Proofs about TableRows, for every set of rows, of batches and of updates: the
   invariant that holds between any two calls of a statement or of its undoing, and
   from it that what the indexes say of the rows is true. *)
EXTENDS TableRows, TLAPS, WellFoundedInduction

Record == [key : Nat \ {0}, code : Nat, ref : Nat]
StoredRecord == [key : Nat, code : Nat, ref : Nat]
Change == [kind : {"insert", "delete", "update"}, before : Row, after : Row]
Course == [kind : {"insert", "delete", "update"}, at : Nat, record : StoredRecord, before : Row, after : Row]
CallNames == {"none", "pack", "put", "leave", "enter", "take", "release", "repack", "rewrite", "log"}

\* An update of a row keeps its key: one that does not is a deletion and an insertion.
KeepsKey(change) == change.kind = "update" => change.before.key = change.after.key

TableTypes ==
  /\ organization \in {"heap", "bare", "keyed"}
  /\ rows \in [DOMAIN rows -> Record] /\ DOMAIN rows \subseteq Nat \ {0}
  /\ texts \in [DOMAIN texts -> Nat \ {0}] /\ DOMAIN texts \subseteq Nat \ {0}
  /\ entries \in [Columns -> SUBSET (Int \X Nat)]
  /\ log \in Seq(Change) /\ \A i \in 1..Len(log) : KeepsKey(log[i])
  /\ todo \subseteq Course /\ \A c \in todo : KeepsKey(c)
  /\ course \in Course \cup {NoCourse} /\ KeepsKey(course)
  /\ call \in CallNames /\ ahead \subseteq Columns
  /\ hand \in [at : Nat, record : StoredRecord]
  /\ undoing \in {"nothing", "statement", "transaction"} /\ mark \in Nat
  /\ halfway \in BOOLEAN /\ raised \in {"no", "cleanly", "midway"}

\* The address and the record that a change was begun with are still those of a row.
Intact(c) ==
  /\ c.at \in DOMAIN rows /\ rows[c.at] = c.record
  /\ c.before.key = c.record.key /\ c.before.code = c.record.code

InCourse == call \notin {"none", "log"}
Rewritten == call = "rewrite" \/ (call = "take" /\ course.kind = "update")
Placing == call = "put" \/ Rewritten

\* What each call finds when its turn comes.
CallsInTurn ==
  /\ call = "none" => course = NoCourse
  /\ InCourse \/ (call = "log" /\ undoing = "nothing") => course \in Course
  /\ undoing # "nothing" \/ raised = "midway" => todo = {}
  /\ call \in {"pack", "put", "enter"} => course.kind # "delete"
  /\ call = "pack" => course.kind = "insert"
  /\ call = "put" /\ course.kind = "update" => organization = "keyed"
  /\ call \in {"leave", "take", "release"} => course.kind # "insert"
  /\ call = "release" => course.kind = "delete"
  /\ call = "take" /\ course.kind = "update" => organization = "keyed"
  /\ call \in {"repack", "rewrite"} => course.kind = "update"
  /\ call = "rewrite" => organization # "keyed"
  /\ call \in {"leave", "repack", "take", "rewrite"} => Intact(course)
  /\ call \in {"leave", "enter"} => ahead # {} /\ ahead \subseteq IndexesOf(course)
  /\ Placing => hand.record.key = course.after.key /\ hand.record.code = course.after.code
  /\ call = "enter" => hand.at \in DOMAIN rows /\ rows[hand.at] = hand.record
  /\ organization = "keyed" => \A a \in DOMAIN rows : rows[a].key = a

\* A change that has made no call has left no trace.
UntilHalfway ==
  InCourse /\ ~halfway =>
    /\ call \in {"pack", "leave", "take", "repack"}
    /\ call = "leave" => ahead = IndexesOf(course)
    /\ call \in {"take", "repack"} => IndexesOf(course) = {}
    /\ call = "take" => course.kind = "delete"

\* The entries of a row that the change in course has taken out, or has yet to enter.
Absent(a, column) ==
  \/ call = "leave" /\ a = course.at /\ column \in IndexesOf(course) \ ahead
  \/ call \in {"repack", "take", "rewrite"} /\ a = course.at /\ column \in IndexesOf(course)
  \/ call = "enter" /\ a = hand.at /\ column \in ahead

EntriesTrue ==
  \A column \in Columns : \A v \in Int, a \in Nat : <<v, a>> \in entries[column] =>
    /\ organization = "heap"
    /\ column # "text" => a \in DOMAIN rows /\ v = rows[a][column] /\ ~Absent(a, column)

EntriesExact ==
  organization = "heap" =>
    \A column \in Columns : \A v \in Int, a \in Nat :
      <<v, a>> \in entries[column] <=>
        a \in DOMAIN rows /\ v = ValueIn(rows[a], column) /\ v # 0 /\ ~Absent(a, column)

\* A key that is still to be stored is of no row, but of one still to be deleted.
Leaving(a) ==
  \/ \E d \in todo : d.kind = "delete" /\ d.at = a
  \/ call \in {"leave", "take"} /\ course.kind = "delete" /\ course.at = a

KeysApart ==
  /\ \A a, b \in DOMAIN rows : a # b => rows[a].key # rows[b].key
  /\ call \in {"pack", "put"} => \A a \in DOMAIN rows : rows[a].key # course.after.key
  /\ \A c \in todo : c.kind = "insert" =>
       /\ \A a \in DOMAIN rows : rows[a].key = c.after.key => Leaving(a)
       /\ call \in {"pack", "put"} => c.after.key # course.after.key
       /\ \A d \in todo : d.kind = "insert" /\ d # c => c.after.key # d.after.key

\* The changes that are still to begin: their turns, their addresses and what they read.
Pending ==
  /\ \A c \in todo : c.kind # "insert" => Intact(c) /\ c.before = Unpacked(c.record)
  /\ \A c, d \in todo : c.kind # "insert" /\ d.kind # "insert" /\ c # d => c.at # d.at
  /\ InCourse => \A c \in todo :
       /\ course.kind = "insert" => c.kind = "insert"
       /\ c.kind # "insert" => c.at # course.at
  /\ call \in {"leave", "repack"} \/ (call = "take" /\ course.kind = "delete") =>
       course.before = Unpacked(course.record)
  /\ call = "rewrite" /\ course.before.text = course.after.text => hand.record.ref = course.record.ref

\* The rows whose TEXT is where they say, and the reference that no row has yet, or any more.
Live(a) == a \in DOMAIN rows /\ ~(Rewritten /\ a = course.at)
Loose == IF Placing THEN hand.record.ref ELSE IF call = "release" THEN course.record.ref ELSE 0

TextsCounted ==
  /\ \A ref \in Nat : ref \in DOMAIN texts <=>
       ref # 0 /\ (ref = Loose \/ \E a \in DOMAIN rows : Live(a) /\ rows[a].ref = ref)
  /\ \A a, b \in DOMAIN rows : Live(a) /\ Live(b) /\ a # b /\ rows[a].ref = rows[b].ref => rows[a].ref = 0
  /\ \A a \in DOMAIN rows : Live(a) /\ rows[a].ref = Loose => Loose = 0

RowsReadWell ==
  /\ \A a \in DOMAIN rows : Live(a) => Unpacked(rows[a]) \in Row
  /\ Placing => Unpacked(hand.record) = course.after

Unhurt == EntriesExact /\ KeysApart /\ Pending /\ TextsCounted /\ RowsReadWell

\* What holds between any two calls; the second part, until one raises midway.
TableIInv ==
  /\ TableTypes /\ CallsInTurn /\ UntilHalfway /\ EntriesTrue
  /\ raised # "midway" => Unhurt

-----------------------------------------------------------------------------
\* The call after each call: a loop over no indexes is passed over.
LEMMA StoreGoesOn ==
  ASSUME NEW c, c.kind = "insert"
  PROVE  /\ CallAfter(c, "start") = "pack" /\ CallAfter(c, "pack") = "put"
         /\ CallAfter(c, "put") = IF IndexesOf(c) = {} THEN "log" ELSE "enter"
         /\ CallAfter(c, "enter") = "log"
BY DEF CallAfter, CallsOf, StoreCalls

LEMMA DeleteGoesOn ==
  ASSUME NEW c, c.kind = "delete"
  PROVE  /\ CallAfter(c, "start") = IF IndexesOf(c) = {} THEN "take" ELSE "leave"
         /\ CallAfter(c, "leave") = "take" /\ CallAfter(c, "take") = "release"
         /\ CallAfter(c, "release") = "log"
BY DEF CallAfter, CallsOf, DeleteCalls

LEMMA UpdateGoesOn ==
  ASSUME NEW c, c.kind = "update"
  PROVE  /\ CallAfter(c, "start") = IF IndexesOf(c) = {} THEN "repack" ELSE "leave"
         /\ CallAfter(c, "leave") = "repack"
         /\ CallAfter(c, "repack") = IF organization = "keyed" THEN "take" ELSE "rewrite"
         /\ CallAfter(c, "rewrite") = IF IndexesOf(c) = {} THEN "log" ELSE "enter"
         /\ CallAfter(c, "take") = "put"
         /\ CallAfter(c, "put") = IF IndexesOf(c) = {} THEN "log" ELSE "enter"
         /\ CallAfter(c, "enter") = "log"
BY DEF CallAfter, CallsOf, UpdateCalls, RewriteCall

LEMMA OthersHaveNoIndexes == ASSUME NEW c, organization # "heap" PROVE IndexesOf(c) = {}
BY DEF IndexesOf, Indexes

\* Storing or deleting a row goes to every index.
LEMMA HeapIndexes ==
  ASSUME NEW c, organization = "heap", c.kind # "update" PROVE IndexesOf(c) = Columns
BY DEF IndexesOf, Indexes

LEMMA IndexesAreColumns == ASSUME NEW c PROVE IndexesOf(c) \subseteq Columns
BY DEF IndexesOf, Indexes

\* An update keeps in their places the entries of the columns that it does not change.
LEMMA OtherColumnsStay ==
  ASSUME NEW c, NEW column \in Columns, organization = "heap", c.kind = "update",
         column \notin IndexesOf(c)
  PROVE  c.before[column] = c.after[column]
BY DEF IndexesOf, Indexes, Stale

LEMMA TableStarts == ASSUME RowAssumption, TableInit PROVE TableIInv
<1> USE DEF TableInit, Columns, NoCourse, NoHand, NoRecord
<1>0. DOMAIN rows = {} /\ DOMAIN texts = {} /\ Len(log) = 0 /\ log \in Seq(Change)
  OBVIOUS
<1>9. /\ organization \in {"heap", "bare", "keyed"} /\ undoing = "nothing" /\ mark \in Nat /\ halfway \in BOOLEAN /\ raised = "no"
      /\ todo = {} /\ course = NoCourse /\ course.kind = "none" /\ call = "none" /\ ahead = {}
  OBVIOUS
<1>1. TableTypes
  <2>1. rows \in [DOMAIN rows -> Record] /\ texts \in [DOMAIN texts -> Nat \ {0}]
    BY <1>0
  <2>2. entries \in [Columns -> SUBSET (Int \X Nat)]
    OBVIOUS
  <2>3. hand \in [at : Nat, record : StoredRecord]
    BY DEF StoredRecord
  <2> HIDE DEF TableInit, NoCourse
  <2> QED BY <1>0, <1>9, <2>1, <2>2, <2>3 DEF TableTypes, KeepsKey, CallNames
<1>2. CallsInTurn /\ UntilHalfway /\ EntriesTrue
  BY DEF CallsInTurn, UntilHalfway, EntriesTrue, InCourse, Placing, Rewritten
<1>3. Unhurt
  BY DEF Unhurt, EntriesExact, KeysApart, Pending, TextsCounted, RowsReadWell, InCourse, Placing, Rewritten, Loose, Live
<1> QED BY <1>1, <1>2, <1>3 DEF TableIInv

LEMMA PackKeeps == ASSUME RowAssumption, TableIInv, PackRow PROVE TableIInv'
<1>1. /\ TableTypes /\ CallsInTurn /\ UntilHalfway /\ EntriesTrue
      /\ call = "pack" /\ course \in Course /\ course.kind = "insert" /\ call' = "put"
      /\ UNCHANGED <<rows, entries, log, organization, undoing, mark, raised, todo, course>>
      /\ halfway' = TRUE /\ ahead' = IndexesOf(course)
      /\ course.after \in Row /\ course.after.key \in Nat \ {0}
      /\ course.after.code \in Nat /\ course.after.text \in Nat
  BY StoreGoesOn DEF TableIInv, CallsInTurn, InCourse, PackRow, Called, KeptByCalls, Course, RowAssumption
<1>2. PICK ref \in Nat :
        /\ ref # 0 => ref \notin DOMAIN texts
        /\ ref = 0 <=> course.after.text = 0
        /\ texts' = IF ref = 0 THEN texts ELSE With(texts, ref, course.after.text)
        /\ hand' = [at |-> 0, record |-> [key |-> course.after.key, code |-> course.after.code, ref |-> ref]]
  BY <1>1 DEF PackRow, NewRefs
<1>3. TableTypes'
  BY <1>1, <1>2, IndexesAreColumns DEF TableTypes, With, StoredRecord, CallNames, KeepsKey
<1>4. CallsInTurn' /\ UntilHalfway'
  BY <1>1, <1>2 DEF CallsInTurn, UntilHalfway, InCourse, Placing, Rewritten
<1>5. EntriesTrue'
  BY <1>1 DEF EntriesTrue, Absent
<1>6. ASSUME raised' # "midway" PROVE Unhurt'
  <2>1. EntriesExact /\ KeysApart /\ Pending /\ TextsCounted /\ RowsReadWell
    BY <1>1, <1>6 DEF TableIInv, Unhurt
  <2>2. \A a \in DOMAIN rows : Live(a) /\ Live(a)' /\ (rows[a].ref \in DOMAIN texts \/ rows[a].ref = 0)
    BY <1>1, <2>1 DEF Live, Rewritten, TextsCounted, TableTypes, Record
  <2>3. \A a \in DOMAIN rows : TextAt(rows[a].ref)' = TextAt(rows[a].ref)
    BY <1>1, <1>2, <2>2 DEF TextAt, With
  <2>4. EntriesExact'
    <3>1. \A a \in DOMAIN rows, column \in Columns :
            ValueIn(rows[a], column)' = ValueIn(rows[a], column) /\ ~Absent(a, column) /\ ~Absent(a, column)'
      BY <1>1, <2>3 DEF ValueIn, Absent
    <3>2. SUFFICES ASSUME organization = "heap", NEW column \in Columns, NEW v \in Int, NEW a \in Nat
                   PROVE  <<v, a>> \in entries[column] <=>
                            a \in DOMAIN rows /\ v = ValueIn(rows[a], column)' /\ v # 0 /\ ~Absent(a, column)'
      BY <1>1 DEF EntriesExact
    <3>3. <<v, a>> \in entries[column] <=>
            a \in DOMAIN rows /\ v = ValueIn(rows[a], column) /\ v # 0 /\ ~Absent(a, column)
      BY <1>1, <2>1, <3>2 DEF EntriesExact
    <3> QED BY <3>1, <3>2, <3>3
  <2>5. KeysApart'
    BY <1>1, <2>1 DEF KeysApart, Leaving
  <2>6. Pending'
    BY <1>1, <2>1, <2>3 DEF Pending, Intact, InCourse, Unpacked
  <2>7. TextsCounted'
    BY <1>1, <1>2, <2>1, <2>2 DEF TextsCounted, Loose, Placing, Rewritten, Live, With
  <2>8. RowsReadWell'
    BY <1>1, <1>2, <2>1, <2>2, <2>3 DEF RowsReadWell, Unpacked, Placing, TextAt, With, RowAssumption
  <2> QED BY <2>4, <2>5, <2>6, <2>7, <2>8 DEF Unhurt
<1> QED BY <1>3, <1>4, <1>5, <1>6 DEF TableIInv

LEMMA PutKeeps == ASSUME RowAssumption, TableIInv, PutRow PROVE TableIInv'
<1>1. /\ TableTypes /\ CallsInTurn /\ UntilHalfway /\ EntriesTrue
      /\ call = "put" /\ course \in Course /\ course.kind \in {"insert", "update"}
      /\ course.kind = "update" => organization = "keyed"
      /\ UNCHANGED <<texts, entries, log, organization, undoing, mark, raised, todo, course>>
      /\ halfway' = TRUE /\ ahead' = IndexesOf(course)
      /\ course.after \in Row /\ course.after.key \in Nat \ {0}
      /\ hand.record.key = course.after.key /\ hand.record \in Record
  BY DEF TableIInv, TableTypes, CallsInTurn, InCourse, PutRow, Called, KeptByCalls, Course, RowAssumption,
         Record, StoredRecord, Placing
<1>2. call' = IF IndexesOf(course) = {} THEN "log" ELSE "enter"
  BY <1>1, StoreGoesOn, UpdateGoesOn DEF PutRow, Called
<1>3. PICK at \in Nat \ {0} :
        /\ organization # "keyed" => at \notin DOMAIN rows
        /\ organization = "keyed" => at = hand.record.key
        /\ rows' = With(rows, at, hand.record)
        /\ hand' = [hand EXCEPT !.at = at]
  <2>1. PICK at \in IF organization = "keyed" THEN {hand.record.key} ELSE 1..RowLimit \ DOMAIN rows :
           rows' = With(rows, at, hand.record) /\ hand' = [hand EXCEPT !.at = at]
    BY DEF PutRow
  <2>2. at \in Nat \ {0}
    BY <1>1, <2>1
  <2> QED BY <1>1, <2>1, <2>2 DEF TableTypes
<1>4. /\ DOMAIN rows' = DOMAIN rows \cup {at} /\ rows'[at] = hand.record
      /\ \A a \in DOMAIN rows : a # at => rows'[a] = rows[a]
      /\ hand'.at = at /\ hand'.record = hand.record
  BY <1>1, <1>3 DEF With, TableTypes
<1>5. TableTypes'
  <2>1. rows' \in [DOMAIN rows' -> Record]
    BY <1>1, <1>3 DEF With, TableTypes
  <2> QED BY <1>1, <1>2, <1>3, <1>4, <2>1, IndexesAreColumns DEF TableTypes, CallNames, KeepsKey
<1>6. CallsInTurn' /\ UntilHalfway'
  BY <1>1, <1>2, <1>3, <1>4, IndexesAreColumns DEF CallsInTurn, UntilHalfway, InCourse, Placing, Rewritten, IndexesOf, Indexes
<1>7. EntriesTrue'
  BY <1>1, <1>2, <1>3, <1>4 DEF EntriesTrue, Absent
<1>8. ASSUME raised' # "midway" PROVE Unhurt'
  <2>1. EntriesExact /\ KeysApart /\ Pending /\ TextsCounted /\ RowsReadWell
    BY <1>1, <1>8 DEF TableIInv, Unhurt
  <2>2. at \notin DOMAIN rows
    BY <1>1, <1>3, <2>1 DEF KeysApart, CallsInTurn, TableTypes
  <2>3. EntriesExact'
    <3>1. SUFFICES ASSUME organization = "heap", NEW column \in Columns, NEW v \in Int, NEW a \in Nat
                   PROVE  <<v, a>> \in entries[column] <=>
                            a \in DOMAIN rows' /\ v = ValueIn(rows[a], column)' /\ v # 0 /\ ~Absent(a, column)'
      BY <1>1 DEF EntriesExact
    <3>2. IndexesOf(course) = Columns /\ call' = "enter"
      BY <1>1, <1>2, <3>1, HeapIndexes DEF Columns
    <3>3. ~Absent(a, column) /\ (Absent(a, column)' <=> a = at)
      BY <1>1, <1>4, <3>2 DEF Absent
    <3>4. a \in DOMAIN rows => ValueIn(rows[a], column)' = ValueIn(rows[a], column)
      BY <1>1, <1>4, <2>2 DEF ValueIn, TextAt
    <3> QED BY <1>4, <2>1, <2>2, <3>1, <3>3, <3>4 DEF EntriesExact
  <2>4. KeysApart'
    BY <1>1, <1>2, <1>4, <2>1, <2>2 DEF KeysApart, Leaving
  <2>5. Pending'
    BY <1>1, <1>2, <1>4, <2>1, <2>2 DEF Pending, Intact, InCourse, Unpacked, TextAt
  <2>6. \A a \in DOMAIN rows : Live(a)
    BY <1>1 DEF Live, Rewritten
  <2>7. \A a \in DOMAIN rows' : Live(a)'
    BY <1>2 DEF Live, Rewritten
  <2>8. Loose = hand.record.ref /\ Loose' = 0
    BY <1>1, <1>2 DEF Loose, Placing, Rewritten
  <2>9. TextsCounted'
    BY <1>1, <1>4, <2>1, <2>2, <2>6, <2>7, <2>8 DEF TextsCounted
  <2>10. RowsReadWell'
    BY <1>1, <1>2, <1>4, <2>1, <2>2, <2>6 DEF RowsReadWell, Unpacked, Placing, Rewritten, TextAt
  <2> QED BY <2>3, <2>4, <2>5, <2>9, <2>10 DEF Unhurt
<1> QED BY <1>5, <1>6, <1>7, <1>8 DEF TableIInv

LEMMA EnterKeeps ==
  ASSUME RowAssumption, TableIInv, NEW entered \in Columns, EnterIndex(entered) PROVE TableIInv'
<1> DEFINE value == ValueIn(hand.record, entered)
<1>1. /\ TableTypes /\ CallsInTurn /\ UntilHalfway /\ EntriesTrue
      /\ call = "enter" /\ course \in Course /\ course.kind \in {"insert", "update"}
      /\ UNCHANGED <<rows, texts, log, hand, organization, undoing, mark, raised, todo, course>>
      /\ halfway' = TRUE /\ entered \in ahead /\ ahead' = ahead \ {entered}
      /\ ahead \subseteq IndexesOf(course) /\ organization = "heap"
      /\ hand.at \in DOMAIN rows /\ rows[hand.at] = hand.record /\ hand.record \in Record /\ hand.at \in Nat
      /\ entries' = IF value = 0 THEN entries
                    ELSE [entries EXCEPT ![entered] = @ \cup {<<value, hand.at>>}]
  BY OthersHaveNoIndexes DEF TableIInv, TableTypes, CallsInTurn, InCourse, EnterIndex, CalledFor, KeptByCalls, Course
<1>2. call' = IF ahead = {entered} THEN "log" ELSE "enter"
  BY <1>1, StoreGoesOn, UpdateGoesOn DEF EnterIndex, CalledFor
<1>3. value \in Int
  BY <1>1 DEF ValueIn, TextAt, TableTypes, Record, Columns
<1>4. \A column \in Columns, v \in Int, a \in Nat :
        <<v, a>> \in entries'[column] <=>
          <<v, a>> \in entries[column] \/ (column = entered /\ value # 0 /\ v = value /\ a = hand.at)
  BY <1>1, <1>3 DEF TableTypes
<1>5. TableTypes'
  <2>1. entries' \in [Columns -> SUBSET (Int \X Nat)]
    BY <1>1, <1>3 DEF TableTypes
  <2> QED BY <1>1, <1>2, <2>1 DEF TableTypes, CallNames, KeepsKey
<1>6. CallsInTurn' /\ UntilHalfway'
  BY <1>1, <1>2 DEF CallsInTurn, UntilHalfway, InCourse, Placing, Rewritten, IndexesOf, Indexes
<1>7. \A a \in Nat, column \in Columns :
        /\ Absent(a, column) <=> a = hand.at /\ column \in ahead
        /\ Absent(a, column)' <=> a = hand.at /\ column \in ahead /\ column # entered
  BY <1>1, <1>2 DEF Absent
<1>8. EntriesTrue'
  <2>1. SUFFICES ASSUME NEW column \in Columns, NEW v \in Int, NEW a \in Nat, <<v, a>> \in entries'[column],
                        column # "text"
                 PROVE  a \in DOMAIN rows /\ v = rows[a][column] /\ ~Absent(a, column)'
    BY <1>1 DEF EntriesTrue
  <2>2. CASE <<v, a>> \in entries[column]
    BY <1>1, <1>7, <2>1, <2>2 DEF EntriesTrue
  <2>3. CASE column = entered /\ v = value /\ a = hand.at
    BY <1>1, <1>7, <2>1, <2>3 DEF ValueIn
  <2> QED BY <1>4, <2>1, <2>2, <2>3
<1>9. ASSUME raised' # "midway" PROVE Unhurt'
  <2>1. EntriesExact /\ KeysApart /\ Pending /\ TextsCounted /\ RowsReadWell
    BY <1>1, <1>9 DEF TableIInv, Unhurt
  <2>2. EntriesExact'
    <3>1. SUFFICES ASSUME NEW column \in Columns, NEW v \in Int, NEW a \in Nat
                   PROVE  <<v, a>> \in entries'[column] <=>
                            a \in DOMAIN rows /\ v = ValueIn(rows[a], column)' /\ v # 0 /\ ~Absent(a, column)'
      BY <1>1 DEF EntriesExact
    <3> HIDE DEF value
    <3>3. ValueIn(rows[a], column)' = ValueIn(rows[a], column)
      BY <1>1 DEF ValueIn, TextAt
    <3>2. value = ValueIn(rows[hand.at], entered)
      BY <1>1 DEF value
    <3>4. <<v, a>> \in entries[column] <=>
            a \in DOMAIN rows /\ v = ValueIn(rows[a], column) /\ v # 0 /\ ~Absent(a, column)
      BY <1>1, <2>1, <3>1 DEF EntriesExact
    <3>5. CASE column = entered /\ a = hand.at
      <4>1. Absent(a, column) /\ ~Absent(a, column)' /\ a \in DOMAIN rows /\ value = ValueIn(rows[a], column)
        BY <1>1, <1>7, <3>1, <3>2, <3>5
      <4>2. <<v, a>> \in entries'[column] <=> value # 0 /\ v = value
        BY <1>4, <3>1, <3>4, <3>5, <4>1
      <4> QED BY <3>3, <4>1, <4>2
    <3>6. CASE ~(column = entered /\ a = hand.at)
      <4>1. Absent(a, column)' <=> Absent(a, column)
        BY <1>7, <3>1, <3>6
      <4>2. <<v, a>> \in entries'[column] <=> <<v, a>> \in entries[column]
        BY <1>4, <3>1, <3>6
      <4> QED BY <3>3, <3>4, <4>1, <4>2
    <3> QED BY <3>5, <3>6
  <2>3. KeysApart'
    BY <1>1, <1>2, <2>1 DEF KeysApart, Leaving
  <2>4. Pending'
    BY <1>1, <1>2, <2>1 DEF Pending, Intact, InCourse, Unpacked, TextAt
  <2>5. TextsCounted'
    BY <1>1, <1>2, <2>1 DEF TextsCounted, Live, Loose, Placing, Rewritten
  <2>6. RowsReadWell'
    BY <1>1, <1>2, <2>1 DEF RowsReadWell, Live, Unpacked, Placing, Rewritten, TextAt
  <2> QED BY <2>2, <2>3, <2>4, <2>5, <2>6 DEF Unhurt
<1> QED BY <1>5, <1>6, <1>8, <1>9 DEF TableIInv

LEMMA LeaveKeeps ==
  ASSUME RowAssumption, TableIInv, NEW leaving \in Columns, LeaveIndex(leaving) PROVE TableIInv'
<1> DEFINE value == ValueIn(course.record, leaving)
<1>1. /\ TableTypes /\ CallsInTurn /\ UntilHalfway /\ EntriesTrue
      /\ call = "leave" /\ course \in Course /\ course.kind \in {"delete", "update"} /\ Intact(course)
      /\ UNCHANGED <<rows, texts, log, hand, organization, undoing, mark, raised, todo, course>>
      /\ halfway' = TRUE /\ leaving \in ahead /\ ahead' = ahead \ {leaving}
      /\ ahead \subseteq IndexesOf(course) /\ organization = "heap" /\ IndexesOf(course)' = IndexesOf(course)
      /\ entries' = [entries EXCEPT ![leaving] = @ \ {<<value, course.at>>}]
  BY OthersHaveNoIndexes DEF TableIInv, TableTypes, CallsInTurn, InCourse, LeaveIndex, CalledFor, KeptByCalls, Course,
       IndexesOf, Indexes
<1>2. call' = IF ahead # {leaving} THEN "leave" ELSE IF course.kind = "delete" THEN "take" ELSE "repack"
  BY <1>1, DeleteGoesOn, UpdateGoesOn DEF LeaveIndex, CalledFor
<1>4. \A column \in Columns, v \in Int, a \in Nat :
        <<v, a>> \in entries'[column] <=>
          <<v, a>> \in entries[column] /\ ~(column = leaving /\ v = value /\ a = course.at)
  BY <1>1 DEF TableTypes
<1>5. TableTypes'
  <2>1. entries' \in [Columns -> SUBSET (Int \X Nat)]
    BY <1>1 DEF TableTypes
  <2> QED BY <1>1, <1>2, <2>1 DEF TableTypes, CallNames, KeepsKey
<1>6. CallsInTurn' /\ UntilHalfway'
  BY <1>1, <1>2 DEF CallsInTurn, UntilHalfway, InCourse, Placing, Rewritten, Intact
<1>7. \A a \in Nat, column \in Columns :
        /\ Absent(a, column) <=> a = course.at /\ column \in IndexesOf(course) \ ahead
        /\ Absent(a, column)' <=> a = course.at /\ column \in IndexesOf(course) \ (ahead \ {leaving})
  BY <1>1, <1>2 DEF Absent
<1>8. EntriesTrue'
  <2>1. SUFFICES ASSUME NEW column \in Columns, NEW v \in Int, NEW a \in Nat, <<v, a>> \in entries'[column],
                        column # "text"
                 PROVE  a \in DOMAIN rows /\ v = rows[a][column] /\ ~Absent(a, column)'
    BY <1>1 DEF EntriesTrue
  <2>2. a \in DOMAIN rows /\ v = rows[a][column] /\ ~Absent(a, column)
    BY <1>1, <1>4, <2>1 DEF EntriesTrue
  <2>3. column = leaving => a # course.at
    BY <1>1, <1>4, <2>1, <2>2 DEF ValueIn, Intact
  <2> QED BY <1>7, <2>1, <2>2, <2>3
<1>9. ASSUME raised' # "midway" PROVE Unhurt'
  <2>1. EntriesExact /\ KeysApart /\ Pending /\ TextsCounted /\ RowsReadWell
    BY <1>1, <1>9 DEF TableIInv, Unhurt
  <2>2. EntriesExact'
    <3>1. SUFFICES ASSUME NEW column \in Columns, NEW v \in Int, NEW a \in Nat
                   PROVE  <<v, a>> \in entries'[column] <=>
                            a \in DOMAIN rows /\ v = ValueIn(rows[a], column)' /\ v # 0 /\ ~Absent(a, column)'
      BY <1>1 DEF EntriesExact
    <3>2. ValueIn(rows[a], column)' = ValueIn(rows[a], column)
      BY <1>1 DEF ValueIn, TextAt
    <3> HIDE DEF value
    <3>3. value = ValueIn(rows[course.at], leaving)
      BY <1>1 DEF value, Intact
    <3> QED BY <1>1, <1>4, <1>7, <2>1, <3>1, <3>2, <3>3 DEF EntriesExact
  <2>3. KeysApart'
    BY <1>1, <1>2, <2>1 DEF KeysApart, Leaving
  <2>4. Pending'
    BY <1>1, <1>2, <2>1 DEF Pending, Intact, InCourse, Unpacked, TextAt
  <2>5. TextsCounted'
    BY <1>1, <1>2, <2>1 DEF TextsCounted, Live, Loose, Placing, Rewritten
  <2>6. RowsReadWell'
    BY <1>1, <1>2, <2>1 DEF RowsReadWell, Live, Unpacked, Placing, Rewritten, TextAt
  <2> QED BY <2>2, <2>3, <2>4, <2>5, <2>6 DEF Unhurt
<1> QED BY <1>5, <1>6, <1>8, <1>9 DEF TableIInv

LEMMA TakeKeeps == ASSUME RowAssumption, TableIInv, TakeRow PROVE TableIInv'
<1>1. /\ TableTypes /\ CallsInTurn /\ UntilHalfway /\ EntriesTrue
      /\ call = "take" /\ course \in Course /\ course.kind \in {"delete", "update"} /\ Intact(course)
      /\ course.kind = "update" => organization = "keyed" /\ KeepsKey(course)
      /\ UNCHANGED <<texts, entries, log, hand, organization, undoing, mark, raised, todo, course>>
      /\ halfway' = TRUE /\ ahead' = IndexesOf(course) /\ rows' = Without(rows, course.at)
  BY DEF TableIInv, TableTypes, CallsInTurn, InCourse, TakeRow, Called, KeptByCalls, Course
<1>2. call' = IF course.kind = "delete" THEN "release" ELSE "put"
  BY <1>1, DeleteGoesOn, UpdateGoesOn DEF TakeRow, Called
<1>3. DOMAIN rows' = DOMAIN rows \ {course.at} /\ \A a \in DOMAIN rows' : rows'[a] = rows[a]
  BY <1>1 DEF Without
<1>5. TableTypes'
  <2>1. rows' \in [DOMAIN rows' -> Record]
    BY <1>1 DEF Without, TableTypes
  <2> QED BY <1>1, <1>2, <1>3, <2>1, IndexesAreColumns DEF TableTypes, CallNames, KeepsKey
<1>6. CallsInTurn' /\ UntilHalfway'
  BY <1>1, <1>2, <1>3 DEF CallsInTurn, UntilHalfway, InCourse, Placing, Rewritten
<1>7. organization = "heap" => \A column \in Columns : Absent(course.at, column)
  BY <1>1, HeapIndexes DEF Absent
<1>8. \A a \in Nat, column \in Columns : ~Absent(a, column)' /\ (Absent(a, column) => a = course.at)
  BY <1>1, <1>2 DEF Absent
<1>9. EntriesTrue'
  BY <1>1, <1>3, <1>7, <1>8 DEF EntriesTrue
<1>10. ASSUME raised' # "midway" PROVE Unhurt'
  <2>1. EntriesExact /\ KeysApart /\ Pending /\ TextsCounted /\ RowsReadWell
    BY <1>1, <1>10 DEF TableIInv, Unhurt
  <2>2. EntriesExact'
    <3>1. SUFFICES ASSUME organization = "heap", NEW column \in Columns, NEW v \in Int, NEW a \in Nat
                   PROVE  <<v, a>> \in entries[column] <=>
                            a \in DOMAIN rows' /\ v = ValueIn(rows[a], column)' /\ v # 0 /\ ~Absent(a, column)'
      BY <1>1 DEF EntriesExact
    <3>2. a \in DOMAIN rows' => ValueIn(rows[a], column)' = ValueIn(rows[a], column)
      BY <1>1, <1>3 DEF ValueIn, TextAt
    <3> QED BY <1>3, <1>7, <1>8, <2>1, <3>1, <3>2 DEF EntriesExact
  <2>3. KeysApart'
    BY <1>1, <1>2, <1>3, <2>1 DEF KeysApart, Leaving, Pending, InCourse, Intact, KeepsKey
  <2>4. Pending'
    BY <1>1, <1>2, <1>3, <2>1 DEF Pending, Intact, InCourse, Unpacked, TextAt
  <2>5. TextsCounted'
    <3>1. \A a \in DOMAIN rows' : Live(a)' /\ Live(a)
      BY <1>1, <1>2, <1>3 DEF Live, Rewritten
    <3>2. CASE course.kind = "delete"
      <4>1. Loose = 0 /\ Loose' = rows[course.at].ref /\ \A a \in DOMAIN rows : Live(a)
        BY <1>1, <1>2, <3>2 DEF Live, Loose, Placing, Rewritten, Intact
      <4>2. \A ref : (\E a \in DOMAIN rows : Live(a) /\ rows[a].ref = ref) <=>
                     (ref = Loose' \/ \E a \in DOMAIN rows' : Live(a)' /\ rows'[a].ref = ref)
        BY <1>1, <1>3, <3>1, <4>1 DEF Intact
      <4>3. \A ref \in Nat : ref \in DOMAIN texts <=>
              ref # 0 /\ (ref = Loose' \/ \E a \in DOMAIN rows' : Live(a)' /\ rows'[a].ref = ref)
        BY <2>1, <4>1, <4>2 DEF TextsCounted
      <4>4. \A a, b \in DOMAIN rows' : a # b /\ rows'[a].ref = rows'[b].ref => rows'[a].ref = 0
        BY <1>3, <2>1, <4>1 DEF TextsCounted
      <4>5. \A a \in DOMAIN rows' : rows'[a].ref = Loose' => Loose' = 0
        BY <1>1, <1>3, <2>1, <4>1 DEF TextsCounted, Intact
      <4> QED BY <1>1, <4>3, <4>4, <4>5 DEF TextsCounted
    <3>3. CASE course.kind = "update"
      <4>1. Loose' = Loose /\ ~Live(course.at)
        BY <1>1, <1>2, <3>3 DEF Live, Loose, Placing, Rewritten
      <4>2. DOMAIN rows' = DOMAIN rows \ {course.at} /\ (\A a \in DOMAIN rows' : rows'[a] = rows[a]) /\ texts' = texts
        BY <1>1, <1>3
      <4>3. \A ref : (\E a \in DOMAIN rows : Live(a) /\ rows[a].ref = ref) <=>
                     (\E a \in DOMAIN rows' : Live(a)' /\ rows'[a].ref = ref)
        BY <3>1, <4>1, <4>2
      <4> QED BY <2>1, <3>1, <4>1, <4>2, <4>3 DEF TextsCounted
    <3> QED BY <1>1, <3>2, <3>3
  <2>6. RowsReadWell'
    BY <1>1, <1>2, <1>3, <2>1 DEF RowsReadWell, Live, Unpacked, Placing, Rewritten, TextAt
  <2> QED BY <2>2, <2>3, <2>4, <2>5, <2>6 DEF Unhurt
<1> QED BY <1>5, <1>6, <1>9, <1>10 DEF TableIInv

LEMMA ReleaseKeeps == ASSUME RowAssumption, TableIInv, ReleaseTexts PROVE TableIInv'
<1>1. /\ TableTypes /\ CallsInTurn /\ UntilHalfway /\ EntriesTrue
      /\ call = "release" /\ call' = "log" /\ course \in Course /\ course.kind = "delete"
      /\ UNCHANGED <<rows, entries, log, hand, organization, undoing, mark, raised, todo, course>>
      /\ halfway' = TRUE /\ ahead' = IndexesOf(course) /\ texts' = Without(texts, course.record.ref)
  BY DeleteGoesOn DEF TableIInv, TableTypes, CallsInTurn, InCourse, ReleaseTexts, Called, KeptByCalls, Course
<1>2. /\ DOMAIN texts' = DOMAIN texts \ {course.record.ref}
      /\ \A ref \in DOMAIN texts' : texts'[ref] = texts[ref]
  BY <1>1 DEF Without
<1>5. TableTypes'
  <2>1. texts' \in [DOMAIN texts' -> Nat \ {0}]
    BY <1>1 DEF Without, TableTypes
  <2> QED BY <1>1, <1>2, <2>1, IndexesAreColumns DEF TableTypes, CallNames, KeepsKey
<1>6. CallsInTurn' /\ UntilHalfway'
  BY <1>1 DEF CallsInTurn, UntilHalfway, InCourse, Placing, Rewritten
<1>8. \A a \in Nat, column \in Columns : ~Absent(a, column)' /\ ~Absent(a, column)
  BY <1>1 DEF Absent
<1>9. EntriesTrue'
  BY <1>1, <1>8 DEF EntriesTrue
<1>10. ASSUME raised' # "midway" PROVE Unhurt'
  <2>1. EntriesExact /\ KeysApart /\ Pending /\ TextsCounted /\ RowsReadWell
    BY <1>1, <1>10 DEF TableIInv, Unhurt
  <2>2. \A a \in DOMAIN rows : Live(a) /\ Live(a)'
    BY <1>1 DEF Live, Rewritten
  <2>3. Loose = course.record.ref /\ Loose' = 0
    BY <1>1 DEF Loose, Placing, Rewritten
  <2>4. \A a \in DOMAIN rows : TextAt(rows[a].ref)' = TextAt(rows[a].ref)
    BY <1>1, <1>2, <2>1, <2>2, <2>3 DEF TextAt, TextsCounted
  <2>5. EntriesExact'
    <3>1. SUFFICES ASSUME organization = "heap", NEW column \in Columns, NEW v \in Int, NEW a \in Nat
                   PROVE  <<v, a>> \in entries[column] <=>
                            a \in DOMAIN rows /\ v = ValueIn(rows[a], column)' /\ v # 0 /\ ~Absent(a, column)'
      BY <1>1 DEF EntriesExact
    <3>2. a \in DOMAIN rows => ValueIn(rows[a], column)' = ValueIn(rows[a], column)
      BY <1>1, <2>4 DEF ValueIn
    <3>3. <<v, a>> \in entries[column] <=>
            a \in DOMAIN rows /\ v = ValueIn(rows[a], column) /\ v # 0 /\ ~Absent(a, column)
      BY <1>1, <2>1, <3>1 DEF EntriesExact
    <3> QED BY <1>8, <3>1, <3>2, <3>3
  <2>6. KeysApart'
    BY <1>1, <2>1 DEF KeysApart, Leaving
  <2>7. Pending'
    <3>1. \A c \in todo : c.kind # "insert" => Intact(c)' /\ c.before = Unpacked(c.record)'
      <4>1. TAKE c \in todo
      <4>2. c.kind # "insert" => Intact(c) /\ c.before = Unpacked(c.record)
        BY <2>1 DEF Pending
      <4>3. Intact(c) => Intact(c)' /\ Unpacked(c.record)' = Unpacked(c.record)
        BY <1>1, <2>4 DEF Intact, Unpacked
      <4> QED BY <4>2, <4>3
    <3> QED BY <1>1, <2>1, <3>1 DEF Pending, InCourse
  <2>8. TextsCounted'
    BY <1>1, <1>2, <2>1, <2>2, <2>3 DEF TextsCounted, TableTypes, Record
  <2>9. RowsReadWell'
    BY <1>1, <2>1, <2>2, <2>4 DEF RowsReadWell, Unpacked, Placing, Rewritten
  <2> QED BY <2>5, <2>6, <2>7, <2>8, <2>9 DEF Unhurt
<1> QED BY <1>5, <1>6, <1>9, <1>10 DEF TableIInv

LEMMA RepackKeeps == ASSUME RowAssumption, TableIInv, RepackRow PROVE TableIInv'
<1> DEFINE ref == course.record.ref
           after == course.after
<1>1. /\ TableTypes /\ CallsInTurn /\ UntilHalfway /\ EntriesTrue
      /\ call = "repack" /\ course \in Course /\ course.kind = "update" /\ Intact(course)
      /\ UNCHANGED <<rows, entries, log, organization, undoing, mark, raised, todo, course>>
      /\ halfway' = TRUE /\ ahead' = IndexesOf(course) /\ IndexesOf(course)' = IndexesOf(course)
      /\ after \in Row /\ after.key \in Nat /\ after.code \in Nat /\ after.text \in Nat
      /\ after = [key |-> after.key, code |-> after.code, text |-> after.text]
  BY DEF TableIInv, TableTypes, CallsInTurn, InCourse, RepackRow, Called, KeptByCalls, Course, RowAssumption,
         IndexesOf, Indexes
<1>2. call' = IF organization = "keyed" THEN "take" ELSE "rewrite"
  BY <1>1, UpdateGoesOn DEF RepackRow, Called
<1>3. ref \in Nat /\ rows[course.at].ref = ref /\ course.at \in DOMAIN rows /\ course.at \in Nat
  BY <1>1 DEF Course, StoredRecord, Intact
<1>4. PICK place \in Nat :
        /\ ref # 0 /\ TextAt(ref) = after.text => place = ref
        /\ ref = 0 \/ TextAt(ref) # after.text =>
             /\ after.text = 0 <=> place = 0
             /\ place # 0 => place = ref \/ place \notin DOMAIN texts
        /\ texts' = IF place = 0 THEN Without(texts, ref) ELSE With(Without(texts, ref), place, after.text)
        /\ hand' = [at |-> 0, record |-> [key |-> after.key, code |-> after.code, ref |-> place]]
  BY <1>1, <1>3 DEF RepackRow, NewRefs
<1>5. place # 0 => after.text # 0
  BY <1>1, <1>4 DEF TextAt, TableTypes
<1>6. /\ DOMAIN texts' = (DOMAIN texts \ {ref}) \cup ({place} \ {0})
      /\ place # 0 => texts'[place] = after.text
      /\ \A r \in DOMAIN texts \ {ref, place} : texts'[r] = texts[r]
  BY <1>4 DEF With, Without
<1>7. TableTypes'
  <2>1. texts' \in [DOMAIN texts' -> Nat \ {0}]
    <3>1. \A r \in DOMAIN texts' : texts'[r] \in Nat \ {0}
      BY <1>1, <1>5, <1>6 DEF TableTypes
    <3>2. texts' = [r \in DOMAIN texts' |-> texts'[r]]
      BY <1>4 DEF With, Without
    <3> QED BY <3>1, <3>2
  <2>2. hand' \in [at : Nat, record : StoredRecord]
    BY <1>1, <1>4 DEF StoredRecord
  <2> QED BY <1>1, <1>2, <1>4, <1>6, <2>1, <2>2, IndexesAreColumns DEF TableTypes, CallNames, KeepsKey
<1>8. CallsInTurn' /\ UntilHalfway'
  <2>1. Intact(course)' /\ hand'.record.key = course.after.key /\ hand'.record.code = course.after.code
    BY <1>1, <1>4 DEF Intact
  <2> HIDE DEF ref, after
  <2>2. (call' = "rewrite" /\ organization # "keyed") \/ (call' = "take" /\ organization = "keyed")
    BY <1>1, <1>2 DEF TableTypes
  <2>3. CallsInTurn'
    BY <1>1, <2>1, <2>2 DEF CallsInTurn, InCourse, Placing, Rewritten
  <2>4. UntilHalfway'
    BY <1>1 DEF UntilHalfway
  <2> QED BY <2>3, <2>4
<1>9. \A a \in Nat, column \in Columns :
        /\ Absent(a, column) <=> a = course.at /\ column \in IndexesOf(course)
        /\ Absent(a, column)' <=> a = course.at /\ column \in IndexesOf(course)
  BY <1>1, <1>2 DEF Absent
<1>10. EntriesTrue'
  BY <1>1, <1>9 DEF EntriesTrue
<1>11. ASSUME raised' # "midway" PROVE Unhurt'
  <2>1. EntriesExact /\ KeysApart /\ Pending /\ TextsCounted /\ RowsReadWell
    BY <1>1, <1>11 DEF TableIInv, Unhurt
  <2>2. /\ \A a \in DOMAIN rows : Live(a) /\ (Live(a)' <=> a # course.at)
        /\ Loose = 0 /\ Loose' = place
    BY <1>1, <1>2, <1>4 DEF Live, Loose, Placing, Rewritten
  <2>3. \A a \in DOMAIN rows \ {course.at} : rows[a].ref # 0 =>
          rows[a].ref \in DOMAIN texts /\ rows[a].ref # ref /\ rows[a].ref # place
    <3>1. TAKE a \in DOMAIN rows \ {course.at}
    <3>2. HAVE rows[a].ref # 0
    <3>3. rows[a].ref \in Nat
      BY <1>1 DEF TableTypes, Record
    <3>4. rows[a].ref \in DOMAIN texts
      BY <2>1, <2>2, <3>2, <3>3 DEF TextsCounted
    <3>5. rows[a].ref # ref
      BY <1>3, <2>1, <2>2, <3>2 DEF TextsCounted
    <3> QED BY <1>4, <3>2, <3>4, <3>5
  <2>4. \A a \in DOMAIN rows \ {course.at} : TextAt(rows[a].ref)' = TextAt(rows[a].ref)
    BY <1>6, <2>3, <1>1 DEF TextAt
  <2>5. course.before.text = after.text => place = ref /\ TextAt(ref)' = TextAt(ref)
    <3>1. course.before.text = TextAt(ref)
      BY <1>1, <2>1 DEF Pending, Unpacked
    <3>2. SUFFICES ASSUME after.text = TextAt(ref) PROVE place = ref /\ TextAt(ref)' = TextAt(ref)
      BY <3>1
    <3>3. CASE ref # 0
      BY <1>1, <1>4, <1>6, <3>2, <3>3 DEF TextAt
    <3>4. CASE ref = 0
      <4>1. TextAt(ref) = 0 /\ TextAt(ref)' = 0
        BY <1>1, <3>4 DEF TextAt
      <4> QED BY <1>4, <3>2, <3>4, <4>1
    <3> QED BY <3>3, <3>4
  <2>6. EntriesExact'
    <3>1. SUFFICES ASSUME organization = "heap", NEW column \in Columns, NEW v \in Int, NEW a \in Nat
                   PROVE  <<v, a>> \in entries[column] <=>
                            a \in DOMAIN rows /\ v = ValueIn(rows[a], column)' /\ v # 0 /\ ~Absent(a, column)'
      BY <1>1 DEF EntriesExact
    <3>2. a \in DOMAIN rows /\ a # course.at => ValueIn(rows[a], column)' = ValueIn(rows[a], column)
      BY <1>1, <2>4 DEF ValueIn
    <3>3. column \notin IndexesOf(course) => ValueIn(rows[course.at], column)' = ValueIn(rows[course.at], column)
      <4>1. CASE column = "text"
        <5>1. column \notin IndexesOf(course) => course.before.text = after.text
          BY <1>1, <3>1, <4>1, OtherColumnsStay
        <5> QED BY <1>1, <1>3, <2>5, <4>1, <5>1 DEF ValueIn
      <4>2. CASE column # "text"
        BY <1>1, <4>2 DEF ValueIn
      <4> QED BY <4>1, <4>2
    <3> QED BY <1>1, <1>9, <2>1, <3>1, <3>2, <3>3 DEF EntriesExact
  <2>7. KeysApart'
    BY <1>1, <1>2, <2>1 DEF KeysApart, Leaving
  <2>8. Pending'
    <3>1. \A c \in todo : c.kind # "insert" => Intact(c)' /\ c.before = Unpacked(c.record)'
      <4>1. SUFFICES ASSUME NEW c \in todo, c.kind # "insert"
                     PROVE  Intact(c)' /\ c.before = Unpacked(c.record)'
        OBVIOUS
      <4>2. Intact(c) /\ c.before = Unpacked(c.record) /\ c.at # course.at
        BY <1>1, <2>1, <4>1 DEF Pending, InCourse
      <4>3. c.record = rows[c.at] /\ c.at \in DOMAIN rows \ {course.at}
        BY <4>2 DEF Intact
      <4>4. TextAt(c.record.ref)' = TextAt(c.record.ref)
        BY <1>1, <2>4, <4>3
      <4> QED BY <1>1, <4>2, <4>4 DEF Intact, Unpacked
    <3>2. call' = "rewrite" /\ course.before.text = course.after.text => hand'.record.ref = course.record.ref
      BY <1>4, <2>5
    <3> HIDE DEF ref, after
    <3> QED BY <1>1, <1>2, <2>1, <3>1, <3>2 DEF Pending, InCourse
  <2>9. TextsCounted'
    BY <1>1, <1>3, <1>6, <2>1, <2>2, <2>3 DEF TextsCounted
  <2>10. RowsReadWell'
    <3>1. TextAt(place)' = after.text
      BY <1>1, <1>4, <1>6 DEF TextAt
    <3>2. Unpacked(hand.record)' = after
      BY <1>1, <1>4, <3>1 DEF Unpacked
    <3> QED BY <1>1, <2>1, <2>2, <2>4, <3>2 DEF RowsReadWell, Unpacked
  <2> QED BY <2>6, <2>7, <2>8, <2>9, <2>10 DEF Unhurt
<1> QED BY <1>7, <1>8, <1>10, <1>11 DEF TableIInv

LEMMA RewriteKeeps == ASSUME RowAssumption, TableIInv, RewriteRow PROVE TableIInv'
<1>1. /\ TableTypes /\ CallsInTurn /\ UntilHalfway /\ EntriesTrue
      /\ call = "rewrite" /\ course \in Course /\ course.kind = "update" /\ Intact(course) /\ KeepsKey(course)
      /\ organization # "keyed" /\ course.at \in Nat
      /\ UNCHANGED <<texts, entries, log, organization, undoing, mark, raised, todo, course>>
      /\ halfway' = TRUE /\ ahead' = IndexesOf(course) /\ IndexesOf(course)' = IndexesOf(course)
      /\ course.after \in Row /\ course.after.key \in Nat \ {0}
      /\ hand.record.key = course.after.key /\ hand.record.code = course.after.code /\ hand.record \in Record
  BY DEF TableIInv, TableTypes, CallsInTurn, InCourse, RewriteRow, Called, KeptByCalls, Course, RowAssumption,
         IndexesOf, Indexes, Placing, Rewritten, StoredRecord, Record
<1>2. call' = IF IndexesOf(course) = {} THEN "log" ELSE "enter"
  BY <1>1, UpdateGoesOn DEF RewriteRow, Called
<1>3. /\ course.at \in DOMAIN rows /\ DOMAIN rows' = DOMAIN rows /\ rows'[course.at] = hand.record
      /\ \A a \in DOMAIN rows : a # course.at => rows'[a] = rows[a]
      /\ hand'.at = course.at /\ hand'.record = hand.record
  BY <1>1 DEF RewriteRow, TableTypes, Intact
<1>4. rows[course.at].key = course.after.key
  BY <1>1 DEF KeepsKey, Intact
<1>5. TableTypes'
  <2>1. rows' \in [DOMAIN rows' -> Record]
    BY <1>1, <1>3 DEF RewriteRow, TableTypes
  <2>2. hand' \in [at : Nat, record : StoredRecord]
    BY <1>1 DEF RewriteRow, TableTypes
  <2> QED BY <1>1, <1>2, <1>3, <2>1, <2>2, IndexesAreColumns DEF TableTypes, CallNames, KeepsKey
<1>6. CallsInTurn' /\ UntilHalfway'
  BY <1>1, <1>2, <1>3 DEF CallsInTurn, UntilHalfway, InCourse, Placing, Rewritten
<1>7. \A a \in Nat, column \in Columns :
        /\ Absent(a, column) <=> a = course.at /\ column \in IndexesOf(course)
        /\ Absent(a, column)' <=> a = course.at /\ column \in IndexesOf(course)
  BY <1>1, <1>2, <1>3 DEF Absent
<1>8. organization = "heap" => \A column \in Columns \ IndexesOf(course) :
        column # "text" => rows[course.at][column] = hand.record[column]
  BY <1>1, OtherColumnsStay DEF Columns, Intact
<1>9. EntriesTrue'
  <2>1. SUFFICES ASSUME NEW column \in Columns, NEW v \in Int, NEW a \in Nat, <<v, a>> \in entries[column],
                        column # "text"
                 PROVE  a \in DOMAIN rows' /\ v = rows'[a][column] /\ ~Absent(a, column)'
    BY <1>1 DEF EntriesTrue
  <2>2. organization = "heap" /\ a \in DOMAIN rows /\ v = rows[a][column] /\ ~Absent(a, column)
    BY <1>1, <2>1 DEF EntriesTrue
  <2> QED BY <1>3, <1>7, <1>8, <2>1, <2>2
<1>10. ASSUME raised' # "midway" PROVE Unhurt'
  <2>1. EntriesExact /\ KeysApart /\ Pending /\ TextsCounted /\ RowsReadWell
    BY <1>1, <1>10 DEF TableIInv, Unhurt
  <2>2. /\ \A a \in DOMAIN rows : Live(a)' /\ (Live(a) <=> a # course.at)
        /\ Loose = hand.record.ref /\ Loose' = 0
    BY <1>1, <1>2, <1>3 DEF Live, Loose, Placing, Rewritten
  <2>3. EntriesExact'
    <3>1. SUFFICES ASSUME organization = "heap", NEW column \in Columns, NEW v \in Int, NEW a \in Nat
                   PROVE  <<v, a>> \in entries[column] <=>
                            a \in DOMAIN rows' /\ v = ValueIn(rows[a], column)' /\ v # 0 /\ ~Absent(a, column)'
      BY <1>1 DEF EntriesExact
    <3>2. a \in DOMAIN rows /\ a # course.at => ValueIn(rows[a], column)' = ValueIn(rows[a], column)
      BY <1>1, <1>3 DEF ValueIn, TextAt
    <3>3. column \notin IndexesOf(course) => ValueIn(rows[course.at], column)' = ValueIn(rows[course.at], column)
      <4>1. CASE column = "text"
        <5>1. column \notin IndexesOf(course) => hand.record.ref = course.record.ref
          BY <1>1, <2>1, <3>1, <4>1, OtherColumnsStay DEF Pending
        <5> QED BY <1>1, <1>3, <4>1, <5>1 DEF ValueIn, TextAt, Intact
      <4>2. CASE column # "text"
        BY <1>1, <1>3, <1>8, <3>1, <4>2 DEF ValueIn
      <4> QED BY <4>1, <4>2
    <3>4. <<v, a>> \in entries[column] <=>
            a \in DOMAIN rows /\ v = ValueIn(rows[a], column) /\ v # 0 /\ ~Absent(a, column)
      BY <1>1, <2>1, <3>1 DEF EntriesExact
    <3>5. Absent(a, column) <=> Absent(a, column)'
      BY <1>7, <3>1
    <3>6. CASE a = course.at
      <4>1. CASE column \in IndexesOf(course)
        BY <1>7, <3>1, <3>4, <3>5, <3>6, <4>1
      <4>2. CASE column \notin IndexesOf(course)
        BY <1>1, <1>3, <3>3, <3>4, <3>5, <3>6, <4>2
      <4> QED BY <4>1, <4>2
    <3>7. CASE a # course.at
      BY <1>3, <3>2, <3>4, <3>5, <3>7
    <3> QED BY <3>6, <3>7
  <2>4. KeysApart'
    <3>1. \A a \in DOMAIN rows : rows'[a].key = rows[a].key /\ (Leaving(a) => Leaving(a)')
      BY <1>1, <1>2, <1>3, <1>4 DEF Leaving
    <3> QED BY <1>1, <1>2, <1>3, <2>1, <3>1 DEF KeysApart
  <2>5. Pending'
    <3>1. \A c \in todo : c.kind # "insert" => Intact(c)' /\ c.before = Unpacked(c.record)'
      <4>1. TAKE c \in todo
      <4>2. c.kind # "insert" => Intact(c) /\ c.before = Unpacked(c.record) /\ c.at # course.at
        BY <1>1, <2>1 DEF Pending, InCourse
      <4>3. Unpacked(c.record)' = Unpacked(c.record)
        BY <1>1 DEF Unpacked, TextAt
      <4>4. c.at # course.at /\ Intact(c) => Intact(c)'
        BY <1>1, <1>3 DEF Intact
      <4> QED BY <4>2, <4>3, <4>4
    <3> QED BY <1>1, <1>2, <2>1, <3>1 DEF Pending, InCourse
  <2>6. TextsCounted'
    <3>1. \A ref : (ref = Loose \/ \E a \in DOMAIN rows : Live(a) /\ rows[a].ref = ref) <=>
                   \E a \in DOMAIN rows' : Live(a)' /\ rows'[a].ref = ref
      BY <1>3, <2>2
    <3>2. \A ref \in Nat : ref \in DOMAIN texts <=>
            ref # 0 /\ \E a \in DOMAIN rows' : Live(a)' /\ rows'[a].ref = ref
      BY <2>1, <3>1 DEF TextsCounted
    <3>3. 0 \notin DOMAIN texts /\ texts' = texts
      BY <1>1 DEF TableTypes
    <3>4. \A a, b \in DOMAIN rows' : a # b /\ rows'[a].ref = rows'[b].ref => rows'[a].ref = 0
      BY <1>3, <2>1, <2>2 DEF TextsCounted
    <3> QED BY <2>2, <3>2, <3>3, <3>4 DEF TextsCounted
  <2>7. RowsReadWell'
    <3>1. \A record : Unpacked(record)' = Unpacked(record)
      BY <1>1 DEF Unpacked, TextAt
    <3>2. Unpacked(hand.record) = course.after /\ course.after \in Row /\ ~Placing'
      BY <1>1, <1>2, <2>1 DEF RowsReadWell, Placing, Rewritten, Course
    <3>3. \A a \in DOMAIN rows' : Unpacked(rows'[a]) \in Row
      BY <1>3, <2>1, <2>2, <3>2 DEF RowsReadWell
    <3> QED BY <3>1, <3>2, <3>3 DEF RowsReadWell
  <2> QED BY <2>3, <2>4, <2>5, <2>6, <2>7 DEF Unhurt
<1> QED BY <1>5, <1>6, <1>9, <1>10 DEF TableIInv

LEMMA NoteKeeps == ASSUME RowAssumption, TableIInv, NoteChange \/ PopChange PROVE TableIInv'
<1>1. /\ TableTypes /\ CallsInTurn /\ EntriesTrue
      /\ call = "log" /\ call' = "none" /\ course' = NoCourse /\ ahead' = {} /\ hand' = NoHand /\ halfway' = FALSE
      /\ UNCHANGED <<rows, texts, entries, organization, undoing, mark, raised, todo>>
  BY DEF TableIInv, NoteChange, PopChange, NothingInCourse, KeptByCalls
<1>2. log' \in Seq(Change) /\ \A i \in 1..Len(log') : KeepsKey(log'[i])
  <2>1. CASE PopChange
    <3>1. log' = SubSeq(log, 1, Len(log) - 1) /\ log \in Seq(Change) /\ \A i \in 1..Len(log) : KeepsKey(log[i])
      BY <2>1, <1>1 DEF PopChange, Front, TableTypes
    <3> QED BY <3>1 DEF KeepsKey
  <2>2. CASE NoteChange
    <3> DEFINE change == [kind |-> course.kind, before |-> course.before, after |-> course.after]
    <3>1. change \in Change /\ KeepsKey(change)
      BY <1>1, <2>2 DEF NoteChange, CallsInTurn, TableTypes, KeepsKey, Course, Change
    <3>2. log' = Append(log, change) /\ log \in Seq(Change) /\ \A i \in 1..Len(log) : KeepsKey(log[i])
      BY <1>1, <2>2 DEF NoteChange, TableTypes
    <3> HIDE DEF change
    <3> QED BY <3>1, <3>2
  <2> QED BY <2>1, <2>2
<1>3. TableTypes'
  <2>1. hand' \in [at : Nat, record : StoredRecord] /\ course' \in Course \cup {NoCourse} /\ KeepsKey(course')
    BY <1>1 DEF NoHand, NoCourse, NoRecord, StoredRecord, KeepsKey
  <2> QED BY <1>1, <1>2, <2>1 DEF TableTypes, CallNames
<1>4. CallsInTurn' /\ UntilHalfway' /\ EntriesTrue'
  BY <1>1 DEF CallsInTurn, UntilHalfway, EntriesTrue, Absent, InCourse, Placing, Rewritten
<1>5. ASSUME raised' # "midway" PROVE Unhurt'
  <2>1. EntriesExact /\ KeysApart /\ Pending /\ TextsCounted /\ RowsReadWell
    BY <1>1, <1>5 DEF TableIInv, Unhurt
  <2>2. EntriesExact'
    <3>1. SUFFICES ASSUME organization = "heap", NEW column \in Columns, NEW v \in Int, NEW a \in Nat
                   PROVE  <<v, a>> \in entries[column] <=>
                            a \in DOMAIN rows /\ v = ValueIn(rows[a], column)' /\ v # 0 /\ ~Absent(a, column)'
      BY <1>1 DEF EntriesExact
    <3>2. ValueIn(rows[a], column)' = ValueIn(rows[a], column) /\ ~Absent(a, column) /\ ~Absent(a, column)'
      BY <1>1 DEF ValueIn, TextAt, Absent
    <3> QED BY <2>1, <3>1, <3>2 DEF EntriesExact
  <2>3. KeysApart'
    BY <1>1, <2>1 DEF KeysApart, Leaving
  <2>4. Pending'
    <3>1. \A c \in todo : (Intact(c)' <=> Intact(c)) /\ Unpacked(c.record)' = Unpacked(c.record)
      BY <1>1 DEF Intact, Unpacked, TextAt
    <3> QED BY <1>1, <2>1, <3>1 DEF Pending, InCourse
  <2>5. TextsCounted' /\ RowsReadWell'
    BY <1>1, <2>1 DEF TextsCounted, RowsReadWell, Live, Loose, Unpacked, Placing, Rewritten, TextAt
  <2> QED BY <2>2, <2>3, <2>4, <2>5 DEF Unhurt
<1> QED BY <1>3, <1>4, <1>5 DEF TableIInv

\* The steps between statements and between changes, that touch no row.
LEMMA NoRowIsTouched ==
  ASSUME RowAssumption, TableIInv,
         UNCHANGED <<organization, rows, texts, entries, courseVars, hand, mark, halfway, raised>>,
         log' = log \/ log' = <<>>,
         undoing' \in {"nothing", "statement", "transaction"},
         undoing' # undoing => call = "none" /\ (undoing' # "nothing" => todo = {})
  PROVE  TableIInv'
<1>1. TableTypes /\ CallsInTurn /\ UntilHalfway /\ EntriesTrue
  BY DEF TableIInv
<1>2. log' \in Seq(Change) /\ \A i \in 1..Len(log') : KeepsKey(log'[i])
  <2>1. CASE log' = <<>>
    <3>1. log' \in Seq(Change) /\ Len(log') = 0
      BY <2>1
    <3> QED BY <3>1
  <2>2. CASE log' = log
    BY <1>1, <2>2 DEF TableTypes, KeepsKey
  <2> QED BY <1>1, <2>1, <2>2
<1>3. TableTypes'
  BY <1>1, <1>2 DEF TableTypes, courseVars, KeepsKey
<1>4. CallsInTurn' /\ UntilHalfway' /\ EntriesTrue'
  BY <1>1 DEF CallsInTurn, UntilHalfway, EntriesTrue, Absent, InCourse, Placing, Rewritten, courseVars, Intact,
       IndexesOf, Indexes
<1>5. ASSUME raised' # "midway" PROVE Unhurt'
  <2>1. EntriesExact /\ KeysApart /\ Pending /\ TextsCounted /\ RowsReadWell
    BY <1>1, <1>5 DEF TableIInv, Unhurt
  <2>2. EntriesExact'
    <3>1. SUFFICES ASSUME organization = "heap", NEW column \in Columns, NEW v \in Int, NEW a \in Nat
                   PROVE  <<v, a>> \in entries[column] <=>
                            a \in DOMAIN rows /\ v = ValueIn(rows[a], column)' /\ v # 0 /\ ~Absent(a, column)'
      BY <1>1 DEF EntriesExact
    <3>2. ValueIn(rows[a], column)' = ValueIn(rows[a], column) /\ (Absent(a, column)' <=> Absent(a, column))
      BY <1>1 DEF ValueIn, TextAt, Absent, courseVars, IndexesOf, Indexes
    <3> QED BY <2>1, <3>1, <3>2 DEF EntriesExact
  <2>3. KeysApart' /\ Pending'
    BY <1>1, <2>1 DEF KeysApart, Leaving, Pending, Intact, InCourse, Unpacked, TextAt, courseVars
  <2>4. TextsCounted' /\ RowsReadWell'
    BY <1>1, <2>1 DEF TextsCounted, RowsReadWell, Live, Loose, Unpacked, Placing, Rewritten, TextAt, courseVars
  <2> QED BY <2>2, <2>3, <2>4 DEF Unhurt
<1> QED BY <1>3, <1>4, <1>5 DEF TableIInv

LEMMA RaiseKeeps == ASSUME RowAssumption, TableIInv, CallRaises PROVE TableIInv'
<1>1. /\ TableTypes /\ CallsInTurn /\ UntilHalfway /\ EntriesTrue /\ InCourse /\ raised = "no"
      /\ raised' = IF halfway \/ undoing = "transaction" THEN "midway" ELSE "cleanly"
      /\ todo' = {} /\ call' = "none" /\ course' = NoCourse /\ ahead' = {} /\ hand' = NoHand /\ halfway' = FALSE
      /\ UNCHANGED <<organization, rows, texts, entries, mark>>
      /\ log' = log \/ log' = <<>>
      /\ undoing' \in {"nothing", "statement", "transaction"}
  BY DEF TableIInv, CallRaises, NothingInCourse, InCourse, GivesUp
<1>2. log' \in Seq(Change) /\ \A i \in 1..Len(log') : KeepsKey(log'[i])
  <2>1. CASE log' = <<>>
    <3>1. log' \in Seq(Change) /\ Len(log') = 0
      BY <2>1
    <3> QED BY <3>1
  <2>2. CASE log' = log
    BY <1>1, <2>2 DEF TableTypes, KeepsKey
  <2> QED BY <1>1, <2>1, <2>2
<1>3. TableTypes'
  <2>1. hand' \in [at : Nat, record : StoredRecord] /\ course' \in Course \cup {NoCourse} /\ KeepsKey(course')
    BY <1>1 DEF NoHand, NoCourse, NoRecord, StoredRecord, KeepsKey
  <2> QED BY <1>1, <1>2, <2>1 DEF TableTypes, CallNames
<1>4. CallsInTurn' /\ UntilHalfway' /\ EntriesTrue'
  BY <1>1 DEF CallsInTurn, UntilHalfway, EntriesTrue, Absent, InCourse, Placing, Rewritten
<1>5. ASSUME raised' # "midway" PROVE Unhurt'
  <2>1. EntriesExact /\ KeysApart /\ Pending /\ TextsCounted /\ RowsReadWell /\ ~halfway
    BY <1>1, <1>5 DEF TableIInv, Unhurt, TableTypes
  <2>2. \A a \in Nat, column \in Columns : ~Absent(a, column) /\ ~Absent(a, column)'
    BY <1>1, <2>1 DEF Absent, UntilHalfway
  <2>3. /\ \A a \in DOMAIN rows : Live(a) /\ Live(a)'
        /\ Loose = 0 /\ Loose' = 0
    BY <1>1, <2>1 DEF Live, Loose, Placing, Rewritten, UntilHalfway
  <2>4. EntriesExact'
    <3>1. SUFFICES ASSUME organization = "heap", NEW column \in Columns, NEW v \in Int, NEW a \in Nat
                   PROVE  <<v, a>> \in entries[column] <=>
                            a \in DOMAIN rows /\ v = ValueIn(rows[a], column)' /\ v # 0 /\ ~Absent(a, column)'
      BY <1>1 DEF EntriesExact
    <3>2. ValueIn(rows[a], column)' = ValueIn(rows[a], column)
      BY <1>1 DEF ValueIn, TextAt
    <3> QED BY <2>1, <2>2, <3>1, <3>2 DEF EntriesExact
  <2>5. KeysApart' /\ Pending'
    BY <1>1, <2>1 DEF KeysApart, Leaving, Pending, InCourse
  <2>6. TextsCounted' /\ RowsReadWell'
    BY <1>1, <2>1, <2>3 DEF TextsCounted, RowsReadWell, Unpacked, Placing, Rewritten, TextAt
  <2> QED BY <2>4, <2>5, <2>6 DEF Unhurt
<1> QED BY <1>3, <1>4, <1>5 DEF TableIInv

LEMMA TableAsItWasKeeps ==
  ASSUME RowAssumption, TableIInv, UndoEnds \/ CommitRows \/ RollbackRows \/ UNCHANGED tableVars
  PROVE  TableIInv'
<1>1. /\ UNCHANGED <<organization, rows, texts, entries, courseVars, hand, mark, halfway, raised>>
      /\ log' = log \/ log' = <<>>
      /\ undoing' \in {"nothing", "statement", "transaction"}
      /\ undoing' # undoing => call = "none" /\ (undoing' # "nothing" => todo = {})
  BY DEF TableIInv, TableTypes, UndoEnds, CommitRows, RollbackRows, tableVars, Idle
<1> QED BY <1>1, NoRowIsTouched

\* Where no call has raised midway, a row is found by its key between two changes, and
\* a row that is found is one of the table in any case.
LEMMA RowIsFoundByItsKey ==
  ASSUME TableIInv, raised # "midway", call = "none", NEW a \in DOMAIN rows
  PROVE  a \in AtKey(rows[a].key)
<1>1. /\ EntriesExact /\ organization \in {"heap", "bare", "keyed"}
      /\ organization = "keyed" => rows[a].key = a
      /\ a \in Nat /\ rows[a].key \in Nat \ {0}
  BY DEF TableIInv, Unhurt, CallsInTurn, TableTypes, Record
<1>2. CASE organization = "heap"
  <2>1. ValueIn(rows[a], "key") = rows[a].key /\ ~Absent(a, "key") /\ "key" \in Columns
    BY DEF ValueIn, Absent, Columns
  <2>2. <<rows[a].key, a>> \in entries["key"]
    BY <1>1, <1>2, <2>1 DEF EntriesExact
  <2>3. <<rows[a].key, a>>[1] = rows[a].key /\ <<rows[a].key, a>>[2] = a
    OBVIOUS
  <2> QED BY <1>2, <2>2, <2>3 DEF AtKey
<1>3. CASE organization = "bare"
  BY <1>1, <1>3 DEF AtKey
<1>4. CASE organization = "keyed"
  BY <1>1, <1>4 DEF AtKey
<1> QED BY <1>1, <1>2, <1>3, <1>4

LEMMA FoundRowIsThere ==
  ASSUME TableIInv, NEW row, NEW at \in Like(row) PROVE at \in DOMAIN rows /\ Unpacked(rows[at]) = row
<1>1. /\ EntriesTrue /\ entries["key"] \subseteq Int \X Nat /\ "key" \in Columns
      /\ organization \in {"heap", "bare", "keyed"}
  BY DEF TableIInv, TableTypes, Columns
<1>2. at \in AtKey(row.key) /\ Unpacked(rows[at]) = row
  BY DEF Like
<1>3. CASE organization = "heap"
  <2>1. PICK e \in entries["key"] : e[2] = at
    BY <1>2, <1>3 DEF AtKey
  <2>2. PICK v \in Int, a \in Nat : e = <<v, a>>
    BY <1>1, <2>1
  <2> QED BY <1>1, <1>2, <2>1, <2>2 DEF EntriesTrue
<1>4. CASE organization = "bare"
  BY <1>2, <1>4 DEF AtKey
<1>5. CASE organization = "keyed"
  BY <1>2, <1>5 DEF AtKey
<1> QED BY <1>1, <1>3, <1>4, <1>5

\* A change of a row begins, of those of a statement or of those being undone.
LEMMA BeginsKeeps ==
  ASSUME RowAssumption, TableIInv, call = "none", NEW change \in Course, KeepsKey(change), Begins(change),
         todo' = todo \ {change},
         UNCHANGED <<organization, rows, texts, entries, log, hand, undoing, mark, halfway, raised>>,
         change.kind # "insert" => Intact(change),
         raised # "midway" =>
           /\ change.kind # "insert" => change.before = Unpacked(change.record)
           /\ change.kind = "insert" => \A a \in DOMAIN rows : rows[a].key # change.after.key
           /\ \A c \in todo' :
                /\ change.kind = "insert" => c.kind = "insert" /\ c.after.key # change.after.key
                /\ change.kind # "insert" /\ c.kind # "insert" => c.at # change.at
  PROVE  TableIInv'
<1>1. /\ TableTypes /\ CallsInTurn /\ EntriesTrue
      /\ course' = change /\ ahead' = IndexesOf(change) /\ IndexesOf(change)' = IndexesOf(change)
      /\ change.kind \in {"insert", "delete", "update"}
  BY DEF TableIInv, Begins, Course, IndexesOf, Indexes
<1>2. /\ change.kind = "insert" => call' = "pack"
      /\ change.kind = "delete" => call' = IF IndexesOf(change) = {} THEN "take" ELSE "leave"
      /\ change.kind = "update" => call' = IF IndexesOf(change) = {} THEN "repack" ELSE "leave"
  BY StoreGoesOn, DeleteGoesOn, UpdateGoesOn DEF Begins
<1>3. TableTypes'
  <2>1. call' \in CallNames
    BY <1>1, <1>2 DEF CallNames
  <2> QED BY <1>1, <2>1, IndexesAreColumns DEF TableTypes, KeepsKey
<1>4. Intact(change)' <=> Intact(change)
  BY DEF Intact
<1>5. CallsInTurn'
  BY <1>1, <1>2, <1>4 DEF CallsInTurn, InCourse, Placing, Rewritten
<1>6. UntilHalfway'
  BY <1>1, <1>2 DEF UntilHalfway
<1>7. \A a \in Nat, column \in Columns : ~Absent(a, column) /\ ~Absent(a, column)'
  BY <1>1, <1>2 DEF Absent
<1>8. EntriesTrue'
  BY <1>1, <1>7 DEF EntriesTrue
<1>9. ASSUME raised' # "midway" PROVE Unhurt'
  <2>1. EntriesExact /\ KeysApart /\ Pending /\ TextsCounted /\ RowsReadWell /\ raised # "midway"
    BY <1>1, <1>9 DEF TableIInv, Unhurt
  <2>2. /\ \A a \in DOMAIN rows : Live(a) /\ Live(a)'
        /\ Loose = 0 /\ Loose' = 0 /\ ~Placing'
    BY <1>1, <1>2 DEF Live, Loose, Placing, Rewritten
  <2>3. EntriesExact'
    <3>1. SUFFICES ASSUME organization = "heap", NEW column \in Columns, NEW v \in Int, NEW a \in Nat
                   PROVE  <<v, a>> \in entries[column] <=>
                            a \in DOMAIN rows /\ v = ValueIn(rows[a], column)' /\ v # 0 /\ ~Absent(a, column)'
      BY <1>1 DEF EntriesExact
    <3>2. ValueIn(rows[a], column)' = ValueIn(rows[a], column)
      BY DEF ValueIn, TextAt
    <3> QED BY <1>7, <2>1, <3>1, <3>2 DEF EntriesExact
  <2>4. \A a \in DOMAIN rows : Leaving(a) => Leaving(a)'
    BY <1>1, <1>2 DEF Leaving
  <2>5. KeysApart'
    BY <1>1, <1>2, <2>1, <2>4 DEF KeysApart
  <2>6. Pending'
    BY <1>1, <1>2, <2>1 DEF Pending, Intact, InCourse, Unpacked, TextAt
  <2>7. TextsCounted' /\ RowsReadWell'
    BY <1>1, <2>1, <2>2 DEF TextsCounted, RowsReadWell, Unpacked, TextAt
  <2> QED BY <2>3, <2>5, <2>6, <2>7 DEF Unhurt
<1> QED BY <1>3, <1>5, <1>6, <1>8, <1>9 DEF TableIInv

LEMMA NextRowKeeps ==
  ASSUME RowAssumption, TableIInv, NEW change \in todo, NextRow(change) PROVE TableIInv'
<1>1. /\ call = "none" /\ Begins(change) /\ todo' = todo \ {change}
      /\ UNCHANGED <<organization, rows, texts, entries, log, hand, undoing, mark, halfway, raised>>
      /\ \A other \in todo : Turn[change.kind] <= Turn[other.kind]
  BY DEF NextRow
<1>2. change \in Course /\ todo \subseteq Course /\ KeepsKey(change) /\ raised # "midway"
  BY DEF TableIInv, TableTypes, CallsInTurn
<1>3. KeysApart /\ Pending
  BY <1>2 DEF TableIInv, Unhurt
<1>4. change.kind = "insert" => \A c \in todo : c.kind = "insert"
  <2>1. Turn.update = 1 /\ Turn.delete = 2 /\ Turn.insert = 3
    BY DEF Turn
  <2>2. \A c \in todo : c.kind \in {"insert", "delete", "update"}
    BY <1>2 DEF Course
  <2> QED BY <1>1, <2>1, <2>2
<1>5. change.kind = "insert" => \A a \in DOMAIN rows : rows[a].key # change.after.key
  BY <1>1, <1>3, <1>4 DEF KeysApart, Leaving
<1>6. change.kind # "insert" => Intact(change) /\ change.before = Unpacked(change.record)
  BY <1>3 DEF Pending
<1>7. \A c \in todo' :
        /\ change.kind = "insert" => c.kind = "insert" /\ c.after.key # change.after.key
        /\ change.kind # "insert" /\ c.kind # "insert" => c.at # change.at
  BY <1>1, <1>3, <1>4 DEF Pending, KeysApart
<1> QED BY <1>1, <1>2, <1>5, <1>6, <1>7, BeginsKeeps

\* 0, that is NULL, is no key, and nor is what stands for no row.
LEMMA RowsHaveKeys == ASSUME RowAssumption, NEW row \in Row PROVE row.key # -1 /\ row.key # 0
<1>1. row \in [key : Nat \ {0}, code : Nat, text : Nat]
  BY DEF RowAssumption
<1> QED BY <1>1

\* A batch that is not rejected has keys that no row has, each once.
LEMMA NewKeysAreFree ==
  ASSUME RowAssumption, TableIInv, raised # "midway", call = "none",
         NEW batch \in Seq(Row), ~RejectsNew(batch), NEW i \in DOMAIN batch
  PROVE  /\ \A a \in DOMAIN rows : rows[a].key # batch[i].key
         /\ \A j \in DOMAIN batch : j # i => batch[j].key # batch[i].key
<1> DEFINE before == [n \in DOMAIN batch |-> NoRow]
           after == [n \in DOMAIN batch |-> batch[n].key]
           changing == {n \in DOMAIN after : after[n] # before[n]}
           vacated == {before[n] : n \in changing}
<1>1. \A n \in DOMAIN batch : batch[n].key # -1 /\ batch[n].key # 0
  <2>1. TAKE n \in DOMAIN batch
  <2>2. batch[n] \in Row
    OBVIOUS
  <2> QED BY <2>2, RowsHaveKeys
<1>2. ~Repeats("key", before, after)
  BY DEF RejectsNew, UniqueColumns
<1>3. changing = DOMAIN batch /\ \A n \in changing : after[n] = batch[n].key /\ after[n] # 0 /\ after[n] \notin vacated
  <2>1. DOMAIN after = DOMAIN batch /\ \A n \in DOMAIN batch : after[n] = batch[n].key /\ before[n] = -1
    BY DEF NoRow
  <2> HIDE DEF before, after
  <2>2. changing = DOMAIN batch
    <3>1. \A n \in DOMAIN batch : after[n] # before[n]
      BY <1>1, <2>1
    <3> QED BY <2>1, <3>1
  <2>3. vacated \subseteq {-1}
    BY <2>1, <2>2
  <2> QED BY <1>1, <2>1, <2>2, <2>3
<1>4. \A n \in changing : /\ ~\E j \in changing : j # n /\ after[j] = after[n]
                          /\ after[n] \in vacated \/ ~Holds("key", after[n])
  BY <1>2, <1>3 DEF Repeats
<1>5. ~Holds("key", batch[i].key)
  BY <1>3, <1>4
<1>6. AtKey(batch[i].key) = {}
  BY <1>5 DEF Holds
<1> QED BY <1>3, <1>4, <1>6, RowIsFoundByItsKey

LEMMA UndoKeeps == ASSUME RowAssumption, TableIInv, UndoChange PROVE TableIInv'
<1> DEFINE change == NextUndone(log)
<1>1. /\ TableTypes /\ CallsInTurn /\ UntilHalfway /\ EntriesTrue
      /\ undoing # "nothing" /\ call = "none" /\ todo = {} /\ course = NoCourse
      /\ UNCHANGED <<organization, rows, texts, entries, todo, hand, mark, halfway, raised, began>>
  BY DEF TableIInv, UndoChange, CallsInTurn
<1>2. change \in Change /\ KeepsKey(change)
  <2>1. Len(log) > 0 /\ log \in Seq(Change) /\ \A i \in 1..Len(log) : KeepsKey(log[i])
    BY <1>1 DEF UndoChange, UndoneDownTo, TableTypes
  <2>2. change = log[Len(log)]
    BY DEF NextUndone, Last
  <2> HIDE DEF change
  <2> QED BY <2>1, <2>2
<1>3. change.before \in Row /\ change.after \in Row
  BY <1>2 DEF Change
<1> HIDE DEF change
<1>4. ASSUME NEW at \in Like(change.after)
      PROVE  /\ Intact(UpdateOf(at, change.before)) /\ UpdateOf(at, change.before) \in Course
             /\ Intact(DeleteOf(at)) /\ DeleteOf(at) \in Course
             /\ DeleteOf(at).kind = "delete" /\ DeleteOf(at).before = Unpacked(DeleteOf(at).record)
             /\ UpdateOf(at, change.before).kind = "update"
             /\ UpdateOf(at, change.before).before = Unpacked(UpdateOf(at, change.before).record)
             /\ UpdateOf(at, change.before).before = change.after /\ UpdateOf(at, change.before).after = change.before
  <2>1. at \in DOMAIN rows /\ Unpacked(rows[at]) = change.after
    BY <1>4, FoundRowIsThere
  <2>2. at \in Nat /\ rows[at] \in StoredRecord
    BY <1>1, <2>1 DEF TableTypes, Record, StoredRecord
  <2>3. Unpacked(rows[at]).key = rows[at].key /\ Unpacked(rows[at]).code = rows[at].code
    BY DEF Unpacked
  <2> QED BY <1>3, <2>1, <2>2, <2>3 DEF UpdateOf, DeleteOf, Course, Intact
<1>5. CASE \E at \in Like(change.after) : Begins(DeleteOf(at)) /\ UNCHANGED <<log, undoing>>
  <2>1. PICK at \in Like(change.after) : Begins(DeleteOf(at)) /\ UNCHANGED <<log, undoing>>
    BY <1>5
  <2> QED BY <1>1, <1>4, <2>1, BeginsKeeps DEF KeepsKey
<1>6. CASE change.kind = "update" /\ \E at \in Like(change.after) :
             Begins(UpdateOf(at, change.before)) /\ UNCHANGED <<log, undoing>>
  <2>1. PICK at \in Like(change.after) : Begins(UpdateOf(at, change.before)) /\ UNCHANGED <<log, undoing>>
    BY <1>6
  <2>2. KeepsKey(UpdateOf(at, change.before))
    BY <1>2, <1>4, <1>6 DEF KeepsKey
  <2> QED BY <1>1, <1>4, <2>1, <2>2, BeginsKeeps
<1>7. CASE ~RejectsNew(<<change.before>>) /\ Begins(StoreOf(change.before)) /\ UNCHANGED <<log, undoing>>
  <2>1. StoreOf(change.before) \in Course /\ StoreOf(change.before).kind = "insert"
        /\ StoreOf(change.before).after = change.before
    BY <1>3 DEF StoreOf, Course, StoredRecord, NoRecord
  <2>2. raised # "midway" => \A a \in DOMAIN rows : rows[a].key # change.before.key
    <3>1. <<change.before>> \in Seq(Row) /\ 1 \in DOMAIN <<change.before>> /\ <<change.before>>[1] = change.before
      BY <1>3
    <3> QED BY <1>1, <1>7, <3>1, NewKeysAreFree
  <2> QED BY <1>1, <1>7, <2>1, <2>2, BeginsKeeps DEF KeepsKey
<1>8. CASE GivesUp /\ UNCHANGED <<course, call, ahead>>
  <2>1. /\ log' = log \/ log' = <<>>
        /\ undoing' \in {"nothing", "statement", "transaction"}
    BY <1>8 DEF GivesUp
  <2> QED BY <1>1, <1>8, <2>1, NoRowIsTouched DEF courseVars
<1>9. CASE call' = "log" /\ UNCHANGED <<course, ahead, log, undoing>>
  <2>1. TableTypes'
    BY <1>1, <1>9 DEF TableTypes, CallNames, KeepsKey
  <2>2. CallsInTurn' /\ UntilHalfway' /\ EntriesTrue'
    BY <1>1, <1>9 DEF CallsInTurn, UntilHalfway, EntriesTrue, Absent, InCourse, Placing, Rewritten
  <2>3. ASSUME raised' # "midway" PROVE Unhurt'
    <3>1. EntriesExact /\ KeysApart /\ Pending /\ TextsCounted /\ RowsReadWell
      BY <1>1, <2>3 DEF TableIInv, Unhurt
    <3>2. EntriesExact'
      <4>1. SUFFICES ASSUME organization = "heap", NEW column \in Columns, NEW v \in Int, NEW a \in Nat
                     PROVE  <<v, a>> \in entries[column] <=>
                              a \in DOMAIN rows /\ v = ValueIn(rows[a], column)' /\ v # 0 /\ ~Absent(a, column)'
        BY <1>1 DEF EntriesExact
      <4>2. ValueIn(rows[a], column)' = ValueIn(rows[a], column) /\ ~Absent(a, column) /\ ~Absent(a, column)'
        BY <1>1, <1>9 DEF ValueIn, TextAt, Absent
      <4> QED BY <3>1, <4>1, <4>2 DEF EntriesExact
    <3>3. KeysApart' /\ Pending'
      BY <1>1, <1>9, <3>1 DEF KeysApart, Pending, InCourse
    <3>4. TextsCounted' /\ RowsReadWell'
      BY <1>1, <1>9, <3>1 DEF TextsCounted, RowsReadWell, Live, Loose, Unpacked, Placing, Rewritten, TextAt
    <3> QED BY <3>2, <3>3, <3>4 DEF Unhurt
  <2> QED BY <2>1, <2>2, <2>3 DEF TableIInv
<1> QED BY <1>5, <1>6, <1>7, <1>8, <1>9 DEF UndoChange, Reverts, change

\* A statement begins: all that it will do is known, and none of it is done.
LEMMA StatementKeeps ==
  ASSUME RowAssumption, TableIInv, StatementMayStart,
         UNCHANGED KeptByStatements, mark' = Len(log),
         todo' \subseteq Course,
         \A c \in todo' :
           /\ KeepsKey(c)
           /\ c.kind # "insert" => Intact(c) /\ c.before = Unpacked(c.record)
           /\ c.kind = "insert" => \A a \in DOMAIN rows : rows[a].key = c.after.key =>
                                     \E d \in todo' : d.kind = "delete" /\ d.at = a,
         \A c, d \in todo' : c # d =>
           /\ c.kind # "insert" /\ d.kind # "insert" => c.at # d.at
           /\ c.kind = "insert" /\ d.kind = "insert" => c.after.key # d.after.key
  PROVE  TableIInv'
<1>1. /\ TableTypes /\ CallsInTurn /\ UntilHalfway /\ EntriesTrue
      /\ EntriesExact /\ KeysApart /\ Pending /\ TextsCounted /\ RowsReadWell
      /\ call = "none" /\ undoing = "nothing" /\ raised # "midway"
      /\ UNCHANGED <<organization, rows, texts, entries, log, course, call, ahead, hand, halfway, undoing, raised>>
  BY DEF TableIInv, Unhurt, StatementMayStart, Idle, KeptByStatements
<1>2. TableTypes'
  BY <1>1 DEF TableTypes, KeepsKey
<1>3. CallsInTurn' /\ UntilHalfway'
  BY <1>1 DEF CallsInTurn, UntilHalfway, InCourse, Placing, Rewritten
<1>4. \A a \in Nat, column \in Columns : ~Absent(a, column) /\ ~Absent(a, column)'
  BY <1>1 DEF Absent
<1>5. EntriesTrue'
  BY <1>1, <1>4 DEF EntriesTrue
<1>6. EntriesExact'
  <2>1. SUFFICES ASSUME organization = "heap", NEW column \in Columns, NEW v \in Int, NEW a \in Nat
                 PROVE  <<v, a>> \in entries[column] <=>
                          a \in DOMAIN rows /\ v = ValueIn(rows[a], column)' /\ v # 0 /\ ~Absent(a, column)'
    BY <1>1 DEF EntriesExact
  <2>2. ValueIn(rows[a], column)' = ValueIn(rows[a], column)
    BY <1>1 DEF ValueIn, TextAt
  <2> QED BY <1>1, <1>4, <2>1, <2>2 DEF EntriesExact
<1>7. \A c \in Course : (Intact(c)' <=> Intact(c)) /\ Unpacked(c.record)' = Unpacked(c.record)
  BY <1>1 DEF Intact, Unpacked, TextAt
<1>8. KeysApart' /\ Pending'
  BY <1>1, <1>7 DEF KeysApart, Pending, Leaving, InCourse
<1>9. TextsCounted' /\ RowsReadWell'
  BY <1>1 DEF TextsCounted, RowsReadWell, Live, Loose, Unpacked, Placing, Rewritten, TextAt
<1> QED BY <1>2, <1>3, <1>5, <1>6, <1>8, <1>9 DEF TableIInv, Unhurt

LEMMA InsertAllKeeps ==
  ASSUME RowAssumption, TableIInv, NEW batch \in Batches, InsertAll(batch) PROVE TableIInv'
<1>1. /\ StatementMayStart /\ UNCHANGED KeptByStatements /\ mark' = Len(log)
      /\ todo' = {StoreOf(batch[i]) : i \in DOMAIN batch} /\ ~RejectsNew(batch)
      /\ batch \in Seq(Row) /\ call = "none" /\ raised # "midway"
  BY DEF InsertAll, StatementMayStart, Idle, RowAssumption
<1>2. \A i \in DOMAIN batch :
        /\ StoreOf(batch[i]) \in Course /\ StoreOf(batch[i]).kind = "insert" /\ StoreOf(batch[i]).after = batch[i]
  BY <1>1 DEF StoreOf, Course, StoredRecord, NoRecord
<1>3. \A i \in DOMAIN batch :
        /\ \A a \in DOMAIN rows : rows[a].key # batch[i].key
        /\ \A j \in DOMAIN batch : j # i => batch[j].key # batch[i].key
  <2>1. TAKE i \in DOMAIN batch
  <2> QED BY <1>1, NewKeysAreFree
<1>4. \A c, d \in todo' : c # d => c.kind = "insert" /\ d.kind = "insert" /\ c.after.key # d.after.key
  <2>1. TAKE c, d \in todo'
  <2>2. PICK i \in DOMAIN batch, j \in DOMAIN batch : c = StoreOf(batch[i]) /\ d = StoreOf(batch[j])
    BY <1>1
  <2> QED BY <1>2, <1>3, <2>2
<1>5. todo' \subseteq Course /\ \A c \in todo' : c.kind = "insert" /\ \A a \in DOMAIN rows : rows[a].key # c.after.key
  BY <1>1, <1>2, <1>3
<1> QED BY <1>1, <1>4, <1>5, StatementKeeps DEF KeepsKey

\* What a statement reads of a row before it begins.
LEMMA VictimsAreRead ==
  ASSUME RowAssumption, TableIInv, StatementMayStart, NEW a \in DOMAIN rows, NEW after \in Row
  PROVE  /\ Unpacked(rows[a]) \in Row /\ Unpacked(rows[a]).key = rows[a].key
         /\ UpdateOf(a, after) \in Course /\ Intact(UpdateOf(a, after))
         /\ UpdateOf(a, after).kind = "update" /\ UpdateOf(a, after).at = a /\ UpdateOf(a, after).after = after
         /\ UpdateOf(a, after).before = Unpacked(rows[a]) /\ UpdateOf(a, after).record = rows[a]
         /\ DeleteOf(a) \in Course /\ Intact(DeleteOf(a)) /\ DeleteOf(a).kind = "delete" /\ DeleteOf(a).at = a
         /\ DeleteOf(a).before = Unpacked(rows[a]) /\ DeleteOf(a).record = rows[a]
<1>1. RowsReadWell /\ TableTypes /\ call = "none"
  BY DEF TableIInv, Unhurt, StatementMayStart, Idle
<1>2. Unpacked(rows[a]) \in Row
  BY <1>1 DEF RowsReadWell, Live, Rewritten
<1>3. a \in Nat /\ rows[a] \in StoredRecord
  BY <1>1 DEF TableTypes, Record, StoredRecord
<1>4. Unpacked(rows[a]).key = rows[a].key /\ Unpacked(rows[a]).code = rows[a].code
  BY DEF Unpacked
<1> QED BY <1>2, <1>3, <1>4 DEF UpdateOf, DeleteOf, Course, Intact

LEMMA DeleteWhereKeeps ==
  ASSUME RowAssumption, TableIInv, NEW addresses \in SUBSET DOMAIN rows, DeleteWhere(addresses)
  PROVE  TableIInv'
<1>1. /\ StatementMayStart /\ UNCHANGED KeptByStatements /\ mark' = Len(log)
      /\ todo' = {DeleteOf(a) : a \in addresses}
  BY DEF DeleteWhere
<1>2. \A a \in addresses :
        /\ DeleteOf(a) \in Course /\ Intact(DeleteOf(a)) /\ DeleteOf(a).kind = "delete" /\ DeleteOf(a).at = a
        /\ DeleteOf(a).before = Unpacked(DeleteOf(a).record)
  <2>1. TAKE a \in addresses
  <2>2. PICK row \in Row : row = Unpacked(rows[a])
    BY <1>1 DEF TableIInv, Unhurt, StatementMayStart, Idle, RowsReadWell, Live, Rewritten
  <2> QED BY <1>1, <2>2, VictimsAreRead
<1>3. todo' \subseteq Course /\ \A c \in todo' : c.kind = "delete" /\ Intact(c) /\ c.before = Unpacked(c.record)
  BY <1>1, <1>2
<1>4. \A c, d \in todo' : c # d => c.at # d.at
  BY <1>1, <1>2
<1> QED BY <1>1, <1>3, <1>4, StatementKeeps DEF KeepsKey

LEMMA UpdateWhereKeeps ==
  ASSUME RowAssumption, TableIInv, NEW addresses \in SUBSET DOMAIN rows, NEW transform \in Transforms,
         UpdateWhere(addresses, transform)
  PROVE  TableIInv'
<1> DEFINE before == [a \in addresses |-> Unpacked(rows[a])]
           after == [a \in addresses |-> transform[before[a]]]
           moving == {a \in addresses : before[a].key # after[a].key}
           beforeKey == [a \in addresses |-> before[a]["key"]]
           afterKey == [a \in addresses |-> after[a]["key"]]
           changing == {a \in DOMAIN afterKey : afterKey[a] # beforeKey[a]}
           vacated == {beforeKey[a] : a \in changing}
<1>1. /\ StatementMayStart /\ UNCHANGED KeptByStatements /\ mark' = Len(log)
      /\ todo' = {UpdateOf(a, after[a]) : a \in addresses \ moving}
                  \cup {DeleteOf(a) : a \in moving} \cup {StoreOf(after[a]) : a \in moving}
      /\ ~Repeats("key", beforeKey, afterKey)
  BY DEF UpdateWhere, UniqueColumns
<1>2. \A a \in addresses : before[a] \in Row /\ before[a] = Unpacked(rows[a]) /\ before[a].key = rows[a].key
                            /\ after[a] \in Row /\ after[a].key \in Nat \ {0}
  <2>1. TAKE a \in addresses
  <2>2. before[a] = Unpacked(rows[a]) /\ Unpacked(rows[a]) \in Row /\ Unpacked(rows[a]).key = rows[a].key
    <3>1. PICK n \in DOMAIN rows : n = a
      OBVIOUS
    <3>2. /\ TableIInv /\ RowsReadWell /\ call = "none"
      BY <1>1 DEF TableIInv, Unhurt, StatementMayStart, Idle
    <3> QED BY <3>1, <3>2 DEF RowsReadWell, Live, Rewritten, Unpacked
  <2>3. transform \in [Row -> Row] /\ after[a] = transform[before[a]]
    BY DEF RowAssumption
  <2> QED BY <2>2, <2>3 DEF RowAssumption
<1>3. \A a \in addresses : beforeKey[a] = rows[a].key /\ afterKey[a] = after[a].key
  BY <1>2
<1>4. changing = moving
  BY <1>2, <1>3
<1> HIDE DEF before, after
<1>5. \A a \in addresses :
        /\ UpdateOf(a, after[a]) \in Course /\ Intact(UpdateOf(a, after[a]))
        /\ UpdateOf(a, after[a]).kind = "update" /\ UpdateOf(a, after[a]).at = a
        /\ UpdateOf(a, after[a]).after = after[a] /\ UpdateOf(a, after[a]).before = before[a]
        /\ UpdateOf(a, after[a]).before = Unpacked(UpdateOf(a, after[a]).record)
        /\ DeleteOf(a) \in Course /\ Intact(DeleteOf(a)) /\ DeleteOf(a).kind = "delete" /\ DeleteOf(a).at = a
        /\ DeleteOf(a).before = Unpacked(DeleteOf(a).record)
        /\ StoreOf(after[a]) \in Course /\ StoreOf(after[a]).kind = "insert" /\ StoreOf(after[a]).after = after[a]
  <2>1. TAKE a \in addresses
  <2>2. StoreOf(after[a]) \in Course /\ StoreOf(after[a]).kind = "insert" /\ StoreOf(after[a]).after = after[a]
    BY <1>2 DEF StoreOf, Course, StoredRecord, NoRecord
  <2> QED BY <1>1, <1>2, <2>2, VictimsAreRead
<1>6. ASSUME NEW m \in moving
      PROVE  /\ \A n \in moving : n # m => after[n].key # after[m].key
             /\ \A a \in DOMAIN rows : rows[a].key = after[m].key => a \in moving
  <2>1. /\ ~\E j \in changing : j # m /\ afterKey[j] = afterKey[m]
        /\ afterKey[m] \in vacated \/ ~Holds("key", afterKey[m])
    BY <1>1, <1>2, <1>3, <1>4, <1>6 DEF Repeats
  <2>2. ASSUME NEW a \in DOMAIN rows, rows[a].key = after[m].key PROVE a \in moving
    <3>1. TableIInv /\ KeysApart /\ raised # "midway" /\ call = "none"
      BY <1>1 DEF TableIInv, Unhurt, StatementMayStart, Idle
    <3>2. Holds("key", afterKey[m])
      BY <1>3, <1>6, <2>2, <3>1, RowIsFoundByItsKey DEF Holds
    <3>3. PICK n \in moving : rows[n].key = afterKey[m]
      <4>1. PICK n \in changing : beforeKey[n] = afterKey[m]
        BY <2>1, <3>2
      <4> QED BY <1>3, <1>4, <4>1
    <3> QED BY <1>3, <1>6, <2>2, <3>1, <3>3 DEF KeysApart
  <2> QED BY <1>3, <1>4, <1>6, <2>1, <2>2
<1>7. \A c \in todo' :
        \/ \E a \in addresses \ moving : c = UpdateOf(a, after[a])
        \/ \E a \in moving : c = DeleteOf(a)
        \/ \E a \in moving : c = StoreOf(after[a])
  BY <1>1
<1>8. ASSUME NEW c \in todo'
      PROVE  /\ c \in Course /\ KeepsKey(c)
             /\ c.kind # "insert" => Intact(c) /\ c.before = Unpacked(c.record)
             /\ c.kind = "insert" => \A a \in DOMAIN rows : rows[a].key = c.after.key =>
                                       \E d \in todo' : d.kind = "delete" /\ d.at = a
  <2>1. CASE \E a \in addresses \ moving : c = UpdateOf(a, after[a])
    BY <1>5, <2>1 DEF KeepsKey
  <2>2. CASE \E a \in moving : c = DeleteOf(a)
    BY <1>5, <2>2 DEF KeepsKey
  <2>3. CASE \E a \in moving : c = StoreOf(after[a])
    <3>1. PICK m \in moving : c = StoreOf(after[m])
      BY <2>3
    <3>2. c \in Course /\ c.kind = "insert" /\ c.after = after[m]
      BY <1>5, <3>1
    <3>3. \A a \in moving : DeleteOf(a) \in todo' /\ DeleteOf(a).kind = "delete" /\ DeleteOf(a).at = a
      BY <1>1, <1>5
    <3> QED BY <1>6, <3>2, <3>3 DEF KeepsKey
  <2> QED BY <1>7, <2>1, <2>2, <2>3
<1>9. ASSUME NEW c \in todo', NEW d \in todo', c # d
      PROVE  /\ c.kind # "insert" /\ d.kind # "insert" => c.at # d.at
             /\ c.kind = "insert" /\ d.kind = "insert" => c.after.key # d.after.key
  <2>1. ASSUME c.kind # "insert", d.kind # "insert" PROVE c.at # d.at
    <3>1. /\ c.at \in addresses /\ c = IF c.at \in moving THEN DeleteOf(c.at) ELSE UpdateOf(c.at, after[c.at])
          /\ d.at \in addresses /\ d = IF d.at \in moving THEN DeleteOf(d.at) ELSE UpdateOf(d.at, after[d.at])
      BY <1>5, <1>7, <2>1
    <3> QED BY <1>9, <3>1
  <2>2. ASSUME c.kind = "insert", d.kind = "insert" PROVE c.after.key # d.after.key
    <3>1. PICK m \in moving, n \in moving : c = StoreOf(after[m]) /\ d = StoreOf(after[n])
      BY <1>5, <1>7, <2>2
    <3> QED BY <1>5, <1>6, <1>9, <3>1
  <2> QED BY <2>1, <2>2
<1> HIDE DEF moving, beforeKey, afterKey, changing, vacated
<1> QED BY <1>1, <1>8, <1>9, StatementKeeps

-----------------------------------------------------------------------------
LEMMA TableStepKeeps == ASSUME RowAssumption, TableIInv, [TableNext]_tableVars PROVE TableIInv'
<1>1. CASE PackRow BY <1>1, PackKeeps
<1>2. CASE PutRow BY <1>2, PutKeeps
<1>3. CASE TakeRow BY <1>3, TakeKeeps
<1>4. CASE ReleaseTexts BY <1>4, ReleaseKeeps
<1>5. CASE RepackRow BY <1>5, RepackKeeps
<1>6. CASE RewriteRow BY <1>6, RewriteKeeps
<1>7. CASE \E column \in Columns : EnterIndex(column) \/ LeaveIndex(column)
  BY <1>7, EnterKeeps, LeaveKeeps
<1>8. CASE NoteChange \/ PopChange BY <1>8, NoteKeeps
<1>9. CASE \E batch \in Batches : InsertAll(batch) BY <1>9, InsertAllKeeps
<1>10. CASE \E addresses \in SUBSET DOMAIN rows \ {{}} :
              \/ DeleteWhere(addresses)
              \/ \E transform \in Transforms : UpdateWhere(addresses, transform)
  BY <1>10, DeleteWhereKeeps, UpdateWhereKeeps
<1>11. CASE \E change \in todo : NextRow(change) BY <1>11, NextRowKeeps
<1>12. CASE UndoChange BY <1>12, UndoKeeps
<1>13. CASE CallRaises BY <1>13, RaiseKeeps
<1>14. CASE UndoEnds \/ CommitRows \/ RollbackRows \/ UNCHANGED tableVars BY <1>14, TableAsItWasKeeps
<1> QED
  BY <1>1, <1>2, <1>3, <1>4, <1>5, <1>6, <1>7, <1>8, <1>9, <1>10, <1>11, <1>12, <1>13, <1>14 DEF TableNext

\* The invariant holds at every moment of every statement and of every undoing,
\* whatever rows, batches and updates there are and whichever call raises.
THEOREM TableIInvHolds == TableSpec => []TableIInv
<1>1. TableInit => TableIInv BY RowAssumption, TableStarts
<1>2. TableIInv /\ [TableNext]_tableVars => TableIInv' BY RowAssumption, TableStepKeeps
<1> QED BY <1>1, <1>2, PTL DEF TableSpec

LEMMA TableIsSound == ASSUME TableIInv PROVE TableSound
<1>1. TableTypes /\ CallsInTurn /\ EntriesTrue
  BY DEF TableIInv
<1>2. EntriesAreTrue
  <2>1. ASSUME NEW column \in Columns, column # "text" \/ raised # "midway", NEW e \in entries[column]
        PROVE  e[2] \in DOMAIN rows /\ ValueIn(rows[e[2]], column) = e[1]
    <3>1. PICK v \in Int, a \in Nat : e = <<v, a>>
      BY <1>1, <2>1 DEF TableTypes
    <3>2. CASE column # "text"
      BY <1>1, <2>1, <3>1, <3>2 DEF EntriesTrue, ValueIn
    <3>3. CASE raised # "midway"
      <4>1. EntriesExact
        BY <3>3 DEF TableIInv, Unhurt
      <4>2. organization = "heap"
        BY <1>1, <2>1, <3>1 DEF EntriesTrue
      <4> QED BY <2>1, <3>1, <4>1, <4>2 DEF EntriesExact
    <3> QED BY <2>1, <3>2, <3>3
  <2>2. raised # "midway" =>
          /\ \A a, b \in DOMAIN rows : a # b => rows[a].key # rows[b].key
          /\ call = "put" => hand.record.key \notin {rows[a].key : a \in DOMAIN rows}
    BY <1>1 DEF TableIInv, Unhurt, KeysApart, CallsInTurn, Placing
  <2> QED BY <2>1, <2>2 DEF EntriesAreTrue
<1>3. ASSUME Idle, raised # "midway" PROVE IndexesAgree /\ TextsAreReferred
  <2>1. EntriesExact /\ TextsCounted /\ call = "none"
    BY <1>3 DEF TableIInv, Unhurt, Idle
  <2>2. IndexesAgree
    <3>1. SUFFICES ASSUME NEW column \in Columns
                   PROVE  entries[column] = IF column \notin Indexes THEN {}
                            ELSE {<<ValueIn(rows[a], column), a>> :
                                    a \in {a \in DOMAIN rows : ValueIn(rows[a], column) # 0}}
      BY DEF IndexesAgree
    <3>2. entries[column] \subseteq Int \X Nat /\ organization \in {"heap", "bare", "keyed"}
      BY <1>1 DEF TableTypes
    <3>3. CASE organization # "heap"
      BY <1>1, <3>2, <3>3 DEF EntriesTrue, Indexes
    <3>4. CASE organization = "heap"
      <4>1. \A a \in DOMAIN rows : a \in Nat /\ ValueIn(rows[a], column) \in Int /\ ~Absent(a, column)
        BY <1>1, <2>1 DEF TableTypes, Record, ValueIn, TextAt, Absent, Columns
      <4>2. \A v \in Int, a \in Nat : <<v, a>> \in entries[column] <=>
              a \in DOMAIN rows /\ v = ValueIn(rows[a], column) /\ v # 0
        BY <2>1, <3>4, <4>1 DEF EntriesExact
      <4>3. column \in Indexes
        BY <3>4 DEF Indexes
      <4> QED BY <3>2, <4>1, <4>2, <4>3
    <3> QED BY <3>3, <3>4
  <2>3. \A a \in DOMAIN rows : Live(a) /\ Loose = 0 /\ rows[a].ref \in Nat
    BY <1>1, <2>1 DEF Live, Loose, Placing, Rewritten, TableTypes, Record
  <2>4. TextsAreReferred
    <3>1. Loose = 0 /\ DOMAIN texts \subseteq Nat
      BY <1>1, <2>1 DEF Loose, Placing, Rewritten, TableTypes
    <3>2. DOMAIN texts = {rows[a].ref : a \in DOMAIN rows} \ {0}
      BY <2>1, <2>3, <3>1 DEF TextsCounted
    <3>3. \A a, b \in DOMAIN rows : a # b /\ rows[a].ref # 0 => rows[a].ref # rows[b].ref
      BY <2>1, <2>3 DEF TextsCounted
    <3> QED BY <3>2, <3>3 DEF TextsAreReferred
  <2> QED BY <2>2, <2>4
<1> QED BY <1>2, <1>3 DEF TableSound

\* In a table with any rows, whatever is inserted, updated and deleted, whichever call
\* raises and whatever is undone: an index never points where there is no row or where
\* another value is, and between statements that left nothing halfway the indexes have
\* all the rows and the TEXT values are those the rows refer to, once each.
THEOREM TableIsAlwaysSound == TableSpec => []TableSound
<1>1. TableIInv => TableSound BY TableIsSound
<1> QED BY <1>1, TableIInvHolds, PTL

-----------------------------------------------------------------------------
(* That the log takes the rows back to those the transaction began with.   *)

\* What a change takes out of the rows and what it puts there.
Gone(change) == IF change.kind = "insert" THEN {} ELSE {change.before}
Made(change) == IF change.kind = "delete" THEN {} ELSE {change.after}
Result(S, change) == (S \ Gone(change)) \cup Made(change)
Back(S, change) == (S \ Made(change)) \cup Gone(change)
Fits(S, change) == Gone(change) \subseteq S /\ Made(change) \cap (S \ Gone(change)) = {}

KeysOnce(S) == \A r, s \in S : r.key = s.key => r = s
CodesOnce(S) == organization = "heap" => \A r, s \in S : r.code = s.code /\ r.code # 0 => r = s

\* No UPDATE changes a key and a code that an index makes UNIQUE.
KeyOrCodeStays ==
  organization # "heap" \/
  \A transform \in Transforms :
    \/ \A row \in Row : transform[row].key = row.key
    \/ \A row \in Row : transform[row].code = row.code

\* The rows after each change of the log, from those the transaction began with.
History(states) ==
  /\ states \in [0..Len(log) -> SUBSET Row] /\ states[0] = began
  /\ \A n \in 1..Len(log) : Fits(states[n - 1], log[n]) /\ states[n] = Result(states[n - 1], log[n])
  /\ \A n \in 0..Len(log) : KeysOnce(states[n])
  /\ KeyOrCodeStays => \A n \in 1..Len(log) : log[n].kind = "delete" => CodesOnce(states[n - 1])

\* The rows that can be read whole, while a change is made to those the log leads to.
LiveRows == {Unpacked(rows[a]) : a \in {a \in DOMAIN rows : Live(a)}}
Standing(S) ==
  LiveRows = IF Rewritten \/ (call = "put" /\ course.kind = "update") THEN S \ {course.before}
             ELSE IF call \in {"enter", "release", "log"} THEN Result(S, course) ELSE S

\* What the statement has yet to change, and the rows it will leave.
Coming == IF undoing # "nothing" THEN {} ELSE todo \cup IF call = "none" THEN {} ELSE {course}
Final(S) == (S \ {c.before : c \in {c \in Coming : c.kind # "insert"}})
              \cup {c.after : c \in {c \in Coming : c.kind # "delete"}}

\* It leaves no code twice; and neither is there one on the way, if it deletes rows.
GoesWell(S) ==
  undoing = "nothing" =>
    /\ CodesOnce(Final(S))
    /\ KeyOrCodeStays /\ (\E c \in Coming : c.kind = "delete") =>
         /\ CodesOnce(S)
         /\ organization = "heap" => \A c \in Coming : c.kind = "update" => c.before.code = c.after.code
    /\ call # "none" => \A c \in todo : c.kind # "insert" =>
                          course.kind # "insert" /\ c.before.key # course.before.key

\* The change that undoes another takes the rows to the state before that one.
GoesBack(states) ==
  undoing # "nothing" /\ call # "none" =>
    /\ course \in Course /\ Len(log) > UndoneDownTo
    /\ Result(states[Len(log)], course) = states[Len(log) - 1]

\* No code was twice when the transaction began, nor when the statement did.
Begun(states) ==
  /\ CodesOnce(began)
  /\ undoing = "statement" => raised # "no"
  /\ ~Idle /\ undoing # "transaction" => mark <= Len(log) /\ CodesOnce(states[mark])

\* What holds between any two calls, until one raises midway.
Moment(states) ==
  /\ History(states) /\ Begun(states)
  /\ Standing(states[Len(log)]) /\ (call # "none" => Fits(states[Len(log)], course))
  /\ GoesWell(states[Len(log)]) /\ GoesBack(states)

UndoIInv == raised # "midway" => \E states : Moment(states)

\* What is put back has a key or a code that a row has.
UndoMeetsARepeat ==
  /\ undoing # "nothing" /\ call = "none" /\ Len(log) > UndoneDownTo
  /\ NextUndone(log).kind = "delete" /\ RejectsNew(<<NextUndone(log).before>>)

-----------------------------------------------------------------------------
\* A set of natural numbers has a least one.
LEMMA LeastNumber ==
  ASSUME NEW S, S \subseteq Nat, S # {}
  PROVE  \E k \in S : \A n \in S : k <= n
<1> DEFINE R == OpToRel(<, Nat)
<1>1. IsWellFoundedOn(R, Nat)
  BY NatLessThanWellFounded, Zenon
<1>2. \A m, n \in Nat : <<m, n>> \in R <=> m < n
  BY DEF OpToRel
<1> HIDE DEF R
<1>3. PICK k \in S : \A n \in S : ~(<<n, k>> \in R)
  BY <1>1, WFMin
<1>4. ASSUME NEW n \in S PROVE k <= n
  <2>1. ~(n < k)
    BY <1>2, <1>3
  <2> QED BY <2>1
<1> QED BY <1>4

LEMMA BackOfResult == ASSUME NEW S, NEW c, Fits(S, c) PROVE Back(Result(S, c), c) = S
BY DEF Back, Result, Fits, Gone, Made

\* The log takes the rows back, from one state to the one before it, to the first.
LEMMA LogTakesBack ==
  ASSUME NEW states, History(states), log \in Seq(Change), LogicalRows = states[Len(log)]
  PROVE  Reverted(log) = began
<1> DEFINE N == Len(log)
           f == CHOOSE h : h = [n \in 0..N |-> IF n = N THEN LogicalRows
                                               ELSE (h[n + 1] \ IF log[n + 1].kind = "delete" THEN {} ELSE {log[n + 1].after})
                                                      \cup IF log[n + 1].kind = "insert" THEN {} ELSE {log[n + 1].before}]
<1>0. N \in Nat /\ states = [n \in 0..N |-> states[n]]
  BY DEF History
<1>1. Reverted(log) = f[0]
  BY DEF Reverted
<1>2. \A n \in 0..N : n # N => n + 1 \in 1..N /\ states[n] = Back(states[n + 1], log[n + 1])
  <2>1. ASSUME NEW n \in 0..N, n # N
        PROVE  n + 1 \in 1..N /\ states[n] = Back(states[n + 1], log[n + 1])
    <3>1. n + 1 \in 1..N /\ (n + 1) - 1 = n
      BY <1>0, <2>1
    <3>2. Fits(states[n], log[n + 1]) /\ states[n + 1] = Result(states[n], log[n + 1])
      BY <3>1 DEF History
    <3> QED BY <3>1, <3>2, BackOfResult
  <2> QED BY <2>1
<1>3. states = [n \in 0..N |-> IF n = N THEN LogicalRows
                               ELSE (states[n + 1] \ IF log[n + 1].kind = "delete" THEN {} ELSE {log[n + 1].after})
                                      \cup IF log[n + 1].kind = "insert" THEN {} ELSE {log[n + 1].before}]
  BY <1>0, <1>2 DEF Back, Made, Gone
<1>4. f = [n \in 0..N |-> IF n = N THEN LogicalRows
                          ELSE (f[n + 1] \ IF log[n + 1].kind = "delete" THEN {} ELSE {log[n + 1].after})
                                 \cup IF log[n + 1].kind = "insert" THEN {} ELSE {log[n + 1].before}]
  BY <1>3
<1> HIDE DEF f
<1>5. \A n \in 0..N : n # N => f[n] = Back(f[n + 1], log[n + 1])
  BY <1>4 DEF Back, Made, Gone
<1>6. f[N] = states[N]
  BY <1>0, <1>4
<1>7. f[0] = states[0]
  <2> DEFINE Short == {k \in Nat : k <= N /\ f[N - k] # states[N - k]}
  <2>1. SUFFICES ASSUME Short # {} PROVE FALSE
    BY <1>0
  <2>2. PICK k \in Short : \A m \in Short : k <= m
    <3>1. Short \subseteq Nat
      OBVIOUS
    <3> QED BY <2>1, <3>1, LeastNumber
  <2>3. k \in Nat /\ k <= N /\ f[N - k] # states[N - k] /\ k # 0
    BY <1>0, <1>6, <2>2
  <2>4. k - 1 \in Nat /\ k - 1 <= N /\ ~(k <= k - 1) /\ N - (k - 1) = (N - k) + 1 /\ N - k \in 0..N /\ N - k # N
    BY <1>0, <2>3
  <2>5. f[(N - k) + 1] = states[(N - k) + 1]
    BY <2>2, <2>4
  <2> QED BY <1>2, <1>5, <2>3, <2>4, <2>5
<1> QED BY <1>1, <1>7 DEF History

-----------------------------------------------------------------------------
\* The rows that stand, through the calls of a change.
LEMMA SameRowsRead ==
  ASSUME rows' = rows, \A a \in DOMAIN rows : Live(a)' <=> Live(a),
         \A a \in DOMAIN rows : Live(a) => TextAt(rows[a].ref)' = TextAt(rows[a].ref)
  PROVE  LiveRows' = LiveRows
BY DEF LiveRows, Unpacked

\* A reference of a row that stands is NULL, or to a TEXT, and not the one in hand.
LEMMA LiveRefs ==
  ASSUME TableTypes, TextsCounted, NEW a \in DOMAIN rows, Live(a)
  PROVE  /\ rows[a].ref \in Nat /\ (rows[a].ref # 0 => rows[a].ref \in DOMAIN texts)
         /\ rows[a].ref = Loose => Loose = 0
BY DEF TableTypes, TextsCounted, Record

\* A row that is read out of the table is told from the others by its key.
LEMMA OtherRowsAreOther ==
  ASSUME KeysApart, NEW a \in DOMAIN rows, NEW b \in DOMAIN rows, a # b
  PROVE  Unpacked(rows[a]) # Unpacked(rows[b])
<1>1. rows[a].key # rows[b].key
  BY DEF KeysApart
<1>2. Unpacked(rows[a]).key = rows[a].key /\ Unpacked(rows[b]).key = rows[b].key
  BY DEF Unpacked
<1> QED BY <1>1, <1>2

LEMMA PackStands ==
  ASSUME TableIInv, raised # "midway", PackRow, NEW S, Standing(S)
  PROVE  Standing(S)' /\ call' = "put"
<1>1. /\ TableTypes /\ TextsCounted /\ call = "pack" /\ course.kind = "insert" /\ call' = "put"
      /\ rows' = rows /\ course' = course
  BY StoreGoesOn DEF TableIInv, Unhurt, CallsInTurn, InCourse, PackRow, Called, KeptByCalls
<1>2. \A a \in DOMAIN rows : Live(a) /\ Live(a)'
  BY <1>1 DEF Live, Rewritten
<1>3. \A a \in DOMAIN rows : TextAt(rows[a].ref)' = TextAt(rows[a].ref)
  BY <1>1, <1>2, LiveRefs DEF PackRow, NewRefs, TextAt, With
<1> QED BY <1>1, <1>2, <1>3, SameRowsRead DEF Standing, Rewritten

LEMMA PutStands ==
  ASSUME TableIInv, raised # "midway", PutRow, NEW S, Standing(S)
  PROVE  Standing(S)' /\ call' \in {"enter", "log"}
<1>1. /\ TableTypes /\ KeysApart /\ RowsReadWell /\ CallsInTurn
      /\ call = "put" /\ course.kind \in {"insert", "update"}
      /\ texts' = texts /\ course' = course
      /\ hand.record.key = course.after.key /\ hand.record.key \in Nat
  BY DEF TableIInv, TableTypes, Unhurt, CallsInTurn, InCourse, PutRow, Called, KeptByCalls, Course, Placing, StoredRecord
<1>2. call' \in {"enter", "log"}
  BY <1>1, StoreGoesOn, UpdateGoesOn DEF PutRow, Called
<1>3. PICK at : at \notin DOMAIN rows /\ rows' = With(rows, at, hand.record)
  BY <1>1 DEF PutRow, KeysApart, CallsInTurn, TableTypes
<1>4. /\ DOMAIN rows' = DOMAIN rows \cup {at} /\ rows'[at] = hand.record
      /\ \A a \in DOMAIN rows : rows'[a] = rows[a]
  BY <1>3 DEF With
<1>5. /\ \A a \in DOMAIN rows : Live(a)
      /\ \A a \in DOMAIN rows' : Live(a)'
  BY <1>1, <1>2 DEF Live, Rewritten
<1>6. \A record : Unpacked(record)' = Unpacked(record)
  BY <1>1 DEF Unpacked, TextAt
<1>7. Unpacked(hand.record) = course.after
  BY <1>1 DEF RowsReadWell, Placing
<1>8. LiveRows' = LiveRows \cup {course.after}
  BY <1>4, <1>5, <1>6, <1>7 DEF LiveRows
<1> QED BY <1>1, <1>2, <1>8 DEF Standing, Rewritten, Result, Gone, Made

LEMMA EnterStands ==
  ASSUME TableIInv, NEW column \in Columns, EnterIndex(column), NEW S, Standing(S)
  PROVE  Standing(S)' /\ call' \in {"enter", "log"}
<1>1. /\ call = "enter" /\ course.kind \in {"insert", "update"}
      /\ rows' = rows /\ texts' = texts /\ course' = course
  BY DEF TableIInv, CallsInTurn, InCourse, Course, EnterIndex, CalledFor, KeptByCalls
<1>2. call' \in {"enter", "log"}
  BY <1>1, StoreGoesOn, UpdateGoesOn DEF EnterIndex, CalledFor
<1> QED BY <1>1, <1>2 DEF Standing, LiveRows, Live, Rewritten, Unpacked, TextAt

LEMMA LeaveStands ==
  ASSUME TableIInv, NEW column \in Columns, LeaveIndex(column), NEW S, Standing(S)
  PROVE  Standing(S)' /\ call' \in {"leave", "take", "repack"}
<1>1. /\ call = "leave" /\ course.kind \in {"delete", "update"}
      /\ rows' = rows /\ texts' = texts /\ course' = course
  BY DEF TableIInv, CallsInTurn, InCourse, Course, LeaveIndex, CalledFor, KeptByCalls
<1>2. call' = "leave" \/ call' = IF course.kind = "delete" THEN "take" ELSE "repack"
  BY <1>1, DeleteGoesOn, UpdateGoesOn DEF LeaveIndex, CalledFor
<1> QED BY <1>1, <1>2 DEF Standing, LiveRows, Live, Rewritten, Unpacked, TextAt

LEMMA TakeStands ==
  ASSUME TableIInv, raised # "midway", TakeRow, NEW S, Standing(S)
  PROVE  Standing(S)' /\ call' \in {"release", "put"}
<1>1. /\ TableTypes /\ KeysApart /\ Pending /\ Intact(course)
      /\ call = "take" /\ course.kind \in {"delete", "update"}
      /\ texts' = texts /\ course' = course /\ rows' = Without(rows, course.at)
  BY DEF TableIInv, Unhurt, CallsInTurn, InCourse, TakeRow, Called, KeptByCalls, Course
<1>2. call' = IF course.kind = "delete" THEN "release" ELSE "put"
  BY <1>1, DeleteGoesOn, UpdateGoesOn DEF TakeRow, Called
<1>3. /\ DOMAIN rows' = DOMAIN rows \ {course.at}
      /\ \A a \in DOMAIN rows' : rows'[a] = rows[a] /\ Live(a) /\ Live(a)'
  BY <1>1, <1>2 DEF Without, Live, Rewritten
<1>4. \A record : Unpacked(record)' = Unpacked(record)
  BY <1>1 DEF Unpacked, TextAt
<1>5. CASE course.kind = "delete"
  <2>1. course.before = Unpacked(rows[course.at]) /\ course.at \in DOMAIN rows /\ Live(course.at)
    BY <1>1, <1>5 DEF Pending, Intact, Live, Rewritten
  <2>2. LiveRows' = LiveRows \ {course.before}
    BY <1>1, <1>3, <1>4, <2>1, OtherRowsAreOther DEF LiveRows
  <2> QED BY <1>1, <1>2, <1>5, <2>2 DEF Standing, Rewritten, Result, Gone, Made
<1>6. CASE course.kind = "update"
  <2>1. ~Live(course.at)
    BY <1>1, <1>6 DEF Live, Rewritten
  <2>2. LiveRows' = LiveRows
    BY <1>3, <1>4, <2>1 DEF LiveRows, Live
  <2> QED BY <1>1, <1>2, <1>6, <2>2 DEF Standing, Rewritten
<1> QED BY <1>1, <1>2, <1>5, <1>6

LEMMA ReleaseStands ==
  ASSUME TableIInv, raised # "midway", ReleaseTexts, NEW S, Standing(S)
  PROVE  Standing(S)' /\ call' = "log"
<1>1. /\ TableTypes /\ TextsCounted /\ call = "release" /\ course.kind = "delete" /\ call' = "log"
      /\ rows' = rows /\ course' = course /\ texts' = Without(texts, course.record.ref)
  BY DeleteGoesOn DEF TableIInv, Unhurt, CallsInTurn, InCourse, ReleaseTexts, Called, KeptByCalls
<1>2. \A a \in DOMAIN rows : Live(a) /\ Live(a)'
  BY <1>1 DEF Live, Rewritten
<1>3. Loose = course.record.ref
  BY <1>1 DEF Loose, Placing, Rewritten
<1>4. \A a \in DOMAIN rows : TextAt(rows[a].ref)' = TextAt(rows[a].ref)
  BY <1>1, <1>2, <1>3, LiveRefs DEF TextAt, Without
<1> QED BY <1>1, <1>2, <1>4, SameRowsRead DEF Standing, Rewritten

LEMMA RepackStands ==
  ASSUME TableIInv, raised # "midway", RepackRow, NEW S, Standing(S)
  PROVE  Standing(S)' /\ call' \in {"rewrite", "take"}
<1> DEFINE ref == course.record.ref
<1>1. /\ TableTypes /\ TextsCounted /\ KeysApart /\ Pending /\ Intact(course)
      /\ call = "repack" /\ course.kind = "update" /\ rows' = rows /\ course' = course
  BY DEF TableIInv, Unhurt, CallsInTurn, InCourse, RepackRow, Called, KeptByCalls, Course
<1>2. call' \in {"rewrite", "take"}
  BY <1>1, UpdateGoesOn DEF RepackRow, Called
<1>3. \A a \in DOMAIN rows : Live(a) /\ (Live(a)' <=> a # course.at)
  BY <1>1, <1>2 DEF Live, Rewritten
<1>4. \A a \in DOMAIN rows : a # course.at => rows[a].ref # ref \/ ref = 0
  BY <1>1, <1>3 DEF TextsCounted, Intact
<1>5. PICK place \in Nat :
        /\ place # 0 => place = ref \/ place \notin DOMAIN texts
        /\ texts' = IF place = 0 THEN Without(texts, ref) ELSE With(Without(texts, ref), place, course.after.text)
  BY <1>1 DEF RepackRow, NewRefs, Intact, TableTypes, Record
<1>6. \A a \in DOMAIN rows : a # course.at => TextAt(rows[a].ref)' = TextAt(rows[a].ref)
  BY <1>1, <1>3, <1>4, <1>5, LiveRefs DEF TextAt, With, Without
<1>7. course.before = Unpacked(rows[course.at]) /\ course.at \in DOMAIN rows
  BY <1>1 DEF Pending, Intact
<1>8. LiveRows = {Unpacked(rows[a]) : a \in DOMAIN rows}
  BY <1>3 DEF LiveRows
<1>9. LiveRows' = {Unpacked(rows[a]) : a \in DOMAIN rows \ {course.at}}
  BY <1>1, <1>3, <1>6 DEF LiveRows, Unpacked
<1>10. LiveRows' = LiveRows \ {course.before}
  BY <1>1, <1>7, <1>8, <1>9, OtherRowsAreOther
<1> QED BY <1>1, <1>2, <1>10 DEF Standing, Rewritten

LEMMA RewriteStands ==
  ASSUME TableIInv, raised # "midway", RewriteRow, NEW S, Standing(S)
  PROVE  Standing(S)' /\ call' \in {"enter", "log"}
<1>1. /\ TableTypes /\ RowsReadWell /\ Intact(course)
      /\ call = "rewrite" /\ course.kind = "update" /\ course' = course
      /\ texts' = texts /\ rows' = [rows EXCEPT ![course.at] = hand.record]
  BY DEF TableIInv, Unhurt, CallsInTurn, InCourse, RewriteRow, Called, KeptByCalls
<1>2. call' \in {"enter", "log"}
  BY <1>1, UpdateGoesOn DEF RewriteRow, Called
<1>3. /\ DOMAIN rows' = DOMAIN rows /\ course.at \in DOMAIN rows /\ rows'[course.at] = hand.record
      /\ \A a \in DOMAIN rows : a # course.at => rows'[a] = rows[a]
  BY <1>1 DEF Intact, TableTypes
<1>4. /\ \A a \in DOMAIN rows : Live(a) <=> a # course.at
      /\ \A a \in DOMAIN rows : Live(a)'
  BY <1>1, <1>2, <1>3 DEF Live, Rewritten
<1>5. \A record : Unpacked(record)' = Unpacked(record)
  BY <1>1 DEF Unpacked, TextAt
<1>6. Unpacked(hand.record) = course.after
  BY <1>1 DEF RowsReadWell, Placing, Rewritten
<1>7. LiveRows' = LiveRows \cup {course.after}
  BY <1>3, <1>4, <1>5, <1>6 DEF LiveRows
<1> QED BY <1>1, <1>2, <1>7 DEF Standing, Rewritten, Result, Gone, Made

LEMMA CallGoesOn ==
  ASSUME TableIInv, InCourse, NEW states, Moment(states), call' # "none",
         UNCHANGED <<log, course, KeptByCalls>>, NEW S, S = states[Len(log)], Standing(S)'
  PROVE  Moment(states)'
<1>1. /\ UNCHANGED <<log, course, organization, undoing, mark, raised, began, todo>> /\ call # "none"
      /\ course \in Course
  BY DEF KeptByCalls, InCourse, TableIInv, CallsInTurn
<1>2. KeyOrCodeStays' <=> KeyOrCodeStays
  BY <1>1 DEF KeyOrCodeStays
<1>3. History(states)' /\ Begun(states)'
  BY <1>1, <1>2 DEF Moment, History, Begun, Idle, CodesOnce
<1>4. Coming' = Coming
  BY <1>1 DEF Coming
<1>5. GoesWell(S)'
  BY <1>1, <1>2, <1>4 DEF Moment, GoesWell, Final, CodesOnce
<1>6. GoesBack(states)'
  BY <1>1 DEF Moment, GoesBack, UndoneDownTo
<1> QED BY <1>1, <1>3, <1>5, <1>6 DEF Moment

LEMMA CallsGoOn ==
  ASSUME TableIInv, raised # "midway", NEW states, Moment(states),
         \/ PackRow \/ PutRow \/ TakeRow \/ ReleaseTexts \/ RepackRow \/ RewriteRow
         \/ \E column \in Columns : EnterIndex(column) \/ LeaveIndex(column)
  PROVE  Moment(states)'
<1>0. PICK S : S = states[Len(log)]
  OBVIOUS
<1>1. Standing(S)
  BY <1>0 DEF Moment
<1>2. InCourse /\ UNCHANGED <<log, course, KeptByCalls>>
  BY DEF InCourse, PackRow, PutRow, TakeRow, ReleaseTexts, RepackRow, RewriteRow, EnterIndex, LeaveIndex, Called, CalledFor
<1>3. Standing(S)' /\ call' # "none"
  <2>1. CASE PackRow BY <1>1, <2>1, PackStands
  <2>2. CASE PutRow BY <1>1, <2>2, PutStands
  <2>3. CASE TakeRow BY <1>1, <2>3, TakeStands
  <2>4. CASE ReleaseTexts BY <1>1, <2>4, ReleaseStands
  <2>5. CASE RepackRow BY <1>1, <2>5, RepackStands
  <2>6. CASE RewriteRow BY <1>1, <2>6, RewriteStands
  <2>7. CASE \E column \in Columns : EnterIndex(column) \/ LeaveIndex(column)
    <3>1. ASSUME NEW column \in Columns, EnterIndex(column) PROVE Standing(S)' /\ call' # "none"
      BY <1>1, <3>1, EnterStands
    <3>2. ASSUME NEW column \in Columns, LeaveIndex(column) PROVE Standing(S)' /\ call' # "none"
      BY <1>1, <3>2, LeaveStands
    <3> QED BY <2>7, <3>1, <3>2
  <2> QED BY <2>1, <2>2, <2>3, <2>4, <2>5, <2>6, <2>7
<1> QED BY <1>0, <1>2, <1>3, CallGoesOn

-----------------------------------------------------------------------------
\* Between two changes every row stands, and no two have one key.
LEMMA AllRowsStand ==
  ASSUME TableIInv, raised # "midway", call \in {"none", "log"}
  PROVE  LiveRows = LogicalRows /\ LiveRows \subseteq Row /\ KeysOnce(LiveRows)
<1>1. RowsReadWell /\ KeysApart /\ \A a \in DOMAIN rows : Live(a)
  BY DEF TableIInv, Unhurt, Live, Rewritten
<1>2. LiveRows = LogicalRows
  BY <1>1 DEF LiveRows, LogicalRows
<1>3. LiveRows \subseteq Row
  BY <1>1 DEF LiveRows, RowsReadWell
<1>4. ASSUME NEW r \in LogicalRows, NEW s \in LogicalRows, r.key = s.key PROVE r = s
  <2>1. PICK a \in DOMAIN rows, b \in DOMAIN rows : r = Unpacked(rows[a]) /\ s = Unpacked(rows[b])
    BY DEF LogicalRows
  <2>2. r.key = rows[a].key /\ s.key = rows[b].key
    BY <2>1 DEF Unpacked
  <2> QED BY <1>1, <1>4, <2>1, <2>2 DEF KeysApart
<1> QED BY <1>2, <1>3, <1>4 DEF KeysOnce

\* What a statement will leave is the same before and after one of its changes.
LEMMA FinalStays ==
  ASSUME NEW S, NEW T, T = Result(S, course), undoing = "nothing", call # "none", KeepsKey(course),
         course.kind \in {"insert", "delete", "update"},
         \A c \in todo : c.kind # "insert" => course.kind # "insert" /\ c.before.key # course.before.key,
         todo' = todo, undoing' = undoing, call' = "none"
  PROVE  Final(T)' = Final(S)
<1> DEFINE A == {c.before : c \in {c \in todo : c.kind # "insert"}}
           B == {c.after : c \in {c \in todo : c.kind # "delete"}}
<1>1. Coming = todo \cup {course} /\ Coming' = todo
  BY DEF Coming
<1>2. {c.before : c \in {c \in Coming : c.kind # "insert"}} = A \cup Gone(course)
  BY <1>1 DEF Gone
<1>3. {c.after : c \in {c \in Coming : c.kind # "delete"}} = B \cup Made(course)
  BY <1>1 DEF Made
<1>4. Made(course) \cap A = {}
  BY DEF Made, KeepsKey
<1>5. Final(S) = (S \ (A \cup Gone(course))) \cup (B \cup Made(course))
  BY <1>2, <1>3 DEF Final
<1>6. Final(T)' = (T \ A) \cup B
  BY <1>1 DEF Final
<1> QED BY <1>4, <1>5, <1>6 DEF Result

\* A change is noted: the rows that stand are those of one more state.
LEMMA NoteGoesOn ==
  ASSUME TableIInv, raised # "midway", NEW states, Moment(states), NoteChange
  PROVE  \E later : Moment(later)'
<1>1. PICK N, S, T, change, c :
        /\ N = Len(log) /\ S = states[N] /\ T = Result(S, course) /\ c = course
        /\ change = [kind |-> course.kind, before |-> course.before, after |-> course.after]
  OBVIOUS
<1> DEFINE later == [n \in 0..(N + 1) |-> IF n <= N THEN states[n] ELSE T]
<1>2. /\ TableTypes /\ CallsInTurn /\ course \in Course /\ KeepsKey(course)
      /\ call = "log" /\ undoing = "nothing" /\ course' = NoCourse /\ call' = "none"
      /\ log' = Append(log, change)
      /\ UNCHANGED <<rows, texts, organization, undoing, mark, raised, began, todo>>
  BY <1>1 DEF TableIInv, TableTypes, CallsInTurn, NoteChange, NothingInCourse, KeptByCalls
<1>3. /\ N \in Nat /\ Len(log') = N + 1 /\ log'[N + 1] = change
      /\ \A n \in 1..N : log'[n] = log[n]
  BY <1>1, <1>2 DEF TableTypes
<1>4. /\ History(states) /\ Begun(states) /\ Standing(S) /\ Fits(S, course) /\ GoesWell(S)
  BY <1>1, <1>2 DEF Moment
<1>5. course.kind \in {"insert", "delete", "update"} /\ course \in Coming /\ Coming = todo \cup {course}
  BY <1>2 DEF Course, Coming
<1>6. LiveRows = T /\ T \subseteq Row /\ KeysOnce(T)
  BY <1>1, <1>2, <1>4, AllRowsStand DEF Standing, Rewritten
<1>7. LiveRows' = T
  BY <1>2, <1>6 DEF LiveRows, Live, Rewritten, Unpacked, TextAt
<1>8. /\ Fits(S, change) /\ Result(S, change) = T /\ change.kind = course.kind
  BY <1>1, <1>4 DEF Fits, Result, Gone, Made
<1>9. KeyOrCodeStays' <=> KeyOrCodeStays
  BY <1>2 DEF KeyOrCodeStays
<1>10. \A R : CodesOnce(R)' <=> CodesOnce(R)
  BY <1>2 DEF CodesOnce
<1>11. /\ states \in [0..N -> SUBSET Row] /\ later \in [0..(N + 1) -> SUBSET Row]
       /\ later[N + 1] = T /\ \A n \in 0..N : later[n] = states[n]
  BY <1>1, <1>3, <1>4, <1>6 DEF History
<1> HIDE DEF later
<1>12. History(later)'
  <2>1. later[0] = began
    BY <1>3, <1>4, <1>11 DEF History
  <2>2. ASSUME NEW n \in 1..(N + 1)
        PROVE  /\ Fits(later[n - 1], log'[n]) /\ later[n] = Result(later[n - 1], log'[n])
               /\ KeyOrCodeStays /\ log'[n].kind = "delete" => CodesOnce(later[n - 1])
    <3>1. CASE n \in 1..N
      BY <1>1, <1>3, <1>4, <1>11, <3>1 DEF History
    <3>2. CASE n = N + 1
      BY <1>1, <1>3, <1>2, <1>4, <1>5, <1>8, <1>11, <3>2 DEF GoesWell
    <3> QED BY <1>3, <2>2, <3>1, <3>2
  <2>3. ASSUME NEW n \in 0..(N + 1) PROVE KeysOnce(later[n])
    BY <1>1, <1>3, <1>4, <1>6, <1>11, <2>3 DEF History
  <2> QED BY <1>2, <1>3, <1>9, <1>10, <1>11, <2>1, <2>2, <2>3 DEF History
<1>13. Begun(later)'
  <2>1. mark \in 0..N /\ CodesOnce(states[mark])
    BY <1>1, <1>2, <1>3, <1>4 DEF Begun, Idle, TableTypes
  <2> QED BY <1>2, <1>3, <1>4, <1>10, <1>11, <2>1 DEF Begun
<1>14. Standing(T)'
  BY <1>2, <1>7 DEF Standing, Rewritten
<1>15. GoesWell(T)'
  <2>1. Final(T)' = Final(S) /\ Coming' = todo
    BY <1>1, <1>2, <1>4, <1>5, FinalStays DEF GoesWell, Coming
  <2>2. ASSUME KeyOrCodeStays, NEW d \in todo, d.kind = "delete" PROVE CodesOnce(T)
    <3>1. CodesOnce(S) /\ course.kind # "insert"
      BY <1>2, <1>4, <1>5, <2>2 DEF GoesWell
    <3>2. CASE course.kind = "delete"
      BY <1>1, <3>1, <3>2 DEF CodesOnce, Result, Gone, Made
    <3>3. CASE course.kind = "update"
      <4>1. organization = "heap" => course.before.code = course.after.code
        BY <1>2, <1>4, <1>5, <2>2, <3>3 DEF GoesWell
      <4>2. course.before \in S /\ T = (S \ {course.before}) \cup {course.after}
        BY <1>1, <1>4, <3>3 DEF Fits, Result, Gone, Made
      <4> QED BY <3>1, <4>1, <4>2 DEF CodesOnce
    <3> QED BY <1>5, <3>1, <3>2, <3>3
  <2> QED BY <1>2, <1>4, <1>5, <1>9, <1>10, <2>1, <2>2 DEF GoesWell
<1> QED
  <2>1. later[Len(log')] = T
    BY <1>3, <1>11
  <2> QED BY <1>2, <1>12, <1>13, <1>14, <1>15, <2>1 DEF Moment, GoesBack

\* A change that is undone leaves the log, and the last state goes.
LEMMA PopGoesOn ==
  ASSUME TableIInv, raised # "midway", NEW states, Moment(states), PopChange
  PROVE  \E later : Moment(later)'
<1>1. PICK N, T : N = Len(log) /\ T = states[N - 1]
  OBVIOUS
<1> DEFINE later == [n \in 0..(N - 1) |-> states[n]]
<1>2. /\ TableTypes /\ CallsInTurn
      /\ call = "log" /\ undoing # "nothing" /\ course' = NoCourse /\ call' = "none" /\ log' = Front(log)
      /\ UNCHANGED <<rows, texts, organization, undoing, mark, raised, began, todo>>
  BY DEF TableIInv, PopChange, NothingInCourse, KeptByCalls
<1>3. /\ History(states) /\ Begun(states) /\ Standing(states[N])
      /\ N > UndoneDownTo /\ Result(states[N], course) = T
  BY <1>1, <1>2 DEF Moment, GoesBack
<1>4. N \in Nat \ {0} /\ mark \in Nat
  BY <1>1, <1>2, <1>3 DEF UndoneDownTo, TableTypes
<1>5. Len(log') = N - 1 /\ \A n \in 1..(N - 1) : log'[n] = log[n]
  BY <1>1, <1>2, <1>4 DEF Front, TableTypes
<1>6. LiveRows' = LiveRows /\ LiveRows = T
  <2>1. LiveRows' = LiveRows
    BY <1>2 DEF LiveRows, Live, Rewritten, Unpacked, TextAt
  <2> QED BY <1>2, <1>3, <2>1 DEF Standing, Rewritten
<1>7. KeyOrCodeStays' <=> KeyOrCodeStays
  BY <1>2 DEF KeyOrCodeStays
<1>8. \A R : CodesOnce(R)' <=> CodesOnce(R)
  BY <1>2 DEF CodesOnce
<1>9. /\ later \in [0..(N - 1) -> SUBSET Row] /\ \A n \in 0..(N - 1) : later[n] = states[n]
  BY <1>1, <1>3, <1>4 DEF History
<1> HIDE DEF later
<1>10. History(later)'
  <2>1. \A n \in 1..(N - 1) : n \in 1..N /\ n \in 0..(N - 1) /\ n - 1 \in 0..(N - 1)
    BY <1>4
  <2>2. \A n \in 0..(N - 1) : n \in 0..N
    BY <1>4
  <2>3. 0 \in 0..(N - 1)
    BY <1>4
  <2>4. later[0] = began
    BY <1>3, <1>9, <2>3 DEF History
  <2>5. ASSUME NEW n \in 1..(N - 1)
        PROVE  /\ Fits(later[n - 1], log'[n]) /\ later[n] = Result(later[n - 1], log'[n])
               /\ KeyOrCodeStays /\ log'[n].kind = "delete" => CodesOnce(later[n - 1])
    <3>1. log'[n] = log[n] /\ later[n] = states[n] /\ later[n - 1] = states[n - 1] /\ n \in 1..N
      BY <1>5, <1>9, <2>1
    <3> QED BY <1>1, <1>3, <3>1 DEF History
  <2>6. \A n \in 0..(N - 1) : KeysOnce(later[n])
    BY <1>1, <1>3, <1>9, <2>2 DEF History
  <2> QED BY <1>2, <1>5, <1>7, <1>8, <1>9, <2>4, <2>5, <2>6 DEF History
<1>11. Begun(later)'
  <2>1. undoing # "transaction" => mark \in 0..(N - 1) /\ CodesOnce(states[mark])
    BY <1>1, <1>2, <1>3, <1>4 DEF Begun, Idle, UndoneDownTo, TableTypes
  <2> QED BY <1>2, <1>3, <1>5, <1>8, <1>9, <2>1 DEF Begun
<1>12. later[Len(log')] = T /\ Standing(T)'
  BY <1>1, <1>2, <1>4, <1>5, <1>6, <1>9 DEF Standing, Rewritten
<1> QED BY <1>2, <1>10, <1>11, <1>12 DEF Moment, GoesWell, GoesBack

\* A change of a row begins: of those of the statement, or one that undoes another.
LEMMA BeginsGoesOn ==
  ASSUME call = "none", NEW states, Moment(states), ~Idle, NEW change \in Course, Begins(change),
         UNCHANGED <<organization, rows, texts, log, undoing, mark, raised, began>>,
         NEW S, S = states[Len(log)], Fits(S, change), GoesWell(S)',
         undoing # "nothing" => Len(log) > UndoneDownTo /\ Result(S, change) = states[Len(log) - 1]
  PROVE  Moment(states)'
<1>1. /\ course' = change /\ change.kind \in {"insert", "delete", "update"}
      /\ change.kind = "insert" => call' = "pack"
      /\ change.kind = "delete" => call' \in {"take", "leave"}
      /\ change.kind = "update" => call' \in {"repack", "leave"}
  BY StoreGoesOn, DeleteGoesOn, UpdateGoesOn DEF Begins, Course
<1>2. KeyOrCodeStays' <=> KeyOrCodeStays
  BY DEF KeyOrCodeStays
<1>3. History(states)' /\ Begun(states)'
  BY <1>2 DEF Moment, History, Begun, CodesOnce
<1>4. Standing(S)'
  <2>1. LiveRows = S
    BY DEF Moment, Standing, Rewritten
  <2>2. LiveRows' = LiveRows
    BY <1>1 DEF LiveRows, Live, Rewritten, Unpacked, TextAt
  <2> QED BY <1>1, <2>1, <2>2 DEF Standing, Rewritten
<1>5. GoesBack(states)'
  BY <1>1 DEF GoesBack, UndoneDownTo
<1> QED BY <1>1, <1>3, <1>4, <1>5 DEF Moment

\* A change whose row is there fits the rows, and so does a row with a new key.
LEMMA RowsTakeTheChange ==
  ASSUME TableIInv, raised # "midway", call = "none", NEW S, Standing(S), NEW change \in Course, KeepsKey(change),
         change.kind # "insert" => Intact(change) /\ change.before = Unpacked(change.record),
         change.kind = "insert" => \A a \in DOMAIN rows : rows[a].key # change.after.key
  PROVE  Fits(S, change)
<1>1. /\ S = LogicalRows /\ KeysOnce(S)
  BY AllRowsStand DEF Standing, Rewritten
<1>2. \A r \in S : \E a \in DOMAIN rows : r.key = rows[a].key
  BY <1>1 DEF LogicalRows, Unpacked
<1>3. change.kind # "insert" => change.before \in S
  BY <1>1 DEF LogicalRows, Intact
<1>4. change.kind \in {"insert", "delete", "update"}
  BY DEF Course
<1>5. CASE change.kind = "insert"
  BY <1>2, <1>5 DEF Fits, Gone, Made
<1>6. CASE change.kind = "delete"
  BY <1>3, <1>6 DEF Fits, Gone, Made
<1>7. CASE change.kind = "update"
  BY <1>1, <1>3, <1>7 DEF Fits, Gone, Made, KeysOnce, KeepsKey
<1> QED BY <1>4, <1>5, <1>6, <1>7

LEMMA NextRowGoesOn ==
  ASSUME TableIInv, raised # "midway", NEW states, Moment(states), NEW change \in todo, NextRow(change)
  PROVE  Moment(states)'
<1>1. /\ call = "none" /\ Begins(change) /\ todo' = todo \ {change} /\ course' = change /\ call' # "none"
      /\ UNCHANGED <<organization, rows, texts, log, undoing, mark, raised, began>>
      /\ \A other \in todo : Turn[change.kind] <= Turn[other.kind]
  <2>1. change.kind \in {"insert", "delete", "update"}
    BY DEF TableIInv, TableTypes, Course
  <2>2. CallAfter(change, "start") # "none"
    BY <2>1, StoreGoesOn, DeleteGoesOn, UpdateGoesOn
  <2> QED BY <2>2 DEF NextRow, Begins
<1>2. /\ change \in Course /\ todo \subseteq Course /\ KeepsKey(change) /\ undoing = "nothing" /\ ~Idle
      /\ KeysApart /\ Pending
  BY DEF TableIInv, TableTypes, CallsInTurn, Unhurt, Idle
<1>3. change.kind = "insert" => \A c \in todo : c.kind = "insert"
  <2>1. Turn.update = 1 /\ Turn.delete = 2 /\ Turn.insert = 3
    BY DEF Turn
  <2>2. \A c \in todo : c.kind \in {"insert", "delete", "update"}
    BY <1>2 DEF Course
  <2> QED BY <1>1, <2>1, <2>2
<1>4. change.kind = "insert" => \A a \in DOMAIN rows : rows[a].key # change.after.key
  BY <1>1, <1>2, <1>3 DEF KeysApart, Leaving
<1>5. \A c \in todo : c.kind # "insert" => Intact(c) /\ c.before = Unpacked(c.record)
  BY <1>2 DEF Pending
<1>6. PICK S : S = states[Len(log)]
  OBVIOUS
<1>7. Standing(S) /\ GoesWell(S)
  BY <1>6 DEF Moment
<1>8. Fits(S, change)
  BY <1>1, <1>2, <1>4, <1>5, <1>7, RowsTakeTheChange
<1>9. GoesWell(S)'
  <2>1. Coming' = Coming
    BY <1>1, <1>2 DEF Coming
  <2>2. ASSUME NEW c \in todo', c.kind # "insert"
        PROVE  change.kind # "insert" /\ c.before.key # change.before.key
    <3>1. change.kind # "insert" /\ c \in todo /\ c # change
      BY <1>1, <1>3, <2>2
    <3>2. c.at # change.at /\ Intact(c) /\ Intact(change)
      BY <1>2, <1>5, <2>2, <3>1 DEF Pending
    <3>3. c.before.key = rows[c.at].key /\ change.before.key = rows[change.at].key
      BY <3>2 DEF Intact
    <3> QED BY <1>2, <3>1, <3>2, <3>3 DEF Intact, KeysApart
  <2>3. CodesOnce(Final(S))' <=> CodesOnce(Final(S))
    BY <1>1, <2>1 DEF CodesOnce, Final
  <2>4. (CodesOnce(S)' <=> CodesOnce(S)) /\ (KeyOrCodeStays' <=> KeyOrCodeStays)
    BY <1>1 DEF CodesOnce, KeyOrCodeStays
  <2> QED BY <1>1, <1>2, <1>7, <2>1, <2>2, <2>3, <2>4 DEF GoesWell
<1> QED BY <1>1, <1>2, <1>6, <1>8, <1>9, BeginsGoesOn

LEMMA UndoChangeGoesOn ==
  ASSUME RowAssumption, TableIInv, raised # "midway", NEW states, Moment(states), UndoChange, ~UndoMeetsARepeat
  PROVE  Moment(states)'
<1>1. PICK change, N, S, T : change = NextUndone(log) /\ N = Len(log) /\ S = states[N] /\ T = states[N - 1]
  OBVIOUS
<1>2. /\ TableTypes /\ CallsInTurn /\ undoing # "nothing" /\ call = "none" /\ N > UndoneDownTo /\ ~Idle
      /\ UNCHANGED <<organization, rows, texts, mark, raised, began, todo>>
  BY <1>1 DEF TableIInv, UndoChange, Idle
<1>3. N \in Nat \ {0} /\ N \in 1..N /\ change = log[N] /\ change \in Change /\ KeepsKey(change)
  <2>1. N \in Nat \ {0}
    BY <1>1, <1>2 DEF UndoneDownTo, TableTypes
  <2>2. change = log[N]
    BY <1>1 DEF NextUndone, Last
  <2> QED BY <1>1, <1>2, <2>1, <2>2 DEF TableTypes
<1>4. Fits(T, change) /\ S = Result(T, change) /\ KeysOnce(S) /\ Standing(S)
  BY <1>1, <1>3 DEF Moment, History
<1>5. S = LogicalRows
  BY <1>2, <1>4, AllRowsStand DEF Standing, Rewritten
<1>6. change.kind # "delete" => Like(change.after) # {}
  <2>1. ASSUME change.kind # "delete" PROVE Like(change.after) # {}
    <3>1. change.after \in S
      BY <1>4, <2>1 DEF Result, Made
    <3>2. PICK a \in DOMAIN rows : change.after = Unpacked(rows[a])
      BY <1>5, <3>1 DEF LogicalRows
    <3>3. rows[a].key = change.after.key
      BY <3>2 DEF Unpacked
    <3> QED BY <1>2, <3>2, <3>3, RowIsFoundByItsKey DEF Like
  <2> QED BY <2>1
<1>7. ASSUME NEW reverse \in Course, Begins(reverse), UNCHANGED <<log, undoing>>,
             Fits(S, reverse), Result(S, reverse) = T
      PROVE  Moment(states)'
  <2>1. GoesWell(S)'
    BY <1>2, <1>7 DEF GoesWell
  <2> QED BY <1>1, <1>2, <1>7, <2>1, BeginsGoesOn
<1>8. ASSUME NEW at \in Like(change.after)
      PROVE  /\ UpdateOf(at, change.before) \in Course /\ DeleteOf(at) \in Course
             /\ DeleteOf(at).kind = "delete" /\ DeleteOf(at).before = change.after
             /\ UpdateOf(at, change.before).kind = "update" /\ UpdateOf(at, change.before).before = change.after
             /\ UpdateOf(at, change.before).after = change.before
  <2>1. at \in DOMAIN rows /\ Unpacked(rows[at]) = change.after
    BY <1>8, FoundRowIsThere
  <2>2. at \in Nat /\ rows[at] \in StoredRecord
    BY <1>2, <2>1 DEF TableTypes, Record, StoredRecord
  <2>3. change.before \in Row /\ change.after \in Row
    BY <1>3 DEF Change
  <2> QED BY <2>1, <2>2, <2>3 DEF UpdateOf, DeleteOf, Course
<1>9. CASE change.kind = "insert"
  <2>1. PICK at \in Like(change.after) : Begins(DeleteOf(at)) /\ UNCHANGED <<log, undoing>>
    BY <1>1, <1>6, <1>9 DEF UndoChange, Reverts
  <2>2. Fits(S, DeleteOf(at)) /\ Result(S, DeleteOf(at)) = T
    BY <1>4, <1>8, <1>9 DEF Fits, Result, Gone, Made
  <2> QED BY <1>7, <1>8, <2>1, <2>2
<1>10. CASE change.kind = "update"
  <2>1. PICK at \in Like(change.after) : Begins(UpdateOf(at, change.before)) /\ UNCHANGED <<log, undoing>>
    BY <1>1, <1>6, <1>10 DEF UndoChange, Reverts
  <2>2. Fits(S, UpdateOf(at, change.before)) /\ Result(S, UpdateOf(at, change.before)) = T
    BY <1>4, <1>8, <1>10 DEF Fits, Result, Gone, Made
  <2> QED BY <1>7, <1>8, <2>1, <2>2
<1>11. CASE change.kind = "delete"
  <2>1. Begins(StoreOf(change.before)) /\ UNCHANGED <<log, undoing>>
    BY <1>1, <1>2, <1>11 DEF UndoChange, Reverts, UndoMeetsARepeat
  <2>2. /\ StoreOf(change.before) \in Course /\ StoreOf(change.before).kind = "insert"
        /\ StoreOf(change.before).after = change.before
    BY <1>3 DEF StoreOf, Course, StoredRecord, NoRecord, Change, RowAssumption
  <2>3. Fits(S, StoreOf(change.before)) /\ Result(S, StoreOf(change.before)) = T
    BY <1>4, <1>11, <2>2 DEF Fits, Result, Gone, Made
  <2> QED BY <1>7, <2>1, <2>2, <2>3
<1> QED BY <1>3, <1>9, <1>10, <1>11 DEF Change

\* A code that a row has is in its index.
LEMMA CodeIsFound ==
  ASSUME TableIInv, raised # "midway", call = "none", organization = "heap",
         NEW a \in DOMAIN rows, rows[a].code # 0
  PROVE  Holds("code", rows[a].code)
<1>1. EntriesExact /\ a \in Nat /\ rows[a].code \in Nat
  BY DEF TableIInv, Unhurt, TableTypes, Record
<1>2. ValueIn(rows[a], "code") = rows[a].code /\ ~Absent(a, "code") /\ "code" \in Columns
  BY DEF ValueIn, Absent, Columns
<1>3. <<rows[a].code, a>> \in entries["code"]
  BY <1>1, <1>2 DEF EntriesExact
<1>4. <<rows[a].code, a>>[1] = rows[a].code
  OBVIOUS
<1> QED BY <1>3, <1>4 DEF Holds

\* A batch of one row is rejected only for a value that a row has.
LEMMA WhatRejectsOne ==
  ASSUME RowAssumption, NEW row \in Row, RejectsNew(<<row>>)
  PROVE  Holds("key", row.key) \/ (organization = "heap" /\ row.code # 0 /\ Holds("code", row.code))
<1>1. PICK column \in UniqueColumns :
        Repeats(column, [i \in DOMAIN <<row>> |-> NoRow], [i \in DOMAIN <<row>> |-> <<row>>[i][column]])
  BY DEF RejectsNew
<1>2. DOMAIN <<row>> = {1} /\ <<row>>[1] = row
  OBVIOUS
<1>3. column = "key" \/ (organization = "heap" /\ column = "code")
  BY <1>1 DEF UniqueColumns
<1>4. row[column] # 0 /\ Holds(column, row[column])
  <2>1. PICK before, after : /\ before = [i \in {1} |-> NoRow] /\ after = [i \in {1} |-> <<row>>[i][column]]
                             /\ Repeats(column, before, after)
    BY <1>1, <1>2
  <2>2. DOMAIN after = {1} /\ after[1] = row[column] /\ before[1] = -1
    BY <1>2, <2>1 DEF NoRow
  <2>3. row[column] # -1
    BY <1>3 DEF RowAssumption
  <2>4. {i \in DOMAIN after : after[i] # before[i]} = {1}
    BY <2>2, <2>3
  <2> QED BY <2>1, <2>2, <2>3, <2>4 DEF Repeats
<1> QED BY <1>3, <1>4

\* Where no UPDATE changes a key and a code, what was deleted has its place when it is
\* put back: the rows stand as just after it was deleted.
LEMMA NoRepeatIsMet ==
  ASSUME RowAssumption, TableIInv, raised # "midway", NEW states, Moment(states), KeyOrCodeStays
  PROVE  ~UndoMeetsARepeat
<1>1. SUFFICES ASSUME UndoMeetsARepeat PROVE FALSE
  OBVIOUS
<1>2. PICK change, N, S, T : change = NextUndone(log) /\ N = Len(log) /\ S = states[N] /\ T = states[N - 1]
  OBVIOUS
<1>3. /\ TableTypes /\ call = "none" /\ N > UndoneDownTo
      /\ change.kind = "delete" /\ RejectsNew(<<change.before>>)
  BY <1>1, <1>2 DEF UndoMeetsARepeat, TableIInv
<1>4. N \in Nat \ {0} /\ N \in 1..N /\ N - 1 \in 0..N /\ change = log[N] /\ change \in Change
  <2>1. N \in Nat \ {0}
    BY <1>2, <1>3 DEF UndoneDownTo, TableTypes
  <2>2. change = log[N]
    BY <1>2 DEF NextUndone, Last
  <2> QED BY <1>2, <1>3, <2>1, <2>2 DEF TableTypes
<1>5. Fits(T, change) /\ S = Result(T, change) /\ Standing(S) /\ KeysOnce(T) /\ CodesOnce(T)
  BY <1>2, <1>3, <1>4 DEF Moment, History
<1>6. S = LogicalRows /\ change.before \in T /\ change.before \notin S /\ S \subseteq T /\ change.before \in Row
  BY <1>3, <1>4, <1>5, AllRowsStand DEF Standing, Rewritten, Fits, Result, Gone, Made, Change
<1>7. \A a \in DOMAIN rows : /\ Unpacked(rows[a]) \in S
                             /\ Unpacked(rows[a]).key = rows[a].key /\ Unpacked(rows[a]).code = rows[a].code
  BY <1>6 DEF LogicalRows, Unpacked
<1>8. CASE Holds("key", change.before.key)
  <2>1. PICK a \in AtKey(change.before.key) : TRUE
    BY <1>8 DEF Holds
  <2>2. a \in DOMAIN rows /\ rows[a].key = change.before.key
    <3>1. CASE organization = "heap"
      <4>1. PICK e \in entries["key"] : e[1] = change.before.key /\ e[2] = a
        BY <2>1, <3>1 DEF AtKey
      <4>2. PICK v \in Int, b \in Nat : e = <<v, b>>
        BY <1>3, <4>1 DEF TableTypes, Columns
      <4>3. EntriesTrue /\ "key" \in Columns
        BY DEF TableIInv, Columns
      <4> QED BY <4>1, <4>2, <4>3 DEF EntriesTrue
    <3>2. CASE organization = "bare"
      BY <2>1, <3>2 DEF AtKey
    <3>3. CASE organization = "keyed"
      <4>1. a = change.before.key /\ a \in DOMAIN rows
        BY <2>1, <3>3 DEF AtKey
      <4> QED BY <3>3, <4>1 DEF TableIInv, CallsInTurn
    <3> QED BY <1>3, <3>1, <3>2, <3>3 DEF TableTypes
  <2> QED BY <1>5, <1>6, <1>7, <2>2 DEF KeysOnce
<1>9. CASE organization = "heap" /\ change.before.code # 0 /\ Holds("code", change.before.code)
  <2>1. PICK e \in entries["code"] : e[1] = change.before.code
    BY <1>9 DEF Holds
  <2>2. PICK v \in Int, a \in Nat : e = <<v, a>>
    BY <1>3, <2>1 DEF TableTypes, Columns
  <2>3. EntriesTrue /\ "code" \in Columns
    BY DEF TableIInv, Columns
  <2>4. a \in DOMAIN rows /\ rows[a].code = change.before.code
    BY <2>1, <2>2, <2>3 DEF EntriesTrue
  <2> QED BY <1>5, <1>6, <1>7, <1>9, <2>4 DEF CodesOnce
<1> QED BY <1>3, <1>6, <1>8, <1>9, WhatRejectsOne

-----------------------------------------------------------------------------
\* Between statements the rows are those the log leads to, and no code is twice there.
LEMMA AtRest ==
  ASSUME TableIInv, raised # "midway", NEW states, Moment(states), Idle, NEW S, S = states[Len(log)]
  PROVE  S = LogicalRows /\ S \subseteq Row /\ KeysOnce(S) /\ CodesOnce(S)
<1>1. call = "none" /\ todo = {} /\ undoing = "nothing"
  BY DEF Idle
<1>2. LiveRows = S
  BY <1>1 DEF Moment, Standing, Rewritten
<1>3. Final(S) = S
  BY <1>1 DEF Final, Coming
<1> QED BY <1>1, <1>2, <1>3, AllRowsStand DEF Moment, GoesWell

LEMMA StatementGoesOn ==
  ASSUME TableIInv, NEW states, Moment(states), StatementMayStart, UNCHANGED KeptByStatements, mark' = Len(log),
         NEW S, S = states[Len(log)],
         organization = "heap" =>
           /\ CodesOnce((S \ {c.before : c \in {c \in todo' : c.kind # "insert"}})
                          \cup {c.after : c \in {c \in todo' : c.kind # "delete"}})
           /\ KeyOrCodeStays /\ (\E c \in todo' : c.kind = "delete") =>
                \A c \in todo' : c.kind = "update" => c.before.code = c.after.code
  PROVE  Moment(states)'
<1>1. /\ call = "none" /\ undoing = "nothing" /\ raised # "midway" /\ Idle /\ TableTypes
      /\ UNCHANGED <<organization, rows, texts, log, course, call, undoing, raised, began>>
  BY DEF StatementMayStart, Idle, KeptByStatements, TableIInv
<1>2. CodesOnce(S)
  BY <1>1, AtRest
<1>3. (KeyOrCodeStays' <=> KeyOrCodeStays) /\ \A R : CodesOnce(R)' <=> CodesOnce(R)
  BY <1>1 DEF KeyOrCodeStays, CodesOnce
<1>4. History(states)'
  BY <1>1, <1>3 DEF Moment, History
<1>5. Len(log) \in Nat
  BY <1>1 DEF TableTypes
<1>6. Begun(states)'
  BY <1>1, <1>2, <1>3, <1>5 DEF Moment, Begun
<1>7. Standing(S)'
  BY <1>1 DEF Moment, Standing, LiveRows, Live, Rewritten, Unpacked, TextAt
<1>8. GoesWell(S)'
  <2>1. Coming' = todo'
    BY <1>1 DEF Coming
  <2>2. organization # "heap" => \A R : CodesOnce(R)
    BY DEF CodesOnce
  <2> QED BY <1>1, <1>2, <1>3, <2>1, <2>2 DEF GoesWell, Final
<1> QED BY <1>1, <1>4, <1>6, <1>7, <1>8 DEF Moment, GoesBack

LEMMA InsertAllGoesOn ==
  ASSUME RowAssumption, TableIInv, NEW states, Moment(states), NEW batch \in Batches, InsertAll(batch)
  PROVE  Moment(states)'
<1>1. PICK S : S = states[Len(log)]
  OBVIOUS
<1>2. /\ StatementMayStart /\ UNCHANGED KeptByStatements /\ mark' = Len(log) /\ ~RejectsNew(batch)
      /\ todo' = {StoreOf(batch[i]) : i \in DOMAIN batch} /\ batch \in Seq(Row)
  BY DEF InsertAll, RowAssumption
<1>3. S = LogicalRows /\ CodesOnce(S) /\ raised # "midway" /\ call = "none"
  BY <1>1, <1>2, AtRest DEF StatementMayStart, Idle
<1>4. \A c \in todo' : c.kind = "insert" /\ \E i \in DOMAIN batch : c.after = batch[i]
  BY <1>2 DEF StoreOf
<1>5. ASSUME organization = "heap"
      PROVE  CodesOnce((S \ {c.before : c \in {c \in todo' : c.kind # "insert"}})
                        \cup {c.after : c \in {c \in todo' : c.kind # "delete"}})
  <2> DEFINE before == [n \in DOMAIN batch |-> NoRow]
             after == [n \in DOMAIN batch |-> batch[n].code]
             changing == {n \in DOMAIN after : after[n] # before[n]}
             vacated == {before[n] : n \in changing}
  <2>1. ~Repeats("code", before, after)
    BY <1>2, <1>5 DEF RejectsNew, UniqueColumns
  <2>2. \A n \in DOMAIN batch : batch[n].code \in Nat
    <3>1. TAKE n \in DOMAIN batch
    <3>2. batch[n] \in Row
      BY <1>2
    <3> QED BY <3>2 DEF RowAssumption
  <2>3. changing = DOMAIN batch /\ \A n \in changing : after[n] = batch[n].code /\ after[n] \notin vacated
    <3>1. DOMAIN after = DOMAIN batch /\ \A n \in DOMAIN batch : after[n] = batch[n].code /\ before[n] = -1
      BY DEF NoRow
    <3> HIDE DEF before, after
    <3>2. \A n \in DOMAIN batch : after[n] # before[n]
      BY <2>2, <3>1
    <3>3. changing = DOMAIN batch
      BY <3>1, <3>2
    <3>4. vacated \subseteq {-1}
      BY <3>1, <3>3
    <3> QED BY <2>2, <3>1, <3>3, <3>4
  <2>4. ASSUME NEW i \in DOMAIN batch, batch[i].code # 0
        PROVE  /\ \A j \in DOMAIN batch : j # i => batch[j].code # batch[i].code
               /\ \A r \in S : r.code # batch[i].code
    <3>1. /\ ~\E j \in changing : j # i /\ after[j] = after[i]
          /\ ~Holds("code", after[i])
      BY <2>1, <2>3, <2>4 DEF Repeats
    <3>2. ASSUME NEW r \in S, r.code = batch[i].code PROVE FALSE
      <4>1. PICK a \in DOMAIN rows : r = Unpacked(rows[a])
        BY <1>3 DEF LogicalRows
      <4>2. rows[a].code = batch[i].code
        BY <3>2, <4>1 DEF Unpacked
      <4> QED BY <1>3, <1>5, <2>3, <2>4, <3>1, <4>2, CodeIsFound
    <3> QED BY <2>3, <2>4, <3>1, <3>2
  <2> HIDE DEF before, after, changing, vacated
  <2>5. SUFFICES ASSUME NEW r \in S \cup {batch[i] : i \in DOMAIN batch},
                        NEW s \in S \cup {batch[i] : i \in DOMAIN batch}, r.code = s.code, r.code # 0
                 PROVE  r = s
    <3>1. {c.after : c \in {c \in todo' : c.kind # "delete"}} \subseteq {batch[i] : i \in DOMAIN batch}
      BY <1>4
    <3>2. PICK X : X = (S \ {c.before : c \in {c \in todo' : c.kind # "insert"}})
                        \cup {c.after : c \in {c \in todo' : c.kind # "delete"}}
      OBVIOUS
    <3>3. X \subseteq S \cup {batch[i] : i \in DOMAIN batch}
      BY <3>1, <3>2
    <3>4. SUFFICES CodesOnce(X)
      BY <3>2
    <3> QED BY <3>3 DEF CodesOnce
  <2>6. \A p, q \in S : p.code = q.code /\ p.code # 0 => p = q
    BY <1>3, <1>5 DEF CodesOnce
  <2>7. ASSUME NEW p \in S, NEW i \in DOMAIN batch, p.code = batch[i].code, p.code # 0 PROVE FALSE
    BY <2>4, <2>7
  <2>8. ASSUME NEW i \in DOMAIN batch, NEW j \in DOMAIN batch, batch[i].code = batch[j].code, batch[i].code # 0
        PROVE  i = j
    BY <2>4, <2>8
  <2> QED BY <2>5, <2>6, <2>7, <2>8
<1> QED BY <1>1, <1>2, <1>4, <1>5, StatementGoesOn

LEMMA DeleteWhereGoesOn ==
  ASSUME RowAssumption, TableIInv, NEW states, Moment(states), NEW addresses \in SUBSET DOMAIN rows,
         DeleteWhere(addresses)
  PROVE  Moment(states)'
<1>1. PICK S : S = states[Len(log)]
  OBVIOUS
<1>2. /\ StatementMayStart /\ UNCHANGED KeptByStatements /\ mark' = Len(log)
      /\ \A c \in todo' : c.kind = "delete"
  BY DEF DeleteWhere, DeleteOf, UpdateOf
<1>3. CodesOnce(S)
  BY <1>1, <1>2, AtRest DEF StatementMayStart
<1>4. CodesOnce((S \ {c.before : c \in {c \in todo' : c.kind # "insert"}})
                  \cup {c.after : c \in {c \in todo' : c.kind # "delete"}})
  BY <1>2, <1>3 DEF CodesOnce
<1> QED BY <1>1, <1>2, <1>4, StatementGoesOn

LEMMA UpdateWhereGoesOn ==
  ASSUME RowAssumption, TableIInv, NEW states, Moment(states), NEW addresses \in SUBSET DOMAIN rows,
         NEW transform \in Transforms, UpdateWhere(addresses, transform)
  PROVE  Moment(states)'
<1> DEFINE before == [a \in addresses |-> Unpacked(rows[a])]
           after == [a \in addresses |-> transform[before[a]]]
           moving == {a \in addresses : before[a].key # after[a].key}
           beforeCode == [a \in addresses |-> before[a]["code"]]
           afterCode == [a \in addresses |-> after[a]["code"]]
           changing == {a \in DOMAIN afterCode : afterCode[a] # beforeCode[a]}
           vacated == {beforeCode[a] : a \in changing}
<1>1. PICK S : S = states[Len(log)]
  OBVIOUS
<1>2. /\ StatementMayStart /\ UNCHANGED KeptByStatements /\ mark' = Len(log)
      /\ todo' = {UpdateOf(a, after[a]) : a \in addresses \ moving}
                  \cup {DeleteOf(a) : a \in moving} \cup {StoreOf(after[a]) : a \in moving}
      /\ organization = "heap" => ~Repeats("code", beforeCode, afterCode)
  BY DEF UpdateWhere, UniqueColumns
<1>3. S = LogicalRows /\ S \subseteq Row /\ CodesOnce(S) /\ raised # "midway" /\ call = "none" /\ KeysApart
  BY <1>1, <1>2, AtRest DEF StatementMayStart, Idle, TableIInv, Unhurt
<1>4. \A a \in addresses : /\ before[a] \in S /\ before[a] = Unpacked(rows[a])
                            /\ before[a].key = rows[a].key /\ before[a].code = rows[a].code
                            /\ before[a] \in Row /\ after[a] = transform[before[a]]
  BY <1>3 DEF LogicalRows, Unpacked
<1>5. /\ \A a \in addresses : beforeCode[a] = before[a].code /\ afterCode[a] = after[a].code
      /\ changing = {a \in addresses : after[a].code # before[a].code}
  OBVIOUS
<1>6. \A a \in addresses :
        /\ DeleteOf(a).kind = "delete" /\ DeleteOf(a).before = before[a]
        /\ UpdateOf(a, after[a]).kind = "update" /\ UpdateOf(a, after[a]).before = before[a]
        /\ UpdateOf(a, after[a]).after = after[a]
        /\ StoreOf(after[a]).kind = "insert" /\ StoreOf(after[a]).after = after[a]
  BY <1>4 DEF DeleteOf, UpdateOf, StoreOf
<1>7. \A c \in todo' :
        \/ \E a \in addresses \ moving : c = UpdateOf(a, after[a])
        \/ \E a \in moving : c = DeleteOf(a)
        \/ \E a \in moving : c = StoreOf(after[a])
  BY <1>2
<1>8. moving \subseteq addresses /\ \A a \in moving : after[a].key # before[a].key
  OBVIOUS
<1> HIDE DEF before, after, moving
<1>9. /\ {c.before : c \in {c \in todo' : c.kind # "insert"}} = {before[a] : a \in addresses}
      /\ {c.after : c \in {c \in todo' : c.kind # "delete"}} = {after[a] : a \in addresses}
  <2> DEFINE Taking == {c \in todo' : c.kind # "insert"}
             Putting == {c \in todo' : c.kind # "delete"}
  <2>1. \A a \in addresses : \E c \in Taking : c.before = before[a]
    BY <1>2, <1>6
  <2>2. \A a \in addresses : \E c \in Putting : c.after = after[a]
    BY <1>2, <1>6
  <2>3. \A c \in Taking : \E a \in addresses : c.before = before[a]
    BY <1>6, <1>7, <1>8
  <2>4. \A c \in Putting : \E a \in addresses : c.after = after[a]
    BY <1>6, <1>7, <1>8
  <2> HIDE DEF Taking, Putting
  <2>5. {c.before : c \in Taking} = {before[a] : a \in addresses}
    BY <2>1, <2>3
  <2>6. {c.after : c \in Putting} = {after[a] : a \in addresses}
    BY <2>2, <2>4
  <2> QED BY <2>5, <2>6 DEF Taking, Putting
<1>10. ASSUME KeyOrCodeStays, organization = "heap", NEW d \in todo', d.kind = "delete",
              NEW c \in todo', c.kind = "update"
       PROVE  c.before.code = c.after.code
  <2>1. PICK m \in moving : TRUE
    <3>1. \A a \in addresses : d # UpdateOf(a, after[a])
      BY <1>6, <1>10
    <3> QED BY <1>7, <1>10, <3>1
  <2>2. PICK a \in addresses : c = UpdateOf(a, after[a])
    <3>1. \A a \in moving : c # DeleteOf(a) /\ c # StoreOf(after[a])
      BY <1>6, <1>8, <1>10
    <3> QED BY <1>7, <1>10, <3>1
  <2>3. ~\A row \in Row : transform[row].key = row.key
    <3>1. before[m] \in Row /\ transform[before[m]].key # before[m].key
      BY <1>4, <1>8, <2>1
    <3> QED BY <3>1
  <2>4. \A row \in Row : transform[row].code = row.code
    BY <1>10, <2>3 DEF KeyOrCodeStays
  <2> QED BY <1>4, <1>6, <2>2, <2>4
<1>11. \A r \in S : \E a \in DOMAIN rows : r.key = rows[a].key /\ r.code = rows[a].code
  BY <1>3 DEF LogicalRows, Unpacked
<1>12. ASSUME organization = "heap"
       PROVE  CodesOnce((S \ {before[a] : a \in addresses}) \cup {after[a] : a \in addresses})
  <2>1. ASSUME NEW a \in changing, after[a].code # 0
        PROVE  /\ \A b \in changing : after[b].code = after[a].code => b = a
               /\ \/ \E b \in changing : before[b].code = after[a].code
                  \/ \A r \in S : r.code # after[a].code
    <3>1. /\ ~\E j \in changing : j # a /\ afterCode[j] = afterCode[a]
          /\ afterCode[a] \in vacated \/ ~Holds("code", afterCode[a])
      BY <1>2, <1>5, <1>12, <2>1 DEF Repeats
    <3>2. ASSUME NEW r \in S, r.code = after[a].code PROVE Holds("code", after[a].code)
      BY <1>3, <1>11, <1>12, <2>1, <3>2, CodeIsFound
    <3> QED BY <1>5, <2>1, <3>1, <3>2
  <2>2. \A a, b \in addresses : before[a] = before[b] => a = b
    BY <1>3, <1>4 DEF KeysApart
  <2>3. \A r, s \in S : r.code = s.code /\ r.code # 0 => r = s
    BY <1>3, <1>12 DEF CodesOnce
  <2>4. changing \subseteq addresses /\ \A a \in addresses \ changing : after[a].code = before[a].code
    BY <1>5
  <2>5. ASSUME NEW r \in S, \A a \in addresses : r # before[a], NEW a \in addresses,
               r.code = after[a].code, r.code # 0
        PROVE  FALSE
    <3>1. CASE a \in changing
      <4>1. PICK b \in changing : before[b].code = after[a].code
        BY <2>1, <2>5, <3>1
      <4>2. before[b] = r
        BY <1>4, <2>3, <2>4, <2>5, <4>1
      <4> QED BY <2>4, <2>5, <4>2
    <3>2. CASE a \notin changing
      BY <1>4, <2>3, <2>4, <2>5, <3>2
    <3> QED BY <3>1, <3>2
  <2>6. ASSUME NEW a \in addresses, NEW b \in addresses, after[a].code = after[b].code, after[a].code # 0,
               a # b
        PROVE  FALSE
    <3>1. ASSUME NEW m \in changing, NEW n \in addresses \ changing, after[m].code = after[n].code, after[m].code # 0
          PROVE  FALSE
      <4>1. before[n].code = after[m].code /\ before[n] \in S
        BY <1>4, <2>4, <3>1
      <4>2. PICK i \in changing : before[i].code = after[m].code
        BY <2>1, <3>1, <4>1
      <4>3. before[i] = before[n]
        BY <1>4, <2>3, <2>4, <3>1, <4>1, <4>2
      <4> QED BY <2>2, <2>4, <3>1, <4>3
    <3>2. CASE a \in changing /\ b \in changing
      BY <2>1, <2>6, <3>2
    <3>3. CASE a \notin changing /\ b \notin changing
      BY <1>4, <2>2, <2>3, <2>4, <2>6, <3>3
    <3> QED BY <2>6, <3>1, <3>2, <3>3
  <2> HIDE DEF beforeCode, afterCode, changing, vacated
  <2>7. SUFFICES ASSUME NEW r \in (S \ {before[a] : a \in addresses}) \cup {after[a] : a \in addresses},
                        NEW s \in (S \ {before[a] : a \in addresses}) \cup {after[a] : a \in addresses},
                        r.code = s.code, r.code # 0
                 PROVE  r = s
    BY DEF CodesOnce
  <2> QED BY <2>3, <2>5, <2>6, <2>7
<1> HIDE DEF beforeCode, afterCode, changing, vacated
<1> QED BY <1>1, <1>2, <1>9, <1>10, <1>12, StatementGoesOn

LEMMA UndoEndsGoesOn ==
  ASSUME TableIInv, NEW states, Moment(states), UndoEnds
  PROVE  Moment(states)'
<1>1. PICK S : S = states[Len(log)]
  OBVIOUS
<1>2. /\ undoing # "nothing" /\ call = "none" /\ todo = {} /\ Len(log) <= UndoneDownTo /\ TableTypes /\ ~Idle
      /\ undoing' = "nothing"
      /\ UNCHANGED <<organization, rows, texts, log, todo, course, call, mark, raised, began>>
  BY DEF TableIInv, CallsInTurn, UndoEnds, courseVars, Idle
<1>3. (KeyOrCodeStays' <=> KeyOrCodeStays) /\ \A R : CodesOnce(R)' <=> CodesOnce(R)
  BY <1>2 DEF KeyOrCodeStays, CodesOnce
<1>4. CodesOnce(S)
  <2>1. CASE undoing = "statement"
    <3>1. Len(log) = mark
      BY <1>2, <2>1 DEF Moment, Begun, UndoneDownTo, TableTypes
    <3> QED BY <1>1, <1>2, <2>1, <3>1 DEF Moment, Begun
  <2>2. CASE undoing # "statement"
    <3>1. Len(log) = 0
      BY <1>2, <2>2 DEF UndoneDownTo, TableTypes
    <3> QED BY <1>1, <3>1 DEF Moment, Begun, History
  <2> QED BY <2>1, <2>2
<1>5. History(states)' /\ Begun(states)'
  BY <1>2, <1>3 DEF Moment, History, Begun, Idle
<1>6. Standing(S)'
  BY <1>1, <1>2 DEF Moment, Standing, LiveRows, Live, Rewritten, Unpacked, TextAt
<1>7. GoesWell(S)'
  <2>1. Coming' = {}
    BY <1>2 DEF Coming
  <2>2. Final(S)' = S
    BY <2>1 DEF Final
  <2> QED BY <1>2, <1>3, <1>4, <2>1, <2>2 DEF GoesWell
<1> QED BY <1>1, <1>2, <1>5, <1>6, <1>7 DEF Moment, GoesBack

LEMMA CommitGoesOn ==
  ASSUME TableIInv, raised # "midway", NEW states, Moment(states), CommitRows
  PROVE  \E later : Moment(later)'
<1>1. PICK S, later : S = states[Len(log)] /\ later = [n \in {0} |-> S]
  OBVIOUS
<1>2. /\ Idle /\ call = "none" /\ todo = {} /\ undoing = "nothing"
      /\ log' = <<>> /\ Len(log') = 0 /\ began' = LogicalRows
      /\ UNCHANGED <<organization, rows, texts, todo, course, call, undoing, mark, raised>>
  BY DEF CommitRows, Idle, courseVars
<1>3. S = LogicalRows /\ S \subseteq Row /\ KeysOnce(S) /\ CodesOnce(S)
  BY <1>1, <1>2, AtRest
<1>4. \A R : CodesOnce(R)' <=> CodesOnce(R)
  BY <1>2 DEF CodesOnce
<1>5. 0..0 = {0} /\ 1..0 = {}
  OBVIOUS
<1>6. History(later)'
  BY <1>1, <1>2, <1>3, <1>5 DEF History
<1>7. Begun(later)'
  BY <1>2, <1>3, <1>4 DEF Begun, Idle
<1>8. later[Len(log')] = S /\ Standing(S)'
  BY <1>1, <1>2 DEF Moment, Standing, LiveRows, Live, Rewritten, Unpacked, TextAt
<1>9. GoesWell(S)'
  <2>1. Coming' = {}
    BY <1>2 DEF Coming
  <2>2. Final(S)' = S
    BY <2>1 DEF Final
  <2> QED BY <1>2, <1>3, <1>4, <2>1, <2>2 DEF GoesWell
<1> QED BY <1>2, <1>6, <1>7, <1>8, <1>9 DEF Moment, GoesBack

LEMMA RollbackGoesOn ==
  ASSUME TableIInv, NEW states, Moment(states), RollbackRows
  PROVE  Moment(states)'
<1>1. /\ call = "none" /\ undoing' = "transaction"
      /\ UNCHANGED <<organization, rows, texts, log, todo, course, call, mark, raised, began>>
  BY DEF RollbackRows, Idle, courseVars
<1>2. (KeyOrCodeStays' <=> KeyOrCodeStays) /\ \A R : CodesOnce(R)' <=> CodesOnce(R)
  BY <1>1 DEF KeyOrCodeStays, CodesOnce
<1>3. History(states)' /\ Begun(states)'
  BY <1>1, <1>2 DEF Moment, History, Begun
<1>4. PICK S : S = states[Len(log)]
  OBVIOUS
<1>5. Standing(S)'
  BY <1>1, <1>4 DEF Moment, Standing, LiveRows, Live, Rewritten, Unpacked, TextAt
<1> QED BY <1>1, <1>3, <1>4, <1>5 DEF Moment, GoesWell, GoesBack

\* A call that raises before the first of its change leaves the rows the log leads to.
LEMMA RaiseGoesOn ==
  ASSUME TableIInv, raised' # "midway", NEW states, Moment(states), CallRaises
  PROVE  Moment(states)'
<1>1. InCourse /\ raised = "no" /\ ~halfway /\ UntilHalfway /\ CallsInTurn /\ undoing = "nothing" /\ ~Idle
  <2>1. undoing # "statement" /\ undoing # "transaction" /\ ~halfway /\ raised = "no"
    BY DEF Moment, Begun, CallRaises, TableIInv, TableTypes
  <2> QED BY <2>1 DEF CallRaises, InCourse, TableIInv, TableTypes, Idle
<1>2. /\ raised' = "cleanly" /\ undoing' = "statement" /\ call' = "none" /\ todo' = {} /\ course' = NoCourse
      /\ UNCHANGED <<organization, rows, texts, log, mark, began>>
  BY <1>1 DEF CallRaises, NothingInCourse
<1>3. (KeyOrCodeStays' <=> KeyOrCodeStays) /\ \A R : CodesOnce(R)' <=> CodesOnce(R)
  BY <1>2 DEF KeyOrCodeStays, CodesOnce
<1>4. History(states)' /\ Begun(states)'
  BY <1>1, <1>2, <1>3 DEF Moment, History, Begun
<1>5. PICK S : S = states[Len(log)]
  OBVIOUS
<1>6. LiveRows = S /\ ~Rewritten
  BY <1>1, <1>5 DEF UntilHalfway, CallsInTurn, Moment, Standing, Rewritten
<1>7. Standing(S)'
  BY <1>2, <1>6 DEF Standing, LiveRows, Live, Rewritten, Unpacked, TextAt
<1> QED BY <1>2, <1>4, <1>5, <1>7 DEF Moment, GoesWell, GoesBack

LEMMA NothingGoesOn ==
  ASSUME NEW states, Moment(states), UNCHANGED tableVars PROVE Moment(states)'
<1>1. UNCHANGED <<organization, rows, texts, log, todo, course, call, undoing, mark, raised, began>>
  BY DEF tableVars, courseVars
<1>2. (KeyOrCodeStays' <=> KeyOrCodeStays) /\ \A R : CodesOnce(R)' <=> CodesOnce(R)
  BY <1>1 DEF KeyOrCodeStays, CodesOnce
<1>3. History(states)' /\ Begun(states)'
  BY <1>1, <1>2 DEF Moment, History, Begun, Idle
<1>4. PICK S : S = states[Len(log)]
  OBVIOUS
<1>5. Standing(S)'
  BY <1>1, <1>4 DEF Moment, Standing, LiveRows, Live, Rewritten, Unpacked, TextAt
<1>6. GoesWell(S)' /\ GoesBack(states)'
  <2>1. Coming' = Coming
    BY <1>1 DEF Coming
  <2>2. Final(S)' = Final(S)
    BY <2>1 DEF Final
  <2> QED BY <1>1, <1>2, <1>4, <2>1, <2>2 DEF Moment, GoesWell, GoesBack, UndoneDownTo
<1> QED BY <1>1, <1>3, <1>4, <1>5, <1>6 DEF Moment

-----------------------------------------------------------------------------
LEMMA UndoStarts == ASSUME RowAssumption, TableInit PROVE UndoIInv
<1>1. PICK states : states = [n \in {0} |-> {}]
  OBVIOUS
<1>2. /\ log = <<>> /\ Len(log) = 0 /\ began = {} /\ rows = <<>> /\ DOMAIN rows = {} /\ todo = {} /\ call = "none"
      /\ undoing = "nothing" /\ 0..0 = {0} /\ 1..0 = {} /\ states[0] = {}
  BY <1>1 DEF TableInit
<1>3. History(states) /\ Begun(states)
  BY <1>1, <1>2 DEF History, Begun, KeysOnce, CodesOnce, Idle
<1>4. LiveRows = {} /\ Coming = {}
  BY <1>2 DEF LiveRows, Coming
<1>5. Final({}) = {}
  BY <1>4 DEF Final
<1> QED BY <1>2, <1>3, <1>4, <1>5 DEF UndoIInv, Moment, Standing, Rewritten, GoesWell, GoesBack, CodesOnce

LEMMA UndoStepKeeps ==
  ASSUME RowAssumption, TableIInv, UndoIInv, [TableNext]_tableVars, raised # "midway" => ~UndoMeetsARepeat
  PROVE  UndoIInv'
<1>1. SUFFICES ASSUME raised' # "midway" PROVE \E later : Moment(later)'
  BY DEF UndoIInv
<1>2. raised # "midway"
  BY <1>1 DEF TableNext, tableVars, KeptByCalls, KeptByStatements, PackRow, PutRow, TakeRow, ReleaseTexts, RepackRow,
       RewriteRow, EnterIndex, LeaveIndex, NoteChange, PopChange, InsertAll, DeleteWhere, UpdateWhere, NextRow,
       UndoChange, UndoEnds, CallRaises, CommitRows, RollbackRows
<1>3. PICK states : Moment(states)
  BY <1>2 DEF UndoIInv
<1>4. CASE \/ PackRow \/ PutRow \/ TakeRow \/ ReleaseTexts \/ RepackRow \/ RewriteRow
           \/ \E column \in Columns : EnterIndex(column) \/ LeaveIndex(column)
  BY <1>2, <1>3, <1>4, CallsGoOn
<1>5. CASE NoteChange BY <1>2, <1>3, <1>5, NoteGoesOn
<1>6. CASE PopChange BY <1>2, <1>3, <1>6, PopGoesOn
<1>7. CASE \E batch \in Batches : InsertAll(batch) BY <1>3, <1>7, InsertAllGoesOn
<1>8. CASE \E addresses \in SUBSET DOMAIN rows \ {{}} :
             \/ DeleteWhere(addresses)
             \/ \E transform \in Transforms : UpdateWhere(addresses, transform)
  BY <1>3, <1>8, DeleteWhereGoesOn, UpdateWhereGoesOn
<1>9. CASE \E change \in todo : NextRow(change) BY <1>2, <1>3, <1>9, NextRowGoesOn
<1>10. CASE UndoChange BY <1>2, <1>3, <1>10, UndoChangeGoesOn
<1>11. CASE UndoEnds BY <1>3, <1>11, UndoEndsGoesOn
<1>12. CASE CallRaises BY <1>1, <1>3, <1>12, RaiseGoesOn
<1>13. CASE CommitRows BY <1>2, <1>3, <1>13, CommitGoesOn
<1>14. CASE RollbackRows BY <1>3, <1>14, RollbackGoesOn
<1>15. CASE UNCHANGED tableVars BY <1>3, <1>15, NothingGoesOn
<1> QED
  BY <1>4, <1>5, <1>6, <1>7, <1>8, <1>9, <1>10, <1>11, <1>12, <1>13, <1>14, <1>15 DEF TableNext

LEMMA UndoRestores == ASSUME TableIInv, UndoIInv PROVE UndoRestoresRows
<1>1. SUFFICES ASSUME Idle, raised # "midway" PROVE Reverted(log) = began /\ NothingRepeats
  BY DEF UndoRestoresRows
<1>2. PICK states, S : Moment(states) /\ S = states[Len(log)]
  BY <1>1 DEF UndoIInv
<1>3. S = LogicalRows /\ CodesOnce(S)
  BY <1>1, <1>2, AtRest
<1>4. Reverted(log) = began
  BY <1>2, <1>3, LogTakesBack DEF Moment, TableIInv, TableTypes
<1>5. NothingRepeats
  <2>1. SUFFICES ASSUME NEW a \in DOMAIN rows, NEW b \in DOMAIN rows, a # b, NEW column \in UniqueColumns
                 PROVE  rows[a][column] # rows[b][column] \/ rows[a][column] = 0
    BY DEF NothingRepeats
  <2>2. KeysApart /\ rows[a].key # rows[b].key
    BY <1>1, <2>1 DEF TableIInv, Unhurt, KeysApart
  <2>3. CASE column = "key"
    BY <2>2, <2>3
  <2>4. CASE organization = "heap" /\ column = "code"
    <3>1. Unpacked(rows[a]) \in S /\ Unpacked(rows[b]) \in S /\ Unpacked(rows[a]) # Unpacked(rows[b])
      BY <1>3, <2>1, <2>2, OtherRowsAreOther DEF LogicalRows
    <3>2. Unpacked(rows[a]).code = rows[a].code /\ Unpacked(rows[b]).code = rows[b].code
      BY DEF Unpacked
    <3> QED BY <1>3, <2>4, <3>1, <3>2 DEF CodesOnce
  <2> QED BY <2>1, <2>3, <2>4 DEF UniqueColumns
<1> QED BY <1>4, <1>5

\* If no UPDATE changes a key and a UNIQUE code, a statement that fails before the first
\* call of a change of a row, or a transaction that is rolled back, leaves the rows as
\* they were, and no value is repeated: whatever the rows, the batches and the updates.
THEOREM UndoAlwaysRestores == TableSpec => [](KeyOrCodeStays => UndoRestoresRows)
<1> DEFINE Inv == KeyOrCodeStays => UndoIInv
<1>1. TableInit => Inv BY RowAssumption, UndoStarts
<1>2. TableIInv /\ Inv /\ [TableNext]_tableVars => Inv'
  <2>1. SUFFICES ASSUME TableIInv, Inv, [TableNext]_tableVars, KeyOrCodeStays' PROVE UndoIInv'
    OBVIOUS
  <2>2. organization' = organization
    BY <2>1 DEF TableNext, tableVars, KeptByCalls, KeptByStatements, PackRow, PutRow, TakeRow, ReleaseTexts,
         RepackRow, RewriteRow, EnterIndex, LeaveIndex, NoteChange, PopChange, InsertAll, DeleteWhere, UpdateWhere,
         NextRow, UndoChange, UndoEnds, CallRaises, CommitRows, RollbackRows
  <2>3. KeyOrCodeStays
    BY <2>1, <2>2 DEF KeyOrCodeStays
  <2>4. raised # "midway" => ~UndoMeetsARepeat
    BY <2>1, <2>3, RowAssumption, NoRepeatIsMet DEF UndoIInv
  <2> QED BY <2>1, <2>3, <2>4, RowAssumption, UndoStepKeeps
<1>3. TableIInv /\ Inv => (KeyOrCodeStays => UndoRestoresRows) BY UndoRestores
<1> QED BY <1>1, <1>2, <1>3, TableIInvHolds, PTL DEF TableSpec

\* And whatever the UPDATEs change, until an undoing finds a value of the row that it
\* puts back in another row.
THEOREM UndoRestoresUntilItRepeats == TableSpec /\ []~UndoMeetsARepeat => []UndoRestoresRows
<1>1. TableInit => UndoIInv BY RowAssumption, UndoStarts
<1>2. TableIInv /\ UndoIInv /\ ~UndoMeetsARepeat /\ [TableNext]_tableVars => UndoIInv'
  BY RowAssumption, UndoStepKeeps
<1>3. TableIInv /\ UndoIInv => UndoRestoresRows BY UndoRestores
<1> QED BY <1>1, <1>2, <1>3, TableIInvHolds, PTL DEF TableSpec

=============================================================================
