------------------------- MODULE ExternalAlgorithms -------------------------
(***************************************************************************)
(* The query operators that work in bounded memory: external merge sort,   *)
(* hybrid hash grouping, DISTINCT, and the joins by hash partitions and by *)
(* blocks.  The state is the input they are given, which grows a row at a  *)
(* time; the invariant compares what the algorithms deliver with what SQL  *)
(* asks of them.                                                           *)
(*                                                                         *)
(* A row is its key (0 is NULL) and the place it arrived at, so that two   *)
(* rows are never equal.  A file of records is a sequence of rows, and     *)
(* the salted hash of level n is a bit of the key divided by 2^n: enough   *)
(* for keys that one level separates, that one gathers and that none can.  *)
(***************************************************************************)
EXTENDS Integers, FiniteSets, SequencesExt

CONSTANTS Key,          \* values of the sort, group or join column, 0 among them
          Buffers,      \* records that may fit in the operators' memory
          FanIn,        \* runs that a merge combines
          InputLimit    \* bound: rows of both inputs together

Null == 0
Partitions == 2
None == [key |-> Null, at |-> 0]       \* the absent half of a pair
JoinKinds == [keepsLeft : BOOLEAN, keepsRight : BOOLEAN, residual : BOOLEAN]

VARIABLES left, right,  \* the rows of the two inputs, in order of arrival
          buffer        \* records that fit in memory

inputs == <<left, right, buffer>>

Blocks(rows, size) ==
  [n \in 1..((Len(rows) + size - 1) \div size) |->
     SubSeq(rows, (n - 1) * size + 1, IF n * size < Len(rows) THEN n * size ELSE Len(rows))]

-----------------------------------------------------------------------------
(* Sorting.                                                                *)

\* NULL goes first in ascending order and last in descending order.
Before(a, b, order) ==
  CASE order = "asc" -> a.key < b.key
    [] order = "desc" -> a.key > b.key
    [] OTHER -> a.at < b.at

\* What a stable sort in memory returns.
Sorted(rows, order) ==
  LET Precedes(i, j) == \/ Before(rows[i], rows[j], order)
                        \/ ~Before(rows[j], rows[i], order) /\ i < j
      RankOf(i) == Cardinality({j \in DOMAIN rows : Precedes(j, i)})
  IN  [n \in DOMAIN rows |-> rows[CHOOSE i \in DOMAIN rows : RankOf(i) = n - 1]]

WriteRuns(rows, order) ==
  LET chunks == Blocks(rows, buffer)
  IN  [n \in DOMAIN chunks |-> Sorted(chunks[n], order)]

\* The heap of one pending record per stream; equal keys leave by stream.
RECURSIVE MergeStreams(_, _)
MergeStreams(streams, order) ==
  LET live == {i \in DOMAIN streams : streams[i] # <<>>}
      first == CHOOSE i \in live : \A j \in live \ {i} :
                 \/ Before(Head(streams[i]), Head(streams[j]), order)
                 \/ ~Before(Head(streams[j]), Head(streams[i]), order) /\ i < j
  IN  IF live = {} THEN <<>>
      ELSE <<Head(streams[first])>> \o MergeStreams([streams EXCEPT ![first] = Tail(@)], order)

OnePass(runs, order) ==
  LET groups == Blocks(runs, FanIn)
  IN  [n \in DOMAIN groups |-> MergeStreams(groups[n], order)]

RECURSIVE MergeRuns(_, _)
MergeRuns(runs, order) ==
  IF Len(runs) <= FanIn THEN MergeStreams(runs, order) ELSE MergeRuns(OnePass(runs, order), order)

SortRows(rows, order) ==
  IF Len(rows) <= buffer THEN Sorted(rows, order) ELSE MergeRuns(WriteRuns(rows, order), order)

-----------------------------------------------------------------------------
(* Grouping.  A group is represented by the rows its state has absorbed.   *)

PartitionOf(level, key) == (key \div 2 ^ level) % Partitions
Partition(rows, level, p) == SelectSeq(rows, LAMBDA r : PartitionOf(level, r.key) = p)

KeysOf(rows) ==
  FoldLeft(LAMBDA keys, r : IF Contains(keys, r.key) THEN keys ELSE Append(keys, r.key), <<>>, rows)
Group(rows, key) == [key |-> key, rows |-> SelectSeq(rows, LAMBDA r : r.key = key)]
Groups(rows, keys) == [n \in DOMAIN keys |-> Group(rows, keys[n])]

RECURSIVE ReduceLevel(_, _)
ReduceLevel(rows, level) ==
  LET Reduced(part, keys) == IF Len(keys) > buffer THEN ReduceLevel(part, level + 1)
                             ELSE Groups(part, keys)
      Of(p) == LET part == Partition(rows, level, p) IN Reduced(part, KeysOf(part))
  IN  FlattenSeq([n \in 1..Partitions |-> Of(n - 1)])

\* The first groups stay in memory; the rows of the others are partitioned.
Reduce(rows) ==
  LET keys == KeysOf(rows)
      kept == SubSeq(keys, 1, buffer)
  IN  IF Len(keys) <= buffer THEN Groups(rows, keys)
      ELSE ReduceLevel(SelectSeq(rows, LAMBDA r : ~Contains(kept, r.key)), 0) \o Groups(rows, kept)

\* The accumulators ignore NULL; the aggregated column is NULL every third row.
Argument(r) == IF r.at % 3 = 0 THEN Null ELSE r.at
NoValues == [rows |-> 0, count |-> 0, sum |-> Null, least |-> Null, most |-> Null]
Absorb(acc, r) ==
  LET value == Argument(r)
      counted == [acc EXCEPT !.rows = @ + 1]
  IN  IF value = Null THEN counted
      ELSE [counted EXCEPT !.count = @ + 1, !.sum = @ + value,
                           !.least = IF @ = Null \/ value < @ THEN value ELSE @,
                           !.most = IF @ = Null \/ value > @ THEN value ELSE @]

HashAggregate(rows, grouped) ==
  LET groups == IF grouped THEN Reduce(rows) ELSE <<[key |-> Null, rows |-> rows]>>
  IN  [n \in DOMAIN groups |-> [key |-> groups[n].key, of |-> FoldLeft(Absorb, NoValues, groups[n].rows)]]

\* The first results leave as they come; the others are grouped to keep the
\* first of each and sorted back into their order of arrival.
Distinct(rows) ==
  LET keys == KeysOf(rows)
      delivered == SubSeq(keys, 1, IF Len(keys) < buffer THEN Len(keys) ELSE buffer)
      pending == SelectSeq(rows, LAMBDA r : ~Contains(delivered, r.key))
      groups == Reduce(pending)
  IN  [n \in DOMAIN delivered |-> Group(rows, delivered[n]).rows[1]]
      \o SortRows([n \in DOMAIN groups |-> groups[n].rows[1]], "arrival")

-----------------------------------------------------------------------------
(* Joins.  A pair is <<left row, right row>>.                              *)

Accepts(l, r, join) == join.residual => (l.at + r.at) % 2 = 0
SameKeyAndAccepted(l, r, join) == l.key = r.key /\ Accepts(l, r, join)

Pairs(rows, row) == [n \in DOMAIN rows |-> <<rows[n], row>>]
Swapped(pairs) == [n \in DOMAIN pairs |-> <<pairs[n][2], pairs[n][1]>>]

\* A hash table over one side and a pass over the other; `build` says which
\* side it was built on.
BuildAndProbe(built, probe, build, join) ==
  LET Match(b, p) == IF build = "left" THEN SameKeyAndAccepted(b, p, join)
                                       ELSE SameKeyAndAccepted(p, b, join)
      keepsBuilt == IF build = "left" THEN join.keepsLeft ELSE join.keepsRight
      keepsProbe == IF build = "left" THEN join.keepsRight ELSE join.keepsLeft
      Probed(p) == LET found == SelectSeq(built, LAMBDA b : Match(b, p))
                   IN  IF found # <<>> THEN Pairs(found, p)
                       ELSE IF keepsProbe THEN <<<<None, p>>>> ELSE <<>>
      alone == SelectSeq(built, LAMBDA b : \A n \in DOMAIN probe : ~Match(b, probe[n]))
  IN  IF built = <<>> /\ ~keepsProbe THEN <<>>
      ELSE FlattenSeq([n \in DOMAIN probe |-> Probed(probe[n])])
           \o (IF keepsBuilt THEN Pairs(alone, None) ELSE <<>>)

JoinInMemory(lefts, rights, join) == BuildAndProbe(lefts, rights, "left", join)
JoinWithRightInMemory(lefts, rights, join) == Swapped(BuildAndProbe(rights, lefts, "right", join))

\* One pass over the inner file for each block of the outer one.
BlockNestedLoop(lefts, rights, join, Accept(_, _)) ==
  LET Block(block) ==
        FlattenSeq([n \in DOMAIN rights |->
                      Pairs(SelectSeq(block, LAMBDA l : Accept(l, rights[n])), rights[n])])
        \o (IF join.keepsLeft
            THEN Pairs(SelectSeq(block, LAMBDA l : \A n \in DOMAIN rights : ~Accept(l, rights[n])), None)
            ELSE <<>>)
      blocks == Blocks(lefts, buffer)
      alone == SelectSeq(rights, LAMBDA r : \A n \in DOMAIN lefts : ~Accept(lefts[n], r))
  IN  FlattenSeq([n \in DOMAIN blocks |-> Block(blocks[n])])
      \o (IF join.keepsRight THEN Swapped(Pairs(alone, None)) ELSE <<>>)

\* A plausible slip: the blocks trust the partition to hold a single key.
BlocksOfOneKey(lefts, rights, join) ==
  BlockNestedLoop(lefts, rights, join, LAMBDA l, r : Accepts(l, r, join))

JoinByBlocks(lefts, rights, join) ==
  BlockNestedLoop(lefts, rights, join, LAMBDA l, r : SameKeyAndAccepted(l, r, join))

RECURSIVE JoinLevel(_, _, _, _)
JoinLevel(lefts, rights, join, level) ==
  LET Joined(l, r) ==
        IF Len(l) <= buffer THEN JoinInMemory(l, r, join)
        ELSE IF Len(r) <= buffer THEN JoinWithRightInMemory(l, r, join)
        ELSE IF level > 0 /\ Len(l) = Len(lefts) THEN JoinByBlocks(l, r, join)
        ELSE JoinLevel(l, r, join, level + 1)
  IN  FlattenSeq([n \in 1..Partitions |->
                    Joined(Partition(lefts, level, n - 1), Partition(rights, level, n - 1))])

\* Rows with a NULL key are set aside as they pass and leave at the end.
HashJoin(lefts, rights, join) ==
  LET Keyed(rows) == SelectSeq(rows, LAMBDA r : r.key # Null)
      Nulls(rows) == SelectSeq(rows, LAMBDA r : r.key = Null)
      l == Keyed(lefts)
      r == Keyed(rights)
  IN  (IF Len(l) <= buffer THEN JoinInMemory(l, r, join)
       ELSE IF Len(r) <= buffer THEN JoinWithRightInMemory(l, r, join)
       ELSE JoinLevel(l, r, join, 0))
      \o (IF join.keepsLeft THEN Pairs(Nulls(lefts), None) ELSE <<>>)
      \o (IF join.keepsRight THEN Swapped(Pairs(Nulls(rights), None)) ELSE <<>>)

NestedLoopJoin(lefts, rights, join) ==
  BlockNestedLoop(lefts, rights, join, LAMBDA l, r : Accepts(l, r, join))

-----------------------------------------------------------------------------
InputsInit == left = <<>> /\ right = <<>> /\ buffer \in Buffers

Arrives(key, rows) == [key |-> key, at |-> Len(rows) + 1]
MoreInput ==
  /\ Len(left) + Len(right) < InputLimit
  /\ \E key \in Key : \/ left' = Append(left, Arrives(key, left)) /\ UNCHANGED right
                      \/ right' = Append(right, Arrives(key, right)) /\ UNCHANGED left
  /\ UNCHANGED buffer

InputsSpec == InputsInit /\ [][MoreInput]_inputs

-----------------------------------------------------------------------------
(* What SQL asks for, without any limit on memory.                         *)

Delivers(delivered, set) == Len(delivered) = Cardinality(set) /\ ToSet(delivered) = set

MatchingPairs(join, Match(_, _)) ==
  LET L == ToSet(left)
      R == ToSet(right)
      pairs == {p \in L \X R : Match(p[1], p[2])}
  IN  pairs \cup {<<l, None>> : l \in {x \in L : join.keepsLeft /\ \A r \in R : <<x, r>> \notin pairs}}
            \cup {<<None, r>> : r \in {x \in R : join.keepsRight /\ \A l \in L : <<l, x>> \notin pairs}}

JoinsExact ==
  \A join \in JoinKinds :
    LET Joinable(l, r) == l.key # Null /\ l.key = r.key /\ Accepts(l, r, join)
        Accepted(l, r) == Accepts(l, r, join)
    IN  /\ Delivers(HashJoin(left, right, join), MatchingPairs(join, Joinable))
        /\ Delivers(NestedLoopJoin(left, right, join), MatchingPairs(join, Accepted))

Totals(rows) ==
  LET values == {Argument(r) : r \in ToSet(rows)} \ {Null}
  IN  [rows |-> Len(rows), count |-> Cardinality(values),
       sum |-> FoldSet(LAMBDA a, b : a + b, 0, values),
       least |-> IF values = {} THEN Null ELSE Min(values),
       most |-> IF values = {} THEN Null ELSE Max(values)]

GroupsExact ==
  LET keys == {r.key : r \in ToSet(left)}
  IN  /\ Delivers(HashAggregate(left, TRUE), {[key |-> k, of |-> Totals(Group(left, k).rows)] : k \in keys})
      /\ HashAggregate(left, FALSE) = <<[key |-> Null, of |-> Totals(left)]>>

DistinctExact ==
  Distinct(left) = SelectSeq(left, LAMBDA r : \A q \in ToSet(left) : q.at < r.at => q.key # r.key)

SortsExact == \A order \in {"asc", "desc"} : SortRows(left, order) = Sorted(left, order)

(* However little memory there is, whatever the hash gathers and however   *)
(* often a key repeats: a sort is the stable sort of its input, grouping   *)
(* delivers each group once with every row of it, DISTINCT the first row   *)
(* of each result in order, and a join every pair once and every row       *)
(* without one that its kind keeps (external_sort.py, external_hash.py,    *)
(* block_nested_loop.py).                                                  *)
ExternalIsExact == SortsExact /\ GroupsExact /\ DistinctExact /\ JoinsExact
=============================================================================
