---------------------------- MODULE MCStructures ----------------------------
(* Small instances of the files, the indexes and the parser of SQL for TLC: one run
   checks them all, one in each behaviour. *)
EXTENDS HeapFile, SequentialFile, BPlusTree, ExtendibleHash, VariableLengthFile, RTree,
        KeyedStore

CONSTANT TreeSize \* entries that the B+ tree is loaded with

VARIABLES
  meant, tokens, edits,  \* of MCSqlParser
  subject  \* the structure that works in this behaviour, or the parser

Sql == INSTANCE MCSqlParser

fileVars == <<heapVars, seqFile, tree, hash, varlen, rtree, stored>>
sqlVars == <<meant, tokens, edits>>
vars == <<fileVars, sqlVars, subject>>

\* Values of the constants.
KeyAtPlace(i) == <<i \div 2, i % 2>>
MCTreeLoads ==
  {<<>>, [i \in 1..TreeSize |-> <<KeyAtPlace(i), i>>],
         [i \in 1..TreeSize |-> <<KeyAtPlace(TreeSize + 1 - i), TreeSize + 1 - i>>]}
MCTreeEntry == {<<KeyAtPlace(i), i>> : i \in {3, 8}}

MCHashOf == (1 :> 0) @@ (2 :> 3) @@ (3 :> 7) @@ (4 :> 7)
MCHashEntry ==
  {[key |-> p[1], address |-> p[2]] : p \in {<<1, 1>>, <<2, 1>>, <<2, 2>>, <<3, 1>>, <<3, 2>>, <<4, 1>>}}

MCVarlenLength == (1 :> 0) @@ (2 :> 3) @@ (3 :> 6)

Place2D(n) == <<(n * 7) % 11, (n * 5) % 13>>
MCRTreeLoads == {[n \in 1..17 |-> <<Place2D(n), n>>], [n \in 1..4 |-> <<Place2D(n), n>>]}
MCRTreeEntry == {<<Place2D(n), n>> : n \in {3, 14, 17}} \cup {<<Place2D(5), 18>>}
MCRTreeQuery == {<<2, 5>>, Place2D(5), <<6, 13>>}

\* What a scan of the structure gives.
Contents ==
  CASE subject = "heap"       -> {<<a, HeapRows[a]>> : a \in HeapAddresses}
    [] subject = "sequential" -> {<<r.key, r.id>> : r \in SeqRecords}
    [] subject = "tree"       -> ToSet(TreeScan(tree))
    [] subject = "hash"       -> {<<e.key, e.address>> : e \in HashScan(hash)}
    [] subject = "varlen"     -> {<<a, VarlenRows[a]>> : a \in Values(varlen)}
    [] subject = "rtree"      -> {<<e.bounds[1], e.ref>> : e \in ToSet(RScan(rtree))}
    [] subject = "sql"        -> {}

Init ==
  /\ subject \in {"heap", "sequential", "tree", "hash", "varlen", "rtree", "sql"}
  /\ HeapInit /\ SeqInit /\ HashInit /\ VarlenInit
  /\ IF subject = "tree" THEN TreeInit ELSE tree = EmptyTree
  /\ IF subject = "rtree" THEN RTreeInit ELSE rtree = EmptyRTree
  /\ IF subject = "sql" THEN Sql!SqlInit ELSE meant = 0 /\ tokens = 0 /\ edits = 0
  /\ stored = Contents

\* The address that an operation gave: one that was not in use, but for its own.
Given(inUse, before) == CHOOSE address \in inUse : address \notin before

HeapStep ==
  \/ \E record \in HeapRecord :
       HeapInsert(record) /\ PutEntry(<<Given(HeapAddresses', HeapAddresses), record>>)
  \/ \E address \in HeapAddresses, record \in HeapRecord :
       HeapUpdate(address, record) /\ ReplaceEntry(<<address, HeapRows[address]>>, <<address, record>>)
  \/ \E address \in HeapAddresses :
       HeapDelete(address) /\ TakeEntry(<<address, HeapRows[address]>>)

SeqStep ==
  \/ \E record \in SeqRecord : SeqInsert(record) /\ PutEntry(<<record.key, record.id>>)
  \/ \E key \in SeqKey : SeqDelete(key) /\ TakeKey(key)

TreeStep ==
  \/ \E entry \in TreeEntry : TreeInsert(entry[1], entry[2]) /\ PutEntry(entry)
  \/ \E key \in TreeKey : TreeDelete(key) /\ TakeKey(key)

HashStep ==
  \/ \E entry \in HashEntry : HashInsert(entry) /\ PutEntry(<<entry.key, entry.address>>)
  \/ \E key \in DOMAIN HashOf : HashDelete(key) /\ TakeKey(key)
  \/ \E entry \in HashEntry : HashDeleteEntry(entry) /\ TakeEntry(<<entry.key, entry.address>>)

VarlenStep ==
  \/ \E value \in VarlenValue :
       VarlenPut(value) /\ PutEntry(<<Given(Values(varlen'), Values(varlen)), value>>)
  \/ \E address \in Values(varlen), value \in VarlenValue :
       /\ VarlenReplace(address, value)
       /\ ReplaceEntry(<<address, VarlenRows[address]>>,
                  <<Given(Values(varlen'), Values(varlen) \ {address}), value>>)
  \/ \E address \in Values(varlen) :
       VarlenDelete(address) /\ TakeEntry(<<address, VarlenRows[address]>>)

RTreeStep ==
  \E entry \in RTreeEntry :
    \/ entry \notin stored /\ RTreeInsert(entry) /\ PutEntry(entry)
    \/ RTreeDelete(entry) /\ TakeEntry(entry)

\* Each operation, with what it should do to a set of entries.
FileStep ==
  \/ subject = "heap" /\ HeapStep /\ UNCHANGED <<seqFile, tree, hash, varlen, rtree>>
  \/ subject = "sequential" /\ SeqStep /\ UNCHANGED <<heapVars, tree, hash, varlen, rtree>>
  \/ subject = "tree" /\ TreeStep /\ UNCHANGED <<heapVars, seqFile, hash, varlen, rtree>>
  \/ subject = "hash" /\ HashStep /\ UNCHANGED <<heapVars, seqFile, tree, varlen, rtree>>
  \/ subject = "varlen" /\ VarlenStep /\ UNCHANGED <<heapVars, seqFile, tree, hash, rtree>>
  \/ subject = "rtree" /\ RTreeStep /\ UNCHANGED <<heapVars, seqFile, tree, hash, varlen>>

Next ==
  /\ UNCHANGED subject
  /\ \/ FileStep /\ UNCHANGED sqlVars
     \/ subject = "sql" /\ Sql!Mistake /\ UNCHANGED fileVars

Spec == Init /\ [][Next]_vars

\* The two trees up to the numbers of their pages; the rest as it is.
TreeShape ==
  LET nested[id \in DOMAIN tree.pages] ==
        LET node == tree.pages[id]
        IN  <<node.keys, node.contents, [i \in DOMAIN node.children |-> nested[node.children[i]]]>>
      leaves == Levels[tree.height]
  IN  <<nested[tree.root], Chain(tree.pages, leaves[1]) = leaves, Len(tree.pages),
        Len(FreePages(tree)), tree.entries, tree.height>>

RTreeShape ==
  LET nested[id \in DOMAIN rtree.pages] ==
        LET node == rtree.pages[id]
        IN  IF node.leaf THEN node.entries
            ELSE [i \in DOMAIN node.entries |-> <<node.entries[i].bounds, nested[node.entries[i].ref]>>]
  IN  <<nested[rtree.root], Len(rtree.pages), Len(FreePages(rtree)),
        rtree.entries, rtree.height, rtree.nodes>>

\* The sequential file up to what is in overflow pages that no chain reaches: old ones that
\* a crash left behind, which nothing reads.
SeqReached ==
  LET reached == UNION {ToSet(OverflowChain(seqFile, p)) : p \in DOMAIN seqFile.main}
  IN  [seqFile EXCEPT !.overflow = [c \in DOMAIN @ |-> IF c \in reached THEN @[c] ELSE NewPage]]

UpToPageNumbers ==
  <<subject, sqlVars, stored, heapVars, SeqReached, hash, varlen, TreeShape, RTreeShape>>

-----------------------------------------------------------------------------
\* Both trees keep their shape through splits, joins, reinsertions and loads: separators or
\* rectangles that hold for all that is below, nodes filled enough, counters that count.
TreesSound == TreeSound /\ RTreeSound

\* Whatever a search of any structure finds is what a scan of it finds.
SearchFindsAll ==
  CASE subject = "sequential" -> SeqFindsAll
    [] subject = "tree"       -> TreeFindsAll
    [] subject = "hash"       -> HashFindsAll
    [] subject = "rtree"      -> RTreeFindsAll
    [] OTHER                  -> TRUE

\* After every operation of every structure, with all its splits, merges, chains,
\* moves and reorganisations, a scan gives exactly what a set of entries would hold
\* after the same operations: none is lost, repeated, brought back or mixed up.
StoredAsAsked == Contents = stored

\* SqlParser: what is written is read as it was meant, and almost right texts too.
ReadAsWritten == subject = "sql" => Sql!ReadAsWritten

=============================================================================
