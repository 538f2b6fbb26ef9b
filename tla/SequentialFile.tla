--------------------------- MODULE SequentialFile ---------------------------
(* storage/sequential/sequential_file.py: main pages in key order, a chain of
   overflow pages hanging from each, tombstones, and a reorganisation that
   writes everything anew. A record is [key, id]. The operators take the file as
   it is at their point of an operation. The header, written from the counters
   when the file is flushed or closed, is left out. *)
EXTENDS RecordPages

CONSTANTS SeqKey,             \* the keys, numbers
          SeqId,              \* what tells records of one key apart
          MaxChainPages,      \* sequential_max_chain_pages
          WasteNum, WasteDen, \* sequential_waste_ratio
          RebuiltPerPage,     \* slots a reorganisation fills in a page
          SeqLimit,           \* bound: records stored, tombstones included
          OverflowLimit       \* bound: pages of the overflow file

\* main: pages of tabla.seq; overflow: pages of tabla.seq.overflow; live,
\* deleted, overflowed: _live_count, _deleted_count, _overflow_count.
VARIABLE seqFile

SeqRecord == [key : SeqKey, id : SeqId]

EmptySeqFile == [main |-> <<>>, overflow |-> <<>>, live |-> 0, deleted |-> 0, overflowed |-> 0]

SeqTypeOK ==
  /\ DOMAIN seqFile = DOMAIN EmptySeqFile
  /\ {seqFile.live, seqFile.deleted, seqFile.overflowed} \subseteq Nat
  /\ \A p \in DOMAIN seqFile.main :
       seqFile.main[p].next \in DOMAIN seqFile.overflow \cup {NoPage}

SeqInit == seqFile = EmptySeqFile

KeyAt(page, i) == page.slots[i].record.key
FirstKey(page) == KeyAt(page, 1)
LastKey(page) == KeyAt(page, Len(page.slots))

\* bisect_right over the keys of the page, tombstones included.
InsertPosition(page, key) ==
  Cardinality({i \in DOMAIN page.slots : KeyAt(page, i) <= key}) + 1

\* The binary search for the last page whose first key is admitted: the range of
\* pages is halved until it is empty. The first page if none is admitted.
LastPageStarting(file, Admits(_)) ==
  LET search[low \in 1..Len(file.main) + 1, high \in 0..Len(file.main)] ==
        IF low > high THEN high
        ELSE LET middle == (low + high) \div 2
             IN  IF Admits(FirstKey(file.main[middle]))
                 THEN search[middle + 1, high]
                 ELSE search[low, middle - 1]
  IN  Max({1, search[1, Len(file.main)]})

FirstPageHolding(file, key) == LastPageStarting(file, LAMBDA first : first < key)

\* From the first page that may hold the key to the one where a bigger one is seen.
PagesHolding(file, key) ==
  LET first == FirstPageHolding(file, key)
  IN  {p \in first..Len(file.main) :
         /\ p > first => FirstKey(file.main[p]) <= key
         /\ \A q \in first..p - 1 :
              /\ q > first => FirstKey(file.main[q]) <= key
              /\ LastKey(file.main[q]) <= key}

OverflowChain(file, p) == Chain(file.overflow, file.main[p].next)

\* Live records of a page, and of a page with its chain.
PageRecords(file, p) ==
  FoldLeft(LAMBDA records, c : records \o LiveRecords(file.overflow[c]),
           LiveRecords(file.main[p]), OverflowChain(file, p))

\* Sorted by key; Python's sort is stable.
SortedPageRecords(file, p) ==
  LET records == PageRecords(file, p)
      place(i) == Cardinality({j \in DOMAIN records :
                     \/ records[j].key < records[i].key
                     \/ records[j].key = records[i].key /\ j <= i})
  IN  [n \in DOMAIN records |-> records[CHOOSE i \in DOMAIN records : place(i) = n]]

SeqScanFrom(file, first) ==
  FoldLeft(LAMBDA records, p : records \o SortedPageRecords(file, p), <<>>,
           [n \in 1..Len(file.main) - first + 1 |-> first + n - 1])

SeqScan(file) == SeqScanFrom(file, 1)

SeqSearch(file, key) ==
  {r \in UNION {ToSet(PageRecords(file, p)) : p \in PagesHolding(file, key)} : r.key = key}

\* Reading stops at the first record past the upper end.
SeqRange(file, low, high) ==
  LET records == SeqScanFrom(file, FirstPageHolding(file, low))
      past    == {i \in DOMAIN records : records[i].key > high}
      end     == IF past = {} THEN Len(records) ELSE Min(past) - 1
  IN  {records[i] : i \in {j \in 1..end : records[j].key >= low}}

-----------------------------------------------------------------------------
Wasteful(file) ==
  (file.deleted + file.overflowed) * WasteDen > WasteNum * (file.live + file.deleted)

\* Records page after page, in pages that are left with some room.
WrittenPages(records) ==
  LET from(p) == (p - 1) * RebuiltPerPage
      count   == (Len(records) + RebuiltPerPage - 1) \div RebuiltPerPage
  IN  [p \in 1..count |-> PageFill(NewPage, SubSeq(records, from(p) + 1,
                                                 Min({from(p) + RebuiltPerPage, Len(records)})))]

\* Mutant: the tombstones that went away are still counted.
RebuiltKeepingCount(file) ==
  [main |-> WrittenPages(SeqScan(file)), overflow |-> <<>>,
   live |-> file.live, deleted |-> file.deleted, overflowed |-> 0]

\* Mutant: the chains of overflow pages are not read.
RebuiltFromMain(file) ==
  [main |-> WrittenPages(FlattenSeq([p \in DOMAIN file.main |-> LiveRecords(file.main[p])])),
   overflow |-> <<>>, live |-> file.live, deleted |-> 0, overflowed |-> 0]

\* reorganize: what scan gives, with an empty overflow file.
Rebuilt(file) ==
  [main |-> WrittenPages(SeqScan(file)), overflow |-> <<>>,
   live |-> file.live, deleted |-> 0, overflowed |-> 0]

\* The process ends after the new main file has taken the place of the old one and
\* before the old overflow file is deleted: its pages are there with their records, those
\* written last included if they were evicted in time, and no chain reaches them.
HalfReplaced(file) == [Rebuilt(file) EXCEPT !.overflow = file.overflow]

\* An operation ends with the file it made or, if it reorganises, with one that
\* was reorganised, by this process or seen by the next one after a crash.
EndWith(file, reorganises) ==
  /\ Len(file.overflow) <= OverflowLimit
  /\ seqFile' \in IF reorganises THEN {Rebuilt(file), HalfReplaced(file)} ELSE {file}

AppendMainPage(file, record) ==
  [file EXCEPT !.main = Append(@, PageInsertAt(NewPage, 1, record))]

\* The pages of the chain that an insert visits, and the file after it: the first
\* page with a free slot takes the record, or a new one at the head of the chain.
IntoOverflow(file, p, record) ==
  LET chain == OverflowChain(file, p)
      room  == {i \in DOMAIN chain : ~IsFull(file.overflow[chain[i]])}
      grown == [PageInsert(NewPage, record) EXCEPT !.next = file.main[p].next]
  IN  IF room # {}
      THEN [pages |-> Min(room),
            file  |-> [file EXCEPT !.overflow[chain[Min(room)]] = PageInsert(@, record),
                                   !.overflowed = @ + 1]]
      ELSE [pages |-> Len(chain) + 1,
            file  |-> [file EXCEPT !.overflow = Append(@, grown), !.overflowed = @ + 1,
                                   !.main[p].next = Len(file.overflow) + 1]]

\* Its page if there is room, a new last page if it is the greatest, or the chain.
IntoMain(file, record) ==
  LET p    == LastPageStarting(file, LAMBDA first : first <= record.key)
      page == file.main[p]
      at   == InsertPosition(page, record.key)
  IN  CASE Len(page.slots) < SlotsPerPage ->
             [pages |-> 0, file |-> [file EXCEPT !.main[p] = PageInsertAt(@, at, record)]]
        [] Len(page.slots) = SlotsPerPage /\ p = Len(file.main) /\ record.key >= LastKey(page) ->
             [pages |-> 0, file |-> AppendMainPage(file, record)]
        [] OTHER -> IntoOverflow(file, p, record)

SeqInsert(record) ==
  LET placed == IF seqFile.main = <<>>
                THEN [pages |-> 0, file |-> AppendMainPage(seqFile, record)]
                ELSE IntoMain(seqFile, record)
      file   == [placed.file EXCEPT !.live = @ + 1]
  IN  /\ seqFile.live + seqFile.deleted < SeqLimit
      /\ record \notin ToSet(SeqScan(seqFile))
      /\ EndWith(file, placed.pages > MaxChainPages \/ Wasteful(file))

TombstoneKey(page, key) ==
  [page EXCEPT !.slots = [i \in DOMAIN @ |->
     IF i \in LiveSlots(page) /\ KeyAt(page, i) = key THEN Tombstone(@[i].record) ELSE @[i]]]

CountKey(page, key) == Cardinality({i \in LiveSlots(page) : KeyAt(page, i) = key})

\* All the records with the key become tombstones, in the pages that may hold it
\* and in their chains, where a slot of a tombstone is not used again.
SeqDelete(key) ==
  LET holding  == IF seqFile.main = <<>> THEN {} ELSE PagesHolding(seqFile, key)
      chained  == UNION {ToSet(OverflowChain(seqFile, p)) : p \in holding}
      inMain   == FoldSet(LAMBDA p, n : n + CountKey(seqFile.main[p], key), 0, holding)
      inChains == FoldSet(LAMBDA c, n : n + CountKey(seqFile.overflow[c], key), 0, chained)
      file == [main |-> [p \in DOMAIN seqFile.main |->
                 IF p \in holding THEN TombstoneKey(seqFile.main[p], key) ELSE seqFile.main[p]],
               overflow |-> [c \in DOMAIN seqFile.overflow |->
                 IF c \in chained THEN TombstoneKey(seqFile.overflow[c], key)
                 ELSE seqFile.overflow[c]],
               live |-> seqFile.live - inMain - inChains,
               deleted |-> seqFile.deleted + inMain + inChains,
               overflowed |-> seqFile.overflowed - inChains]
  IN  inMain + inChains > 0 /\ EndWith(file, Wasteful(file))

SeqNext ==
  \/ \E record \in SeqRecord : SeqInsert(record)
  \/ \E key \in SeqKey : SeqDelete(key)

SeqSpec == SeqInit /\ [][SeqNext]_seqFile

-----------------------------------------------------------------------------
SeqRecords == ToSet(SeqScan(seqFile))

\* The keys of a page and of its chain, tombstones included.
KeysOf(page) == {KeyAt(page, i) : i \in DOMAIN page.slots}
KeysWithChain(p) ==
  UNION {KeysOf(seqFile.overflow[c]) : c \in ToSet(OverflowChain(seqFile, p))}
  \cup KeysOf(seqFile.main[p])

\* Main pages are sorted, tombstones included; a page and its chain hold no key
\* that belongs to another page; no chain is shared or too long; what is counted
\* is there; the waste is never over its limit after an operation. Inserts,
\* tombstones, chains and reorganisations must keep this up together.
SeqSound ==
  /\ SeqTypeOK
  /\ \A p \in DOMAIN seqFile.main :
       /\ seqFile.main[p].slots # <<>>
       /\ \A i, j \in DOMAIN seqFile.main[p].slots :
            i < j => KeyAt(seqFile.main[p], i) <= KeyAt(seqFile.main[p], j)
       /\ Len(OverflowChain(seqFile, p)) <= MaxChainPages
       /\ \A q \in DOMAIN seqFile.main : q > p =>
            /\ \A k \in KeysWithChain(p), m \in KeysWithChain(q) : k <= m
            /\ ToSet(OverflowChain(seqFile, p)) \cap ToSet(OverflowChain(seqFile, q)) = {}
  /\ seqFile.live = Len(SeqScan(seqFile))
  /\ seqFile.overflowed =
       Len(FoldLeft(LAMBDA seen, c : seen \o LiveRecords(seqFile.overflow[c]), <<>>,
             FoldLeft(LAMBDA cs, p : cs \o OverflowChain(seqFile, p), <<>>,
                      [p \in DOMAIN seqFile.main |-> p])))
  /\ seqFile.deleted = FoldSet(LAMBDA p, n : n + Len(seqFile.main[p].slots)
           + FoldSet(LAMBDA c, m : m + Len(seqFile.overflow[c].slots), 0,
                     ToSet(OverflowChain(seqFile, p))), 0, DOMAIN seqFile.main)
         - seqFile.live
  /\ ~Wasteful(seqFile)

\* What the binary search finds is what a scan of everything finds, by key and by
\* range, although chains, repeated keys and tombstones blur where pages begin.
SeqFindsAll ==
  LET scan == SeqScan(seqFile)
  IN  seqFile.main # <<>> => \A low \in SeqKey :
        /\ SeqSearch(seqFile, low) = {r \in ToSet(scan) : r.key = low}
        /\ \A high \in SeqKey :
             SeqRange(seqFile, low, high) = {r \in ToSet(scan) : r.key >= low /\ r.key <= high}

=============================================================================
