--------------------------- MODULE ExtendibleHash ---------------------------
(* index/hash/extendible_hash.py: a directory of 2^depth pointers to buckets,
   each a page of entries with the number of bits that lead to it (its flags),
   and a chain of overflow pages when its entries share one hash. The operators
   take the index as it is at their point of an operation. The header, written
   when the index is flushed or closed, is left out. *)
EXTENDS RecordPages

CONSTANTS HashOf,        \* stable_hash of each key, cut to HashBits
          HashEntry,     \* what may be entered: [key, address]
          HashBits,      \* MAX_LOCAL_DEPTH
          MergeLimit,    \* entries of a bucket that two twins may become
          HashPageLimit  \* bound: pages the file of buckets may grow to

ASSUME HashAssumption == HashBits \in Nat \ {0} /\ MergeLimit <= SlotsPerPage

\* pages: the file of buckets; directory: the pointers in use of the other file,
\* the pointer of index i at i + 1;
\* depth, free, entries: _global_depth, _free_pages, _entry_count.
VARIABLE hash

InitialDepth == 1

HashOfEntry(entry) == HashOf[entry.key]
Bit(n, b) == (n \div 2^b) % 2

Bucket(depth, next, entries) == PageFill([NewPage EXCEPT !.flags = depth, !.next = next], entries)

HashInit ==
  hash = [pages |-> <<Bucket(InitialDepth, NoPage, <<>>), Bucket(InitialDepth, NoPage, <<>>)>>,
          directory |-> <<1, 2>>,
          depth |-> InitialDepth, free |-> NoPage, entries |-> 0]

HashTypeOK ==
  /\ Len(hash.pages) <= HashPageLimit
  /\ hash.depth \in InitialDepth..HashBits
  /\ hash.directory \in [1..2^hash.depth -> DOMAIN hash.pages]
  /\ hash.free \in DOMAIN hash.pages \cup {NoPage}
  /\ hash.entries \in Nat

DirectoryIndex(h, key) == HashOf[key] % 2^h.depth
Pointer(h, index) == h.directory[index + 1]
BucketFor(h, key) == Pointer(h, DirectoryIndex(h, key))

\* _set_directory_entry for every index that is selected.
Pointing(h, Selected(_), id) ==
  [h EXCEPT !.directory = FoldSet(LAMBDA i, d : [d EXCEPT ![i] = id], @,
                                  {i \in DOMAIN h.directory : Selected(i - 1)})]

EntriesOf(h, id) ==
  FoldLeft(LAMBDA entries, c : entries \o LiveRecords(h.pages[c]), <<>>, Chain(h.pages, id))

HashSearch(h, key) == {e.address : e \in {e \in ToSet(EntriesOf(h, BucketFor(h, key))) : e.key = key}}

HashScan(h) == UNION {ToSet(EntriesOf(h, id)) : id \in ToSet(h.directory)}

-----------------------------------------------------------------------------
\* _write_bucket: a bucket that does not fit in its page is chained, tail first.
WriteBucket(h, id, entries, depth) ==
  LET chunks  == (Len(entries) + SlotsPerPage - 1) \div SlotsPerPage
      chunk(n) == SubSeq(entries, (n - 1) * SlotsPerPage + 1, Min({n * SlotsPerPage, Len(entries)}))
      chained == FoldLeft(LAMBDA done, n :
                   [index |-> WithPage(done.index, Bucket(depth, done.next, chunk(n))),
                    next  |-> NextPage(done.index)],
                   [index |-> h, next |-> NoPage],
                   [n \in 1..Max({chunks - 1, 0}) |-> chunks + 1 - n])
      first   == IF chunks = 0 THEN <<>> ELSE chunk(1)
  IN  [chained.index EXCEPT !.pages[id] = Bucket(depth, chained.next, first)]

\* Mutant: the overflow pages of a bucket that is written again are forgotten.
ForgetChain(h, id) == h

ReleaseChain(h, id) == FoldLeft(Released, h, Chain(h.pages, h.pages[id].next))

Doubled(h) == [h EXCEPT !.depth = @ + 1, !.directory = @ \o @]

\* _split refuses when no bit can part the entries from the one that comes.
Parts(h, id, entry) ==
  LET stored == EntriesOf(h, id)
  IN  /\ \/ h.pages[id].next = NoPage
         \/ stored = <<>>
         \/ HashOfEntry(stored[1]) # HashOfEntry(entry)
      /\ \E other \in ToSet(stored) : HashOfEntry(other) # HashOfEntry(entry)
            \/ \E another \in ToSet(stored) : HashOfEntry(other) # HashOfEntry(another)

\* The entries whose next bit is set move to a new bucket, which half of the
\* pointers to the old one now point to.
Split(h, index) ==
  LET id      == Pointer(h, index)
      local   == h.pages[id].flags
      moves(e) == Bit(HashOfEntry(e), local) = 1
      wide    == IF local = h.depth THEN Doubled(h) ELSE h
      new     == NextPage(wide)
      cleared == ReleaseChain(WithPage(wide, NewPage), id)
      stayed  == WriteBucket(cleared, id, SelectSeq(EntriesOf(h, id), LAMBDA e : ~moves(e)), local + 1)
      moved   == WriteBucket(stayed, new, SelectSeq(EntriesOf(h, id), moves), local + 1)
  IN  Pointing(moved, LAMBDA i : i % 2^local = index % 2^local /\ Bit(i, local) = 1, new)

\* In the first overflow page with room, or in a new one after the head.
AppendToChain(h, id, entry) ==
  LET chain == Chain(h.pages, id)
      room  == {i \in DOMAIN chain : ~IsFull(h.pages[chain[i]])}
  IN  IF room # {}
      THEN [h EXCEPT !.pages[chain[Min(room)]] = PageInsert(@, entry)]
      ELSE [WithPage(h, PageInsert([NewPage EXCEPT !.next = h.pages[id].next], entry))
              EXCEPT !.pages[id].next = NextPage(h)]

\* One turn of insert: it places the entry, or splits the bucket and tries again.
InsertTurn(turn, entry) ==
  LET h      == turn.index
      index  == DirectoryIndex(h, entry.key)
      id     == Pointer(h, index)
      bucket == h.pages[id]
  IN  CASE turn.placed -> turn
        [] ~turn.placed /\ ~IsFull(bucket) ->
             [placed |-> TRUE, index |-> [h EXCEPT !.pages[id] = PageInsert(@, entry)]]
        [] ~turn.placed /\ IsFull(bucket) /\ bucket.flags < HashBits /\ Parts(h, id, entry) ->
             [placed |-> FALSE, index |-> Split(h, index)]
        [] OTHER -> [placed |-> TRUE, index |-> AppendToChain(h, id, entry)]

\* An index of a table is given each address of a key once.
HashInsert(entry) ==
  LET last == FoldLeft(LAMBDA turn, n : InsertTurn(turn, entry),
                       [placed |-> FALSE, index |-> hash], [n \in 1..HashBits + 1 |-> n])
  IN  /\ entry \notin HashScan(hash)
      /\ hash' = [last.index EXCEPT !.entries = @ + 1]
      /\ Len(hash'.pages) <= HashPageLimit

-----------------------------------------------------------------------------
\* _compact_chain: one entry goes from the last page to a hole in another.
FillHole(h, id, tail) ==
  LET slot == Min(LiveSlots(h.pages[tail]))
  IN  [h EXCEPT !.pages[id]   = PageInsert(@, h.pages[tail].slots[slot].record),
                !.pages[tail] = PageFree(@, slot)]

\* Every hole is filled, in the order of the chain; a last page left empty is
\* released and the one before becomes the last.
CompactStep(h, head) ==
  LET chain == Chain(h.pages, head)
      holes == {i \in 1..Len(chain) - 1 : ~IsFull(h.pages[chain[i]])}
      tail  == Last(chain)
  IN  CASE Len(chain) > 1 /\ LiveSlots(h.pages[tail]) = {} ->
             Released([h EXCEPT !.pages[chain[Len(chain) - 1]].next = NoPage], tail)
        [] Len(chain) > 1 /\ LiveSlots(h.pages[tail]) # {} /\ holes # {} ->
             FillHole(h, chain[Min(holes)], tail)
        [] OTHER -> h

CompactChain(h, head) ==
  FoldLeft(LAMBDA done, n : CompactStep(done, head), h,
           [n \in 1..(SlotsPerPage + 1) * Len(Chain(h.pages, head)) |-> n])

TwinIndex(index, local) ==
  IF Bit(index, local - 1) = 1 THEN index - 2^(local - 1) ELSE index + 2^(local - 1)

\* Two twins become one when they are not chained and their entries are few.
Mergeable(h, index) ==
  LET bucket == h.pages[Pointer(h, index)]
      twin   == h.pages[Pointer(h, TwinIndex(index, bucket.flags))]
  IN  /\ bucket.flags > InitialDepth
      /\ bucket.next = NoPage /\ twin.next = NoPage
      /\ twin.flags = bucket.flags
      /\ Cardinality(LiveSlots(bucket)) + Cardinality(LiveSlots(twin)) <= MergeLimit

MergeTwin(h, index) ==
  LET id      == Pointer(h, index)
      local   == h.pages[id].flags
      twin    == Pointer(h, TwinIndex(index, local))
      entries == EntriesOf(h, id) \o EntriesOf(h, twin)
      written == WriteBucket(Released(h, twin), id, entries, local - 1)
  IN  Pointing(written, LAMBDA i : i % 2^(local - 1) = index % 2^(local - 1), id)

LowerHalf(h) == SubSeq(h.directory, 1, 2^(h.depth - 1))
UpperHalf(h) == SubSeq(h.directory, 2^(h.depth - 1) + 1, 2^h.depth)

HalveOnce(h) ==
  IF h.depth > InitialDepth /\ LowerHalf(h) = UpperHalf(h)
  THEN [h EXCEPT !.depth = @ - 1, !.directory = LowerHalf(h)]
  ELSE h

Shrunk(h, index) ==
  LET turns  == [n \in 1..HashBits |-> n]
      merged == FoldLeft(LAMBDA g, n : IF Mergeable(g, index) THEN MergeTwin(g, index) ELSE g, h, turns)
  IN  IF merged = h THEN h ELSE FoldLeft(LAMBDA g, n : HalveOnce(g), merged, turns)

\* _remove: the entries leave every page of the chain, which is then made compact.
HashRemove(key, Matches(_)) ==
  LET head    == BucketFor(hash, key)
      chain   == ToSet(Chain(hash.pages, head))
      hits(id) == {s \in LiveSlots(hash.pages[id]) : Matches(hash.pages[id].slots[s].record)}
      removed == FoldSet(LAMBDA id, n : n + Cardinality(hits(id)), 0, chain)
      cleared(id) == FoldSet(LAMBDA s, page : PageFree(page, s), hash.pages[id], hits(id))
      freed   == FoldSet(LAMBDA id, h : [h EXCEPT !.pages[id] = cleared(id)],
                         [hash EXCEPT !.entries = @ - removed], chain)
  IN  /\ removed > 0
      /\ hash' = Shrunk(CompactChain(freed, head), DirectoryIndex(hash, key))

HashDelete(key) == HashRemove(key, LAMBDA e : e.key = key)

HashDeleteEntry(entry) == HashRemove(entry.key, LAMBDA e : e = entry)

HashNext ==
  \/ \E entry \in HashEntry : HashInsert(entry)
  \/ \E key \in DOMAIN HashOf : HashDelete(key)
  \/ \E entry \in HashEntry : HashDeleteEntry(entry)

HashSpec == HashInit /\ [][HashNext]_hash

-----------------------------------------------------------------------------
Buckets == ToSet(hash.directory)

\* Whatever was inserted and deleted: the pointers to a bucket are those that end
\* in its bits and its entries have hashes that do; only entries of one hash are
\* chained, to a full page, with room in one page at most; the directory is not
\* twice what is needed; every page is in one bucket or in the free list; the count
\* is right.
HashSound ==
  /\ HashTypeOK
  /\ \A id \in Buckets :
       LET local    == hash.pages[id].flags
           pointers == {i \in 0..2^hash.depth - 1 : Pointer(hash, i) = id}
           chain    == Chain(hash.pages, id)
           entries  == ToSet(EntriesOf(hash, id))
       IN  /\ \E i \in pointers :
                /\ pointers = {j \in 0..2^hash.depth - 1 : j % 2^local = i % 2^local}
                /\ \A e \in entries : HashOfEntry(e) % 2^local = i % 2^local
           /\ Len(chain) > 1 => Cardinality({HashOfEntry(e) : e \in entries}) = 1
           /\ Len(chain) > 1 => IsFull(hash.pages[id])
           /\ \A n, m \in DOMAIN chain :
                IsFull(hash.pages[chain[n]]) \/ IsFull(hash.pages[chain[m]]) \/ n = m
  /\ hash.depth > InitialDepth => LowerHalf(hash) # UpperHalf(hash)
  /\ PagesAccounted(hash, UNION {ToSet(Chain(hash.pages, id)) : id \in Buckets})
  /\ hash.entries = FoldSet(LAMBDA id, n : n + Len(EntriesOf(hash, id)), 0, Buckets)

HashFindsAll ==
  \A key \in DOMAIN HashOf :
    HashSearch(hash, key) = {e.address : e \in {e \in HashScan(hash) : e.key = key}}

=============================================================================
