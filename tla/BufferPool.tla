----------------------------- MODULE BufferPool -----------------------------
(* storage/buffer_pool.py and storage/pager.py: the pages in memory of all the
   files, the least recently used of which leaves when there are too many, and
   what each file has of them: as the operating system shows it, and on the device,
   which is what a crash leaves. The content of a page is the number of the write
   that left it, 0 if blank. Pages are numbered from 1. *)
EXTENDS Integers, Sequences, FiniteSets, FiniteSetsExt, Functions

CONSTANTS PoolFile,       \* the files
          Flusher,        \* the threads that flush
          PoolCapacity,   \* buffer_pool_pages
          DiskFails,      \* whether writing the page that leaves may raise
          FilePages,      \* bound: pages of each file
          Versions        \* bound: writes to a page

ASSUME PoolAssumption ==
  /\ PoolCapacity \in Nat \ {0} /\ DiskFails \in BOOLEAN
  /\ FilePages \in [PoolFile -> Nat] /\ Versions \in Nat

VARIABLES frames,    \* _frames: the version of each page in memory, a <<file, page>>
          older,     \* the order of _frames: the pages used before each page in memory
          dirty,     \* _dirty
          pageCount, \* _page_count of each file; Closed if it is not open
          written,   \* what the operating system shows of each file
          device,    \* what is on the device
          syncing,   \* the fsync that each thread waits for, NotSyncing if none
          latest,    \* the last version of each page given to write
          promised   \* what the flushes that ended have promised

poolVars == <<frames, older, dirty, pageCount, written, device, syncing, latest, promised>>

Closed == -1
NotSyncing == [file |-> {}, upTo |-> <<>>]

Page == UNION {{f} \X (1..FilePages[f]) : f \in PoolFile}

\* The pages in memory are never too many, and always have an order.
FramesOK ==
  /\ DOMAIN frames \subseteq Page /\ frames \in [DOMAIN frames -> 0..Versions]
  /\ IsFiniteSet(DOMAIN frames) /\ Cardinality(DOMAIN frames) <= PoolCapacity
  /\ older \in [DOMAIN frames -> SUBSET DOMAIN frames]
  /\ \A x, y \in DOMAIN frames :
       /\ x \in older[y] => older[x] \subseteq older[y] /\ x \notin older[x]
       /\ x \in older[y] \/ y \in older[x] \/ x = y
  /\ dirty \subseteq DOMAIN frames

PoolTypeOK ==
  /\ FramesOK
  /\ pageCount \in [PoolFile -> Nat \cup {Closed}]
  /\ \A f \in PoolFile : pageCount[f] <= FilePages[f]
  /\ {written, device, latest, promised} \subseteq [PoolFile -> Seq(0..Versions)]
  /\ \A f \in PoolFile : Len(written[f]) <= FilePages[f] /\ Len(device[f]) <= FilePages[f]
  /\ syncing \in [Flusher -> [file : SUBSET PoolFile, upTo : Seq(0..Versions)]]

PoolInit ==
  /\ frames = <<>> /\ older = <<>> /\ dirty = {}
  /\ pageCount = [f \in PoolFile |-> 0]
  /\ written = [f \in PoolFile |-> <<>>] /\ device = written
  /\ syncing = [s \in Flusher |-> NotSyncing]
  /\ latest = written /\ promised = written

\* Writing past the end of a file leaves blanks between.
WriteThrough(pages, p, version) ==
  [n \in 1..Max({p, Len(pages)}) |->
     IF n = p THEN version ELSE IF n <= Len(pages) THEN pages[n] ELSE 0]

\* What a read gives.
Shown(f, p) ==
  CASE <<f, p>> \in DOMAIN frames                              -> frames[<<f, p>>]
    [] <<f, p>> \notin DOMAIN frames /\ p <= Len(written[f])   -> written[f][p]
    [] OTHER                                                   -> 0

\* Mutant: a page that leaves takes no account of its mark.
LeavesDirty(frame, marked) == FALSE

MustWrite(frame, marked) == frame \in marked

\* _place: the page becomes the one used last. If there are too many, the one used longest ago
\* leaves, without its mark; if it was dirty it is written after that, which may fail.
PlacePage(page, version, marked) ==
  LET pages == DOMAIN frames \cup {page}
      placed == [x \in pages |-> IF x = page THEN version ELSE frames[x]]
      order == [x \in pages |-> IF x = page THEN pages \ {page} ELSE older[x] \ {page}]
  IN  IF Cardinality(pages) <= PoolCapacity
      THEN frames' = placed /\ older' = order /\ dirty' = marked /\ UNCHANGED written
      ELSE \E victim \in pages :
             /\ order[victim] = {}
             /\ frames' = Restrict(placed, pages \ {victim})
             /\ older' = [x \in pages \ {victim} |-> order[x] \ {victim}]
             /\ dirty' = marked \ {victim}
             /\ written' \in
                  IF MustWrite(victim, marked)
                  THEN {[written EXCEPT
                           ![victim[1]] = WriteThrough(@, victim[2], placed[victim])]}
                         \cup IF DiskFails THEN {written} ELSE {}
                  ELSE {written}

\* A page in memory is used; another is read from its file and enters clean.
Read(f, p) ==
  /\ p <= pageCount[f]
  /\ PlacePage(<<f, p>>, Shown(f, p), dirty)
  /\ UNCHANGED <<pageCount, device, syncing, latest, promised>>

Write(f, p) ==
  LET version == latest[f][p] + 1
  IN  /\ p <= pageCount[f] /\ version <= Versions
      /\ latest' = [latest EXCEPT ![f][p] = version]
      /\ PlacePage(<<f, p>>, version, dirty \cup {<<f, p>>})
      /\ UNCHANGED <<pageCount, device, syncing, promised>>

\* A blank page at the end, in memory only.
Allocate(f) ==
  LET p == pageCount[f] + 1
  IN  /\ pageCount[f] # Closed /\ p <= FilePages[f]
      /\ pageCount' = [pageCount EXCEPT ![f] = p]
      /\ latest' = [latest EXCEPT ![f] = Append(@, 0)]
      /\ PlacePage(<<f, p>>, 0, dirty \cup {<<f, p>>})
      /\ UNCHANGED <<device, syncing, promised>>

DirtyOf(f) == {n \in 1..FilePages[f] : <<f, n>> \in dirty}

\* The file with the dirty pages up to one written in their places.
WithDirty(f, upTo) ==
  LET going == {n \in DirtyOf(f) : n <= upTo}
  IN  [n \in 1..Max({Len(written[f])} \cup going) |->
         IF n \in going THEN Shown(f, n) ELSE IF n <= Len(written[f]) THEN written[f][n] ELSE 0]

\* Mutant: the marks of all the files go.
AllClean(f) == {}

Cleaned(f) == {d \in dirty : d[1] # f}

\* flush, under the guard: every dirty page of the file is written and marked clean.
StartFlush(s, f) ==
  /\ pageCount[f] # Closed /\ syncing[s] = NotSyncing
  /\ written' = [written EXCEPT ![f] = WithDirty(f, FilePages[f])]
  /\ dirty' = Cleaned(f)
  /\ syncing' = [syncing EXCEPT ![s] = [file |-> {f}, upTo |-> latest[f]]]
  /\ UNCHANGED <<frames, older, pageCount, device, latest, promised>>

\* A write raises after some pages: all of them stay dirty.
FlushFails(f) ==
  /\ pageCount[f] # Closed
  /\ \E n \in 0..FilePages[f] : written' = [written EXCEPT ![f] = WithDirty(f, n)]
  /\ UNCHANGED <<frames, older, dirty, pageCount, device, syncing, latest, promised>>

\* fsync, outside the guard: what the file had meanwhile reaches the device. Its
\* own copy of the descriptor serves although the file is closed meanwhile.
EndFlush(s) ==
  \E f \in syncing[s].file :
    /\ device' = [device EXCEPT ![f] = written[f]]
    /\ promised' = [promised EXCEPT ![f] = syncing[s].upTo]
    /\ syncing' = [syncing EXCEPT ![s] = NotSyncing]
    /\ UNCHANGED <<frames, older, dirty, pageCount, written, latest>>

\* fsync raises: the pages stay clean, though nothing is promised. The operating system
\* still has them, as if it had not been asked; that it may drop them is left out.
SyncFails(s) ==
  /\ syncing[s] # NotSyncing
  /\ syncing' = [syncing EXCEPT ![s] = NotSyncing]
  /\ UNCHANGED <<frames, older, dirty, pageCount, written, device, latest, promised>>

\* unregister: the pages of the file are forgotten, the dirty ones too.
Forget(f) ==
  /\ LET others == {x \in DOMAIN frames : x[1] # f}
     IN  frames' = Restrict(frames, others) /\ older' = [x \in others |-> older[x] \cap others]
  /\ dirty' = {x \in dirty : x[1] # f}
  /\ pageCount' = [pageCount EXCEPT ![f] = Closed]

\* close flushes, all under the guard. One that fails leaves the file open, as
\* FlushFails or as StartFlush and SyncFails do.
Close(f) ==
  /\ pageCount[f] # Closed
  /\ written' = [written EXCEPT ![f] = WithDirty(f, FilePages[f])]
  /\ device' = [device EXCEPT ![f] = written'[f]]
  /\ promised' = [promised EXCEPT ![f] = latest[f]]
  /\ Forget(f)
  /\ UNCHANGED <<syncing, latest>>

\* discard gives up what was not written.
Discard(f) ==
  /\ pageCount[f] # Closed
  /\ latest' = [latest EXCEPT ![f] = written[f]]
  /\ Forget(f)
  /\ UNCHANGED <<written, device, syncing, promised>>

\* The number of pages is measured on the file.
Open(f) ==
  /\ pageCount[f] = Closed
  /\ pageCount' = [pageCount EXCEPT ![f] = Len(written[f])]
  /\ UNCHANGED <<frames, older, dirty, written, device, syncing, latest, promised>>

\* The operating system may write a page to the device whenever it wants.
WriteBack(f, p) ==
  /\ p <= Len(written[f])
  /\ device' = [device EXCEPT ![f] = WriteThrough(@, p, written[f][p])]
  /\ UNCHANGED <<frames, older, dirty, pageCount, written, syncing, latest, promised>>

\* Nothing is left but what is on the device.
PoolCrash ==
  /\ frames' = <<>> /\ older' = <<>> /\ dirty' = {}
  /\ pageCount' = [f \in PoolFile |-> Closed]
  /\ written' = device /\ latest' = device
  /\ syncing' = [s \in Flusher |-> NotSyncing]
  /\ UNCHANGED <<device, promised>>

PoolNext ==
  \/ \E f \in PoolFile : \E p \in 1..FilePages[f] : Read(f, p) \/ Write(f, p) \/ WriteBack(f, p)
  \/ \E f \in PoolFile : Allocate(f) \/ FlushFails(f) \/ Close(f) \/ Discard(f) \/ Open(f)
  \/ \E s \in Flusher, f \in PoolFile : StartFlush(s, f)
  \/ \E s \in Flusher : EndFlush(s) \/ SyncFails(s)
  \/ PoolCrash

PoolSpec == PoolInit /\ [][PoolNext]_poolVars

-----------------------------------------------------------------------------
\* Whatever is read, written, evicted, flushed, closed and opened again, a read of
\* a page gives the last content given to write, although it may have left memory
\* and come back, or be in a file that ends before it.
ReadsSeeLastWrite ==
  \A f \in PoolFile : \A p \in 1..pageCount[f] : Shown(f, p) = latest[f][p]

\* What a flush has promised is on the device, and stays there, although fsync runs
\* outside the guard while other threads write, evict, flush and close.
FlushedSurvives ==
  \A f \in PoolFile : \A p \in DOMAIN promised[f] :
    p <= Len(device[f]) /\ device[f][p] >= promised[f][p]

PagesAreKept == PoolTypeOK /\ ReadsSeeLastWrite /\ FlushedSurvives

=============================================================================
