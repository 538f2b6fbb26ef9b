---------------------------- MODULE RecordPages ----------------------------
(* Pages of fixed-size records (storage/page.py) and the list of free pages of
   a file (storage/layout.py), as operators of the structures built on them.
   Slots and pages are numbered from 1. *)
EXTENDS Integers, Sequences, FiniteSets, SequencesExt

CONSTANT SlotsPerPage

ASSUME SlotsAssumption == SlotsPerPage \in Nat \ {0}

NoPage == -1

Hole == [state |-> "empty"]
Used(record) == [state |-> "used", record |-> record]
Tombstone(record) == [state |-> "deleted", record |-> record]

NewPage == [slots |-> <<>>, next |-> NoPage, flags |-> 0]

\* A freed slot of the directory comes before a new one; 0 if the page is full.
FirstFreeSlot(page) ==
  LET holes == {i \in DOMAIN page.slots : page.slots[i].state = "empty"}
  IN  CASE holes # {}                        -> Min(holes)
        [] holes = {} /\ Len(page.slots) < SlotsPerPage -> Len(page.slots) + 1
        [] OTHER                             -> 0

IsFull(page) == FirstFreeSlot(page) = 0

LiveSlots(page) == {i \in DOMAIN page.slots : page.slots[i].state = "used"}

LiveRecords(page) ==
  LET used == SelectSeq(page.slots, LAMBDA slot : slot.state = "used")
  IN  [i \in DOMAIN used |-> used[i].record]

PageWrite(page, i, record) ==
  IF i = Len(page.slots) + 1
  THEN [page EXCEPT !.slots = Append(@, Used(record))]
  ELSE [page EXCEPT !.slots[i] = Used(record)]

PageInsert(page, record) == PageWrite(page, FirstFreeSlot(page), record)

\* Shifts what follows to the right, to keep the page in order.
PageInsertAt(page, i, record) == [page EXCEPT !.slots = InsertAt(@, i, Used(record))]

PageFill(page, records) == FoldLeft(PageInsert, page, records)

\* Free slots at the end of the page are given back.
PageFree(page, i) ==
  LET slots == [page.slots EXCEPT ![i] = Hole]
      taken == {j \in DOMAIN slots : slots[j].state # "empty"}
  IN  [page EXCEPT !.slots = SubSeq(slots, 1, IF taken = {} THEN 0 ELSE Max(taken))]

PageTombstone(page, i) == [page EXCEPT !.slots[i] = Tombstone(@.record)]

\* The pages that a chain goes through, in order. A chain longer than the file
\* would be a cycle, at which chained_links raises.
Follow(pages, first, before, n) ==
  LET link == IF before = <<>> THEN first ELSE pages[Last(before)].next
  IN  IF link = NoPage \/ Len(before) < n - 1 THEN before ELSE Append(before, link)

Chain(pages, first) ==
  LET follow[n \in 0..Len(pages)] ==
        IF n = 0 THEN <<>> ELSE Follow(pages, first, follow[n - 1], n)
  IN  follow[Len(pages)]

-----------------------------------------------------------------------------
\* FreePageList, over a file with its pages and the head of its free list: a
\* released page is overwritten with the number of the next.
FreePage(next) == [free |-> TRUE, next |-> next]

NextPage(file) == IF file.free = NoPage THEN Len(file.pages) + 1 ELSE file.free

\* The page allocated is the one that NextPage tells, with its first content.
WithPage(file, page) ==
  IF file.free = NoPage
  THEN [file EXCEPT !.pages = Append(@, page)]
  ELSE [file EXCEPT !.pages[file.free] = page, !.free = file.pages[file.free].next]

Released(file, id) == [file EXCEPT !.pages[id] = FreePage(file.free), !.free = id]

FreePages(file) == Chain(file.pages, file.free)

\* The free pages and the pages in use are all the pages, and no page is both, or
\* free twice.
PagesAccounted(file, inUse) ==
  /\ ToSet(FreePages(file)) = DOMAIN file.pages \ inUse
  /\ inUse \subseteq DOMAIN file.pages
  /\ Len(FreePages(file)) + Cardinality(inUse) = Len(file.pages)

=============================================================================
