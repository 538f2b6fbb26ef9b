------------------------- MODULE VariableLengthFile -------------------------
(* storage/varlen: values of any length in slotted pages (slotted_page.py), cut
   in fragments that are chained (varlen_file.py), and the map of the room left
   in each page (free_space_map.py). Lengths are counted in a unit larger than
   the byte. A chunk of a value is [value, from, to]. The file's header, with the
   counters, is written when it is flushed or closed and is left out. *)
EXTENDS RecordPages, TLC

CONSTANTS VarlenLength,   \* the length of each value
          PageRoom,       \* page_size, less the header of the page
          EntryRoom,      \* SLOT_ENTRY_SIZE
          LinkRoom,       \* LINK_SIZE
          FullCategory,   \* FULL_CATEGORY
          GroupPages,     \* data pages of a group: page_size, told apart from PageRoom
          VarlenPageLimit, VarlenLimit \* bounds: pages of the file, values in it

ASSUME VarlenAssumption == PageRoom > EntryRoom + LinkRoom /\ GroupPages > 0

\* pages: map pages and data pages, the header left out; maxima: _maxima;
\* values, total: _count, _total_bytes.
VARIABLE varlen

VarlenValue == DOMAIN VarlenLength
InlineLimit == PageRoom - EntryRoom
ChunkSize == InlineLimit - LinkRoom
NoFragment == <<0, 0>>

ChunkLength(chunk) == chunk.to - chunk.from
Whole(chunk) == [kind |-> "whole", length |-> ChunkLength(chunk), link |-> NoFragment, chunk |-> chunk]
HeadOf(link, chunk) == [kind |-> "head", length |-> LinkRoom + ChunkLength(chunk), link |-> link, chunk |-> chunk]
Part(link, chunk) == [kind |-> "part", length |-> LinkRoom + ChunkLength(chunk), link |-> link, chunk |-> chunk]

-----------------------------------------------------------------------------
(* A slotted page: the directory of its slots, where the data zone starts and
   the room of the holes in it. A slot holds a fragment and its offset. *)

FreeSlot == [kind |-> "free", offset |-> 0, length |-> 0]
At(fragment, offset) == fragment @@ [offset |-> offset]

SlottedPage == [slots |-> <<>>, start |-> PageRoom, holes |-> 0]

Contiguous(page) == page.start - EntryRoom * Len(page.slots)
FreeRoom(page) == Contiguous(page) + page.holes

Taken(page) == {s \in DOMAIN page.slots : page.slots[s].kind # "free"}
FreeSlots(page) == DOMAIN page.slots \ Taken(page)

\* A new slot also takes room in the directory.
Insertable(page) ==
  Max({0, FreeRoom(page) - IF FreeSlots(page) = {} THEN EntryRoom ELSE 0})

RewriteCapacity(page, s) == FreeRoom(page) + page.slots[s].length

TotalLength(page, slots) == FoldSet(LAMBDA s, n : n + page.slots[s].length, 0, slots)

\* Every fragment moves to the end of the page, the one that was highest first.
Compacted(page) ==
  LET above(s) == {t \in Taken(page) :
                     \/ page.slots[t].offset > page.slots[s].offset
                     \/ page.slots[t].offset = page.slots[s].offset /\ t >= s}
      moved == FoldSet(LAMBDA s, slots :
                 [slots EXCEPT ![s].offset = PageRoom - TotalLength(page, above(s))],
                 page.slots, Taken(page))
  IN  [slots |-> moved, start |-> PageRoom - TotalLength(page, Taken(page)), holes |-> 0]

MadeContiguous(page, size) == IF Contiguous(page) < size THEN Compacted(page) ELSE page

PlaceFragment(page, s, fragment) ==
  [page EXCEPT !.start = @ - fragment.length,
               !.slots[s] = At(fragment, page.start - fragment.length)]

InsertSlot(page) == IF FreeSlots(page) = {} THEN Len(page.slots) + 1 ELSE Min(FreeSlots(page))

WithFreeSlot(page) ==
  IF FreeSlots(page) = {} THEN [page EXCEPT !.slots = Append(@, FreeSlot)] ELSE page

InsertFragment(page, fragment) ==
  LET wanted == fragment.length + IF FreeSlots(page) = {} THEN EntryRoom ELSE 0
  IN  PlaceFragment(WithFreeSlot(MadeContiguous(page, wanted)), InsertSlot(page), fragment)

\* The first fragment of the data zone gives its room back; another leaves a hole.
ReleaseSlot(page, s) ==
  LET slot == page.slots[s]
      left == IF slot.offset = page.start
              THEN [page EXCEPT !.start = @ + slot.length]
              ELSE [page EXCEPT !.holes = @ + slot.length]
  IN  [left EXCEPT !.slots[s] = FreeSlot]

\* Mutant: what a shorter fragment leaves is not counted as a hole.
ShortenedForgetting(page, s, fragment) ==
  [page EXCEPT !.slots[s] = At(fragment, page.slots[s].offset)]

\* A shorter fragment stays where the longer one was, and the rest is a hole.
Shortened(page, s, fragment) ==
  [page EXCEPT !.slots[s] = At(fragment, page.slots[s].offset),
               !.holes = @ + page.slots[s].length - fragment.length]

RewriteFragment(page, s, fragment) ==
  IF fragment.length <= page.slots[s].length
  THEN Shortened(page, s, fragment)
  ELSE PlaceFragment(MadeContiguous(ReleaseSlot(page, s), fragment.length), s, fragment)

\* The free slots at the end of the directory go.
FreeFragment(page, s) ==
  LET freed == ReleaseSlot(page, s)
  IN  [freed EXCEPT !.slots = SubSeq(@, 1, Max({0} \cup Taken(freed)))]

-----------------------------------------------------------------------------
(* The map of free space: a map page and the data pages that it describes, then
   the next map page, at fixed places. *)

IsMapPage(id) == (id - 1) % (GroupPages + 1) = 0
DataPages(f) == {id \in DOMAIN f.pages : ~IsMapPage(id)}
GroupOf(id) == (id - 1) \div (GroupPages + 1)
MapPageOf(id) == 1 + GroupOf(id) * (GroupPages + 1)

\* What is left is rounded down, what is wanted up, and is never none.
CategoryOf(room) == (room * FullCategory) \div InlineLimit
Wanted(size) == Max({1, (size * FullCategory + InlineLimit - 1) \div InlineLimit})

\* The first page of the first group with room; 0 if there is none.
FindRoom(f, size) ==
  LET groups == {g \in DOMAIN f.maxima : f.maxima[g] >= Wanted(size)}
      map    == 1 + (Min(groups) - 1) * (GroupPages + 1)
      fits   == {i \in 1..GroupPages : f.pages[map][i] >= Wanted(size)}
  IN  IF groups = {} THEN 0 ELSE map + Min(fits)

\* A data page is stored and what it admits is noted in its map.
StorePage(f, id, page) ==
  LET map        == MapPageOf(id)
      categories == [f.pages[map] EXCEPT ![id - map] = CategoryOf(Insertable(page))]
      previous   == f.pages[map][id - map]
      maximum(m) == CASE categories[id - map] > m                          -> categories[id - map]
                      [] categories[id - map] < previous /\ previous = m -> Max(ToSet(categories))
                      [] OTHER                                             -> m
  IN  [f EXCEPT !.pages[id] = page, !.pages[map] = categories,
                !.maxima[GroupOf(id) + 1] = maximum(@)]

\* A group starts with its map page, where every page has no room.
AllocatePage(f) ==
  IF IsMapPage(Len(f.pages) + 1)
  THEN [f EXCEPT !.pages = @ \o <<[i \in 1..GroupPages |-> 0], SlottedPage>>,
                 !.maxima = Append(@, 0)]
  ELSE [f EXCEPT !.pages = Append(@, SlottedPage)]

\* The address that a fragment gets, and the file with it.
PlaceIn(f, id, fragment) ==
  [address |-> <<id, InsertSlot(f.pages[id])>>,
   file    |-> StorePage(f, id, InsertFragment(f.pages[id], fragment))]

Place(f, fragment) ==
  LET found == FindRoom(f, fragment.length)
      ready == IF found = 0 THEN AllocatePage(f) ELSE f
  IN  PlaceIn(ready, IF found = 0 THEN Len(ready.pages) ELSE found, fragment)

FreeAt(f, address) == StorePage(f, address[1], FreeFragment(f.pages[address[1]], address[2]))

-----------------------------------------------------------------------------
FragmentAt(f, address) == f.pages[address[1]].slots[address[2]]

\* The chain of a fragment, from the one after it on.
Continuation(f, fragment) ==
  LET follow[n \in 0..Len(f.pages)] ==
        IF n = 0 THEN <<fragment.link>>
        ELSE IF Last(follow[n - 1]) = NoFragment THEN follow[n - 1]
             ELSE Append(follow[n - 1], FragmentAt(f, Last(follow[n - 1])).link)
  IN  Front(follow[Len(f.pages)])

\* From the last fragment to the second; the first has what is left over.
FirstLength(length) == IF length % ChunkSize = 0 THEN ChunkSize ELSE length % ChunkSize
WithHead(placed, value, first) ==
  [file |-> placed.file, first |-> HeadOf(placed.address, [value |-> value, from |-> 0, to |-> first])]

WriteContinuation(f, value) ==
  LET length == VarlenLength[value]
      first  == FirstLength(length)
      parts  == (length - first) \div ChunkSize
      chunk(n) == [value |-> value, from |-> first + (n - 1) * ChunkSize, to |-> first + n * ChunkSize]
  IN  IF length <= InlineLimit
      THEN [file |-> f, first |-> Whole([value |-> value, from |-> 0, to |-> length])]
      ELSE WithHead(FoldLeft(LAMBDA done, n : Place(done.file, Part(done.address, chunk(n))),
                             [address |-> NoFragment, file |-> f],
                             [n \in 1..parts |-> parts + 1 - n]),
                    value, first)

ReleaseContinuation(f, address) ==
  FoldLeft(FreeAt, f, Continuation(f, FragmentAt(f, address)))

Assemble(f, address) ==
  LET first == FragmentAt(f, address)
      rest  == Continuation(f, first)
  IN  <<first.chunk>> \o [n \in DOMAIN rest |-> FragmentAt(f, rest[n]).chunk]

\* The addresses of values: those of first fragments.
Values(f) ==
  {<<id, s>> \in DataPages(f) \X (1..PageRoom) :
     s \in DOMAIN f.pages[id].slots /\ f.pages[id].slots[s].kind \in {"whole", "head"}}

VarlenInit ==
  varlen = [pages |-> <<>>, maxima |-> <<>>, values |-> 0, total |-> 0]

PutFirst(written) == Place(written.file, written.first).file

VarlenPut(value) ==
  /\ varlen.values < VarlenLimit
  /\ varlen' = [PutFirst(WriteContinuation(varlen, value))
                  EXCEPT !.values = @ + 1, !.total = @ + VarlenLength[value]]
  /\ Len(varlen'.pages) <= VarlenPageLimit

LengthAt(f, address) ==
  FoldLeft(LAMBDA n, chunk : n + ChunkLength(chunk), 0, Assemble(f, address))

\* The old continuation goes before the new one is written; the first fragment
\* stays in its slot if the new one fits there, and moves if not.
ReplaceFirst(f, address, first) ==
  LET page == f.pages[address[1]]
  IN  IF RewriteCapacity(page, address[2]) >= first.length
      THEN StorePage(f, address[1], RewriteFragment(page, address[2], first))
      ELSE Place(FreeAt(f, address), first).file
ReplaceWritten(written, address, grown) ==
  ReplaceFirst([written.file EXCEPT !.total = @ + grown], address, written.first)

VarlenReplace(address, value) ==
  /\ address \in Values(varlen)
  /\ varlen' = ReplaceWritten(WriteContinuation(ReleaseContinuation(varlen, address), value),
                              address, VarlenLength[value] - LengthAt(varlen, address))
  /\ Len(varlen'.pages) <= VarlenPageLimit

VarlenDelete(address) ==
  /\ address \in Values(varlen)
  /\ varlen' = [FreeAt(ReleaseContinuation(varlen, address), address)
                  EXCEPT !.values = @ - 1, !.total = @ - LengthAt(varlen, address)]

VarlenNext ==
  \/ \E value \in VarlenValue : VarlenPut(value)
  \/ \E address \in Values(varlen), value \in VarlenValue : VarlenReplace(address, value)
  \/ \E address \in Values(varlen) : VarlenDelete(address)

VarlenSpec == VarlenInit /\ [][VarlenNext]_varlen

-----------------------------------------------------------------------------
VarlenTypeOK ==
  /\ Len(varlen.pages) <= VarlenPageLimit
  /\ Len(varlen.maxima) = Cardinality({id \in DOMAIN varlen.pages : IsMapPage(id)})
  /\ varlen.values \in Nat /\ varlen.total \in Nat

WithBytes(page) == {s \in Taken(page) : page.slots[s].length > 0}

\* A page whose fragments share no room, whose holes are what no fragment has,
\* and whose directory ends in a fragment and before the data.
PageSound(page) ==
  /\ \A s, t \in WithBytes(page) :
       LET a == page.slots[s] b == page.slots[t]
       IN  s = t \/ a.offset + a.length <= b.offset \/ b.offset + b.length <= a.offset
  /\ \A s \in WithBytes(page) : page.slots[s].offset >= page.start
  /\ page.holes = PageRoom - page.start - TotalLength(page, Taken(page))
  /\ Contiguous(page) >= 0
  /\ page.slots # <<>> => Len(page.slots) \in Taken(page)

\* After any puts, replacements and deletions the pages are sound, each value is
\* read whole, from fragments that are those of no other value, no fragment is
\* left without a value, and the map never promises room that a page lacks.
VarlenSound ==
  LET firsts == Values(varlen)
      chain(a) == <<a>> \o Continuation(varlen, FragmentAt(varlen, a))
      fragments == {<<id, s>> \in DataPages(varlen) \X (1..PageRoom) : s \in Taken(varlen.pages[id])}
  IN  /\ VarlenTypeOK
      /\ \A id \in DataPages(varlen) :
           /\ PageSound(varlen.pages[id])
           /\ varlen.pages[MapPageOf(id)][id - MapPageOf(id)] = CategoryOf(Insertable(varlen.pages[id]))
      /\ \A g \in DOMAIN varlen.maxima :
           varlen.maxima[g] = Max(ToSet(varlen.pages[1 + (g - 1) * (GroupPages + 1)]))
      /\ UNION {ToSet(chain(a)) : a \in firsts} = fragments
      /\ FoldSet(LAMBDA a, n : n + Len(chain(a)), 0, firsts) = Cardinality(fragments)
      /\ \A a \in firsts :
           LET chunks == Assemble(varlen, a)
           IN  /\ chunks[1].from = 0
               /\ \A n \in 2..Len(chunks) : chunks[n].value = chunks[1].value /\ chunks[n].from = chunks[n - 1].to
               /\ Last(chunks).to = VarlenLength[chunks[1].value]
      /\ varlen.values = Cardinality(firsts)
      /\ varlen.total = FoldSet(LAMBDA a, n : n + LengthAt(varlen, a), 0, firsts)

\* The values by address.
VarlenRows == [a \in Values(varlen) |-> FragmentAt(varlen, a).chunk.value]

=============================================================================
