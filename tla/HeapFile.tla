------------------------------ MODULE HeapFile ------------------------------
(* storage/heap/heap_file.py: records in no order, each at an address that does
   not change, with a linked list of the pages that have room. *)
EXTENDS RecordPages

CONSTANTS HeapRecord,   \* the records, told apart
          HeapPageLimit \* bound: pages the file may grow to

ASSUME HeapAssumption == HeapPageLimit \in Nat

VARIABLES heapPages,  \* the data pages, from page 1
          freeHead,   \* _free_head
          heapCount   \* _count

heapVars == <<heapPages, freeHead, heapCount>>

Address == (1..HeapPageLimit) \X (1..SlotsPerPage)

HeapLive(address) ==
  /\ address[1] \in DOMAIN heapPages
  /\ address[2] \in LiveSlots(heapPages[address[1]])

HeapAddresses == {address \in Address : HeapLive(address)}

\* The records by address, as read and scan give them.
HeapRows == [address \in HeapAddresses |-> heapPages[address[1]].slots[address[2]].record]

HeapTypeOK ==
  /\ DOMAIN heapPages \subseteq 1..HeapPageLimit
  /\ freeHead \in DOMAIN heapPages \cup {NoPage}
  /\ heapCount \in Nat

HeapInit == heapPages = <<>> /\ freeHead = NoPage /\ heapCount = 0

\* The head of the list leaves it when it has just been filled.
PlaceInHead(pages, id, page) ==
  IF IsFull(page)
  THEN /\ heapPages' = [pages EXCEPT ![id] = [page EXCEPT !.next = NoPage]]
       /\ freeHead' = page.next
  ELSE /\ heapPages' = [pages EXCEPT ![id] = page]
       /\ freeHead' = id

\* A file without room grows by a page, which is first linked as any other.
HeapInsert(record) ==
  LET grows == freeHead = NoPage
      pages == IF grows THEN Append(heapPages, NewPage) ELSE heapPages
      id    == IF grows THEN Len(pages) ELSE freeHead
  IN  /\ Len(pages) <= HeapPageLimit
      /\ PlaceInHead(pages, id, PageInsert(pages[id], record))
      /\ heapCount' = heapCount + 1

HeapUpdate(address, record) ==
  /\ HeapLive(address)
  /\ heapPages' = [heapPages EXCEPT ![address[1]] = PageWrite(@, address[2], record)]
  /\ UNCHANGED <<freeHead, heapCount>>

\* Mutant: the page is linked whether it was full or not.
LinkAlways(id, page) ==
  /\ heapPages' = [heapPages EXCEPT ![id] = [page EXCEPT !.next = freeHead]]
  /\ freeHead' = id

\* Only a page that was full is linked, at the head.
LinkIfFull(id, page) ==
  IF IsFull(heapPages[id])
  THEN /\ heapPages' = [heapPages EXCEPT ![id] = [page EXCEPT !.next = freeHead]]
       /\ freeHead' = id
  ELSE heapPages' = [heapPages EXCEPT ![id] = page] /\ UNCHANGED freeHead

HeapDelete(address) ==
  /\ HeapLive(address)
  /\ LinkIfFull(address[1], PageFree(heapPages[address[1]], address[2]))
  /\ heapCount' = heapCount - 1

HeapNext ==
  \/ \E record \in HeapRecord : HeapInsert(record)
  \/ \E address \in Address, record \in HeapRecord : HeapUpdate(address, record)
  \/ \E address \in Address : HeapDelete(address)

HeapSpec == HeapInit /\ [][HeapNext]_heapVars

-----------------------------------------------------------------------------
FreeList == Chain(heapPages, freeHead)

\* The list of pages with room has each page that has a free slot, once, and no
\* other, and the count is that of the records a scan returns. A page linked
\* twice, or lost, only shows after several inserts and deletes.
HeapSound ==
  /\ HeapTypeOK
  /\ ToSet(FreeList) = {id \in DOMAIN heapPages : ~IsFull(heapPages[id])}
  /\ \A i, j \in DOMAIN FreeList : FreeList[i] = FreeList[j] => i = j
  /\ freeHead # NoPage => heapPages[Last(FreeList)].next = NoPage
  /\ heapCount = Cardinality(HeapAddresses)

=============================================================================
