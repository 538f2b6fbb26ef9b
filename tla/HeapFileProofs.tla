--------------------------- MODULE HeapFileProofs ---------------------------
(* Proofs about HeapFile and the chains of pages of RecordPages, for any records, size of the
   pages and bound on the file. *)
EXTENDS HeapFile, FiniteSetTheorems, WellFoundedInduction, TLAPS

-----------------------------------------------------------------------------
(* Numbers.                                                                 *)

LEMMA LeastIs ==
  ASSUME NEW S, S \subseteq Nat, S # {}
  PROVE  Min(S) \in S /\ \A n \in S : Min(S) <= n
<1> DEFINE R == OpToRel(<, Nat)
<1>1. IsWellFoundedOn(R, Nat)
  BY NatLessThanWellFounded, Zenon
<1>2. \A m, n \in Nat : <<m, n>> \in R <=> m < n
  BY DEF OpToRel
<1> HIDE DEF R
<1>3. PICK k \in S : \A n \in S : ~(<<n, k>> \in R)
  BY <1>1, WFMin
<1>4. ASSUME NEW n \in S PROVE k <= n
  <2>1. ~(n < k)
    BY <1>2, <1>3
  <2>2. QED
    BY <2>1
<1>5. QED
  BY <1>4 DEF Min

LEMMA GreatestIs ==
  ASSUME NEW S, NEW b \in Nat, S \subseteq 0..b, S # {}
  PROVE  Max(S) \in S /\ \A n \in S : n <= Max(S)
<1> DEFINE Below == {k \in 0..b : b - k \in S}
<1>1. Below \subseteq Nat /\ Below # {}
  <2>1. PICK n \in S : TRUE
    OBVIOUS
  <2>2. b - n \in 0..b /\ b - (b - n) = n
    OBVIOUS
  <2>3. QED
    BY <2>1, <2>2
<1>2. Min(Below) \in Below /\ \A k \in Below : Min(Below) <= k
  BY <1>1, LeastIs
<1> DEFINE m == b - Min(Below)
<1>3. m \in S
  BY <1>2
<1>4. ASSUME NEW n \in S PROVE m >= n
  <2>1. b - n \in Below /\ n \in Nat
    OBVIOUS
  <2>2. Min(Below) <= b - n /\ Min(Below) \in Nat
    BY <1>2, <2>1
  <2>3. QED
    BY <2>1, <2>2
<1> HIDE DEF m
<1>5. QED
  BY <1>3, <1>4 DEF Max

LEMMA CountUpTo ==
  ASSUME NEW n \in Nat
  PROVE  IsFiniteSet(1..n) /\ Cardinality(1..n) = n
<1>1. IsFiniteSet(1..n) /\ Cardinality(1..n) = IF 1 > n THEN 0 ELSE n - 1 + 1
  BY FS_Interval
<1>2. QED
  BY <1>1

LEMMA SameSequence ==
  ASSUME NEW S, NEW a \in Seq(S), NEW b \in Seq(S), Len(a) = Len(b),
         \A i \in 1..Len(a) : a[i] = b[i]
  PROVE  a = b
OBVIOUS

-----------------------------------------------------------------------------
(* Chains.                                                                  *)

\* The chain that begins at first goes through the pages of list, each once, and ends.
Linked(pages, first, list) ==
  /\ list \in Seq(DOMAIN pages)
  /\ \A i, j \in 1..Len(list) : list[i] = list[j] => i = j
  /\ list = <<>> => first = NoPage
  /\ list # <<>> => first = list[1]
  /\ \A i \in 1..Len(list) : /\ i < Len(list) => pages[list[i]].next = list[i + 1]
                             /\ i = Len(list) => pages[list[i]].next = NoPage

\* As far as n links of a list.
Prefix(list, n) == [i \in 1..(IF n <= Len(list) THEN n ELSE Len(list)) |-> list[i]]

LEMMA PrefixIs ==
  ASSUME NEW S, NEW list \in Seq(S), NEW n \in Nat
  PROVE  /\ n <= Len(list) => Len(Prefix(list, n)) = n
         /\ Len(list) <= n => Prefix(list, n) = list
         /\ Prefix(list, n) \in Seq(S)
         /\ \A i \in 1..Len(Prefix(list, n)) : Prefix(list, n)[i] = list[i]
         /\ Prefix(list, 0) = <<>>
<1>1. Len(list) \in Nat /\ \A i \in 1..Len(list) : list[i] \in S
  OBVIOUS
<1>2. CASE n <= Len(list)
  <2>1. Prefix(list, n) = [i \in 1..n |-> list[i]]
    BY <1>2 DEF Prefix
  <2>2. \A i \in 1..n : list[i] \in S
    BY <1>1, <1>2
  <2>3. Prefix(list, n) \in Seq(S) /\ Len(Prefix(list, n)) = n
    BY <2>1, <2>2
  <2>4. n = Len(list) => Prefix(list, n) = list
    BY <2>1
  <2>5. Prefix(list, 0) = <<>>
    BY <1>1 DEF Prefix
  <2>6. QED
    BY <1>1, <1>2, <2>1, <2>3, <2>4, <2>5
<1>3. CASE ~(n <= Len(list))
  <2>1. Prefix(list, n) = [i \in 1..Len(list) |-> list[i]]
    BY <1>3 DEF Prefix
  <2>2. Prefix(list, n) = list
    BY <2>1
  <2>3. Prefix(list, 0) = <<>>
    BY <1>1 DEF Prefix
  <2>4. QED
    BY <1>1, <1>3, <2>2, <2>3
<1>4. QED
  BY <1>2, <1>3

LEMMA FollowGoesOn ==
  ASSUME NEW pages, NEW first, NEW list, Linked(pages, first, list), DOMAIN pages \subseteq Nat,
         NEW n \in Nat \ {0}
  PROVE  Follow(pages, first, Prefix(list, n - 1), n) = Prefix(list, n)
<1> DEFINE before == Prefix(list, n - 1)
           link == IF before = <<>> THEN first ELSE pages[Last(before)].next
<1>0. list \in Seq(DOMAIN pages) /\ Len(list) \in Nat /\ n - 1 \in Nat /\ n \in Nat
  BY DEF Linked
<1>1. /\ n - 1 <= Len(list) => Len(before) = n - 1
      /\ Len(list) <= n - 1 => before = list
      /\ before \in Seq(DOMAIN pages)
      /\ \A i \in 1..Len(before) : before[i] = list[i]
  BY <1>0, PrefixIs
<1>2. Follow(pages, first, before, n)
      = IF link = NoPage \/ Len(before) < n - 1 THEN before ELSE Append(before, link)
  BY DEF Follow
<1>3. CASE Len(list) <= n - 1
  <2>1. before = list /\ Prefix(list, n) = list
    <3>1. Len(list) <= n
      BY <1>0, <1>3
    <3>2. QED
      BY <1>0, <1>1, <1>3, <3>1, PrefixIs
  <2>2. link = NoPage
    BY <1>0, <2>1 DEF Linked, Last
  <2>3. QED
    BY <1>2, <2>1, <2>2
<1>4. CASE n - 1 < Len(list)
  <2>1. Len(before) = n - 1 /\ n \in 1..Len(list)
    BY <1>0, <1>1, <1>4
  <2>2. link = list[n]
    <3>1. CASE n = 1
      BY <1>1, <2>1, <3>1 DEF Linked
    <3>2. CASE n # 1
      <4>1. before # <<>> /\ n - 1 \in 1..Len(list) /\ n - 1 < Len(list) /\ (n - 1) + 1 = n
        BY <1>0, <2>1, <3>2
      <4>2. Last(before) = list[n - 1]
        BY <1>1, <2>1, <4>1 DEF Last
      <4>3. QED
        BY <4>1, <4>2 DEF Linked
    <3>3. QED
      BY <3>1, <3>2
  <2>3. link # NoPage
    BY <1>0, <2>1, <2>2 DEF NoPage
  <2>4. Follow(pages, first, before, n) = Append(before, list[n])
    <3>1. ~(Len(before) < n - 1)
      BY <1>0, <2>1
    <3> HIDE DEF link, before
    <3>2. QED
      BY <1>2, <2>2, <2>3, <3>1
  <2>5. Prefix(list, n) \in Seq(DOMAIN pages) /\ Len(Prefix(list, n)) = n
        /\ \A i \in 1..n : Prefix(list, n)[i] = list[i]
    BY <1>0, <2>1, PrefixIs
  <2> HIDE DEF before
  <2>6. Append(before, list[n]) = Prefix(list, n)
    <3> DEFINE longer == Append(before, list[n])
    <3>1. before \in Seq(DOMAIN pages) /\ list[n] \in DOMAIN pages /\ Len(before) + 1 = n
      BY <1>0, <1>1, <2>1
    <3>2. longer \in Seq(DOMAIN pages) /\ Len(longer) = n
      BY <3>1
    <3>3. ASSUME NEW i \in 1..n PROVE longer[i] = list[i]
      <4>1. CASE i = n
        BY <3>1, <4>1
      <4>2. CASE i # n
        <5>1. i \in 1..Len(before)
          BY <1>0, <3>1, <4>2
        <5>2. longer[i] = before[i]
          BY <3>1, <5>1
        <5>3. QED
          BY <1>1, <5>1, <5>2
      <4>3. QED
        BY <4>1, <4>2
    <3> HIDE DEF longer
    <3>4. QED
      <4>1. Prefix(list, n) \in Seq(DOMAIN pages) /\ Len(Prefix(list, n)) = Len(longer)
        BY <2>5, <3>2
      <4>2. \A i \in 1..Len(longer) : longer[i] = Prefix(list, n)[i]
        BY <2>5, <3>2, <3>3
      <4>3. longer = Prefix(list, n)
        BY <3>2, <4>1, <4>2, SameSequence
      <4>4. QED
        BY <4>3 DEF longer
  <2>7. QED
    BY <2>4, <2>6 DEF before
<1>5. QED
  BY <1>0, <1>3, <1>4

\* A chain is the list of the pages linked from its beginning, if there is one.
LEMMA ChainIs ==
  ASSUME NEW pages, NEW first, NEW list, Linked(pages, first, list),
         Len(pages) \in Nat, DOMAIN pages = 1..Len(pages)
  PROVE  Chain(pages, first) = list
<1> DEFINE N == Len(pages)
           f == CHOOSE h : h = [n \in 0..N |-> IF n = 0 THEN <<>>
                                               ELSE Follow(pages, first, h[n - 1], n)]
           g == [n \in 0..N |-> Prefix(list, n)]
<1>0. list \in Seq(1..N) /\ N \in Nat /\ DOMAIN pages \subseteq Nat
  BY DEF Linked
<1>1. Chain(pages, first) = f[N]
  BY DEF Chain
<1>2. \A n \in 1..N : Follow(pages, first, Prefix(list, n - 1), n) = Prefix(list, n)
  <2>1. \A n \in 1..N : n \in Nat \ {0}
    BY <1>0
  <2>2. QED
    BY <1>0, <2>1, FollowGoesOn
<1>3. g = [n \in 0..N |-> IF n = 0 THEN <<>> ELSE Follow(pages, first, g[n - 1], n)]
  <2>1. Prefix(list, 0) = <<>>
    BY <1>0, PrefixIs
  <2>2. \A n \in 0..N : n # 0 => g[n - 1] = Prefix(list, n - 1)
    BY <1>0
  <2>3. ASSUME NEW n \in 0..N
        PROVE  Prefix(list, n) = IF n = 0 THEN <<>> ELSE Follow(pages, first, g[n - 1], n)
    <3>1. CASE n = 0
      BY <2>1, <3>1
    <3>2. CASE n # 0
      <4>1. n \in 1..N
        BY <1>0, <3>2
      <4>2. QED
        BY <1>2, <2>2, <3>2, <4>1
    <3>3. QED
      BY <3>1, <3>2
  <2>4. QED
    BY <2>3
<1> HIDE DEF g
<1>4. f = [n \in 0..N |-> IF n = 0 THEN <<>> ELSE Follow(pages, first, f[n - 1], n)]
  BY <1>3
<1> HIDE DEF f
<1>5. ASSUME NEW n \in 0..N PROVE f[n] = Prefix(list, n)
  <2> DEFINE Wrong == {k \in 0..N : f[k] # Prefix(list, k)}
  <2>1. SUFFICES ASSUME Wrong # {} PROVE FALSE
    OBVIOUS
  <2> DEFINE k == Min(Wrong)
  <2>2. k \in Wrong /\ \A m \in Wrong : k <= m
    <3>1. Wrong \subseteq Nat
      BY <1>0
    <3>2. QED
      BY <2>1, <3>1, LeastIs
  <2> HIDE DEF k
  <2>3. k \in 0..N /\ f[k] # Prefix(list, k)
    BY <2>2
  <2>4. CASE k = 0
    BY <1>0, <1>4, <2>3, <2>4, PrefixIs
  <2>5. CASE k # 0
    <3>1. k \in 1..N /\ k - 1 \in 0..N /\ ~(k <= k - 1)
      BY <1>0, <2>3, <2>5
    <3>2. f[k - 1] = Prefix(list, k - 1)
      BY <2>2, <3>1
    <3>3. f[k] = Follow(pages, first, f[k - 1], k)
      BY <1>4, <2>3, <2>5
    <3>4. QED
      BY <1>2, <2>3, <3>1, <3>2, <3>3
  <2>6. QED
    BY <2>4, <2>5
<1>6. Len(list) <= N
  <2>1. list \in Injection(1..Len(list), 1..N)
    BY <1>0 DEF Linked, Injection, IsInjective
  <2>2. IsFiniteSet(1..N) /\ Cardinality(1..N) = N
    BY <1>0, CountUpTo
  <2>3. Cardinality(1..Len(list)) = Len(list)
    BY <1>0, CountUpTo
  <2>4. Cardinality(1..Len(list)) <= Cardinality(1..N)
    BY <2>1, <2>2, FS_Injection
  <2>5. QED
    BY <2>2, <2>3, <2>4
<1>7. f[N] = Prefix(list, N) /\ Prefix(list, N) = list
  BY <1>0, <1>5, <1>6, PrefixIs
<1>8. QED
  BY <1>1, <1>7

-----------------------------------------------------------------------------
(* Pages.                                                                   *)

HeapSlot == {Hole} \cup {Used(record) : record \in HeapRecord}

HeapPage == [slots : Seq(HeapSlot), next : Nat \cup {NoPage}, flags : Nat]

PageOK(page) == page \in HeapPage /\ Len(page.slots) <= SlotsPerPage

LEMMA SlotIs ==
  /\ Hole \in HeapSlot /\ Hole.state = "empty"
  /\ \A record \in HeapRecord : /\ Used(record) \in HeapSlot
                                 /\ Used(record).state = "used" /\ Used(record).record = record
  /\ \A slot \in HeapSlot : slot.state = "empty" \/ slot.state = "used"
  /\ \A slot \in HeapSlot : slot.state = "used" => slot.record \in HeapRecord
<1>1. Hole \in HeapSlot /\ Hole.state = "empty"
  BY DEF HeapSlot, Hole
<1>2. ASSUME NEW record \in HeapRecord
      PROVE  /\ Used(record) \in HeapSlot
             /\ Used(record).state = "used" /\ Used(record).record = record
  BY DEF HeapSlot, Used
<1>3. ASSUME NEW slot \in HeapSlot
      PROVE  /\ slot.state = "empty" \/ slot.state = "used"
             /\ slot.state = "used" => slot.record \in HeapRecord
  <2>1. CASE slot = Hole
    BY <1>1, <2>1
  <2>2. ASSUME NEW record \in HeapRecord, slot = Used(record)
        PROVE  slot.state = "used" /\ slot.record \in HeapRecord
    BY <1>2, <2>2
  <2>3. QED
    BY <2>1, <2>2, <1>1 DEF HeapSlot
<1>4. QED
  BY <1>1, <1>2, <1>3

\* Where the next record of a page goes.
LEMMA FreeSlotIs ==
  ASSUME NEW page, PageOK(page)
  PROVE  /\ IsFull(page) <=> /\ Len(page.slots) = SlotsPerPage
                             /\ \A i \in 1..Len(page.slots) : page.slots[i].state = "used"
         /\ LiveSlots(page) \subseteq 1..Len(page.slots)
         /\ ~IsFull(page) =>
              /\ FirstFreeSlot(page) \in 1..SlotsPerPage /\ FirstFreeSlot(page) \notin LiveSlots(page)
              /\ FirstFreeSlot(page) \in 1..(Len(page.slots) + 1)
<1> DEFINE holes == {i \in DOMAIN page.slots : page.slots[i].state = "empty"}
<1>0. /\ page.slots \in Seq(HeapSlot) /\ Len(page.slots) \in Nat /\ SlotsPerPage \in Nat \ {0}
      /\ DOMAIN page.slots = 1..Len(page.slots) /\ Len(page.slots) <= SlotsPerPage
  BY SlotsAssumption DEF PageOK, HeapPage
<1>1. ASSUME NEW i \in 1..Len(page.slots)
      PROVE  page.slots[i].state = "used" <=> i \notin holes
  <2>1. page.slots[i] \in HeapSlot
    BY <1>0
  <2>2. page.slots[i].state = "empty" \/ page.slots[i].state = "used"
    BY <2>1, SlotIs
  <2>3. QED
    BY <1>0, <2>2
<1>2. LiveSlots(page) \subseteq 1..Len(page.slots) /\ LiveSlots(page) \cap holes = {}
  BY <1>0 DEF LiveSlots
<1>3. FirstFreeSlot(page) = CASE holes # {}                                  -> Min(holes)
                              [] holes = {} /\ Len(page.slots) < SlotsPerPage -> Len(page.slots) + 1
                              [] OTHER                                       -> 0
  BY DEF FirstFreeSlot
<1>4. CASE holes # {}
  <2>1. holes \subseteq Nat
    BY <1>0
  <2>2. Min(holes) \in holes
    BY <1>4, <2>1, LeastIs
  <2>3. FirstFreeSlot(page) = Min(holes)
    BY <1>3, <1>4
  <2> DEFINE n == FirstFreeSlot(page)
  <2>4. n \in holes /\ n \in 1..Len(page.slots)
    BY <1>0, <2>2, <2>3
  <2>5. n # 0 /\ n \in 1..SlotsPerPage /\ n \in 1..(Len(page.slots) + 1) /\ n \notin LiveSlots(page)
    BY <1>0, <1>2, <2>4
  <2>6. page.slots[n].state # "used"
    BY <1>1, <2>4
  <2>7. QED
    BY <1>2, <2>4, <2>5, <2>6 DEF IsFull
<1>5. CASE holes = {} /\ Len(page.slots) < SlotsPerPage
  <2>1. FirstFreeSlot(page) = Len(page.slots) + 1
    BY <1>3, <1>5
  <2>2. /\ Len(page.slots) + 1 # 0 /\ Len(page.slots) + 1 \in 1..SlotsPerPage
        /\ Len(page.slots) + 1 \in 1..(Len(page.slots) + 1)
        /\ Len(page.slots) + 1 \notin 1..Len(page.slots)
        /\ Len(page.slots) # SlotsPerPage
    BY <1>0, <1>5
  <2>3. QED
    BY <1>2, <2>1, <2>2 DEF IsFull
<1>6. CASE holes = {} /\ ~(Len(page.slots) < SlotsPerPage)
  <2>1. IsFull(page)
    BY <1>3, <1>6 DEF IsFull
  <2>2. Len(page.slots) = SlotsPerPage
    BY <1>0, <1>6
  <2>3. QED
    BY <1>1, <1>2, <1>6, <2>1, <2>2
<1>7. QED
  BY <1>4, <1>5, <1>6

\* A record is written in a slot there is, or in the one after them.
LEMMA WriteIs ==
  ASSUME NEW page, PageOK(page), NEW record \in HeapRecord, NEW n \in 1..SlotsPerPage,
         n \in 1..(Len(page.slots) + 1)
  PROVE  /\ PageOK(PageWrite(page, n, record))
         /\ PageWrite(page, n, record).next = page.next
         /\ LiveSlots(PageWrite(page, n, record)) = LiveSlots(page) \cup {n}
         /\ PageWrite(page, n, record).slots[n].record = record
         /\ \A i \in LiveSlots(page) \ {n} :
              PageWrite(page, n, record).slots[i].record = page.slots[i].record
         /\ n \in LiveSlots(page) => (IsFull(PageWrite(page, n, record)) <=> IsFull(page))
<1> DEFINE new == PageWrite(page, n, record)
<1>0. /\ page.slots \in Seq(HeapSlot) /\ Len(page.slots) \in Nat /\ SlotsPerPage \in Nat \ {0}
      /\ DOMAIN page.slots = 1..Len(page.slots) /\ Len(page.slots) <= SlotsPerPage
      /\ page \in HeapPage
  BY SlotsAssumption DEF PageOK, HeapPage
<1>1. Used(record) \in HeapSlot /\ Used(record).state = "used" /\ Used(record).record = record
  BY SlotIs
<1>2. /\ new.slots \in Seq(HeapSlot) /\ new.slots[n] = Used(record) /\ n \in 1..Len(new.slots)
      /\ \A i \in 1..Len(page.slots) : i \in 1..Len(new.slots) /\ (i # n => new.slots[i] = page.slots[i])
      /\ \A i \in 1..Len(new.slots) : i # n => i \in 1..Len(page.slots)
      /\ Len(new.slots) <= SlotsPerPage /\ new.next = page.next /\ new \in HeapPage
      /\ n # Len(page.slots) + 1 => Len(new.slots) = Len(page.slots)
  <2>1. CASE n = Len(page.slots) + 1
    <3>1. new = [page EXCEPT !.slots = Append(page.slots, Used(record))]
      BY <2>1 DEF PageWrite
    <3>2. new.slots = Append(page.slots, Used(record)) /\ new.next = page.next
      BY <1>0, <3>1 DEF HeapPage
    <3>3. Append(page.slots, Used(record)) \in Seq(HeapSlot)
      BY <1>0, <1>1
    <3>4. new \in HeapPage
      BY <1>0, <3>1, <3>3 DEF HeapPage
    <3> HIDE DEF new
    <3>5. QED
      BY <1>0, <2>1, <3>2, <3>3, <3>4
  <2>2. CASE n # Len(page.slots) + 1
    <3>1. new = [page EXCEPT !.slots = [page.slots EXCEPT ![n] = Used(record)]]
      BY <2>2 DEF PageWrite
    <3>2. new.slots = [page.slots EXCEPT ![n] = Used(record)] /\ new.next = page.next
      BY <1>0, <3>1 DEF HeapPage
    <3>3. [page.slots EXCEPT ![n] = Used(record)] \in Seq(HeapSlot)
      <4>1. n \in 1..Len(page.slots)
        BY <1>0, <2>2
      <4>2. QED
        BY <1>0, <1>1, <4>1
    <3>4. new \in HeapPage
      BY <1>0, <3>1, <3>3 DEF HeapPage
    <3> HIDE DEF new
    <3>5. QED
      BY <1>0, <2>2, <3>2, <3>3, <3>4
  <2>3. QED
    BY <2>1, <2>2
<1> HIDE DEF new
<1>3. PageOK(new)
  BY <1>2 DEF PageOK
<1>4. DOMAIN new.slots = 1..Len(new.slots)
  BY <1>2
<1>5. LiveSlots(new) = LiveSlots(page) \cup {n}
  BY <1>0, <1>1, <1>2, <1>4 DEF LiveSlots
<1>6. \A i \in LiveSlots(page) \ {n} : new.slots[i].record = page.slots[i].record
  BY <1>0, <1>2 DEF LiveSlots
<1>7. ASSUME n \in LiveSlots(page) PROVE IsFull(new) <=> IsFull(page)
  <2>1. n # Len(page.slots) + 1 /\ page.slots[n].state = "used" /\ n \in 1..Len(page.slots)
    BY <1>0, <1>7 DEF LiveSlots
  <2>2. Len(new.slots) = Len(page.slots)
    BY <1>2, <2>1
  <2>3. \A i \in 1..Len(page.slots) : new.slots[i].state = "used" <=> page.slots[i].state = "used"
    BY <1>1, <1>2, <2>1
  <2>4. QED
    BY <1>3, <2>2, <2>3, FreeSlotIs
<1>8. QED
  BY <1>1, <1>2, <1>3, <1>5, <1>6, <1>7 DEF new

\* A record leaves its slot, and the page has room.
LEMMA FreeIs ==
  ASSUME NEW page, PageOK(page), NEW n \in LiveSlots(page)
  PROVE  /\ PageOK(PageFree(page, n)) /\ PageFree(page, n).next = page.next
         /\ LiveSlots(PageFree(page, n)) = LiveSlots(page) \ {n}
         /\ \A i \in LiveSlots(page) \ {n} :
              PageFree(page, n).slots[i].record = page.slots[i].record
         /\ ~IsFull(PageFree(page, n))
<1> DEFINE slots == [page.slots EXCEPT ![n] = Hole]
           taken == {j \in DOMAIN slots : slots[j].state # "empty"}
           m == IF taken = {} THEN 0 ELSE Max(taken)
           new == PageFree(page, n)
<1>0. /\ page.slots \in Seq(HeapSlot) /\ Len(page.slots) \in Nat /\ SlotsPerPage \in Nat \ {0}
      /\ DOMAIN page.slots = 1..Len(page.slots) /\ Len(page.slots) <= SlotsPerPage
      /\ page \in HeapPage /\ n \in 1..Len(page.slots)
  BY SlotsAssumption DEF PageOK, HeapPage, LiveSlots
<1>1. /\ slots \in Seq(HeapSlot) /\ Len(slots) = Len(page.slots) /\ slots[n] = Hole
      /\ DOMAIN slots = 1..Len(page.slots)
      /\ \A i \in 1..Len(page.slots) : i # n => slots[i] = page.slots[i]
  BY <1>0, SlotIs
<1> HIDE DEF slots
<1>2. m \in 0..Len(page.slots) /\ \A i \in taken : i \in 1..m
  <2>1. taken \subseteq 0..Len(page.slots) /\ taken \subseteq 1..Len(page.slots)
    BY <1>0, <1>1
  <2>2. CASE taken = {}
    BY <1>0, <2>2
  <2>3. CASE taken # {}
    <3>1. Max(taken) \in taken /\ \A i \in taken : i <= Max(taken)
      BY <1>0, <2>1, <2>3, GreatestIs
    <3> DEFINE t == Max(taken)
    <3>2. m = t
      BY <2>3
    <3> HIDE DEF m, t, taken
    <3>3. t \in taken /\ \A i \in taken : i <= t
      BY <3>1 DEF t
    <3>4. QED
      BY <1>0, <2>1, <3>2, <3>3
  <2>4. QED
    BY <2>2, <2>3
<1>3. new = [page EXCEPT !.slots = SubSeq(slots, 1, m)]
  BY DEF PageFree, slots
<1> HIDE DEF m
<1>4. new.slots = SubSeq(slots, 1, m) /\ new.next = page.next
  BY <1>0, <1>3 DEF HeapPage
<1>5. /\ SubSeq(slots, 1, m) \in Seq(HeapSlot) /\ Len(SubSeq(slots, 1, m)) = m
      /\ \A i \in 1..m : SubSeq(slots, 1, m)[i] = slots[i]
  BY <1>0, <1>1, <1>2
<1>6. new \in HeapPage
  BY <1>0, <1>3, <1>5 DEF HeapPage
<1> HIDE DEF new
<1>7. PageOK(new)
  BY <1>0, <1>2, <1>4, <1>5, <1>6 DEF PageOK
<1>8. DOMAIN new.slots = 1..m /\ Len(new.slots) = m
  BY <1>2, <1>4, <1>5
<1>9. LiveSlots(new) = LiveSlots(page) \ {n}
  <2>1. ASSUME NEW i \in LiveSlots(new) PROVE i \in LiveSlots(page) \ {n}
    <3>1. i \in 1..m /\ slots[i].state = "used" /\ i \in 1..Len(page.slots)
      BY <1>0, <1>2, <1>4, <1>5, <1>8 DEF LiveSlots
    <3>2. i # n
      BY <1>1, <3>1, SlotIs
    <3>3. QED
      BY <1>0, <1>1, <3>1, <3>2 DEF LiveSlots
  <2>2. ASSUME NEW i \in LiveSlots(page) \ {n} PROVE i \in LiveSlots(new)
    <3>1. i \in 1..Len(page.slots) /\ slots[i].state = "used"
      BY <1>0, <1>1 DEF LiveSlots
    <3>2. i \in 1..m
      BY <1>1, <1>2, <3>1
    <3>3. QED
      BY <1>4, <1>5, <1>8, <3>1, <3>2 DEF LiveSlots
  <2>3. QED
    BY <2>1, <2>2
<1>10. ASSUME NEW i \in LiveSlots(page) \ {n} PROVE new.slots[i].record = page.slots[i].record
  <2>1. i \in 1..m /\ i \in 1..Len(page.slots)
    BY <1>0, <1>8, <1>9 DEF LiveSlots
  <2>2. QED
    BY <1>1, <1>4, <1>5, <2>1
<1>11. ~IsFull(new)
  <2>1. SUFFICES ASSUME IsFull(new) PROVE FALSE
    OBVIOUS
  <2>2. m = SlotsPerPage /\ \A i \in 1..m : new.slots[i].state = "used"
    BY <1>7, <1>8, <2>1, FreeSlotIs
  <2>3. n \in 1..m
    BY <1>0, <2>2
  <2>4. new.slots[n] = Hole
    BY <1>1, <1>4, <1>5, <2>3
  <2>5. QED
    BY <2>2, <2>3, <2>4, SlotIs
<1>12. QED
  BY <1>4, <1>7, <1>9, <1>10, <1>11 DEF new

-----------------------------------------------------------------------------
(* The list of pages with room, as it changes.                              *)

\* No link of the list changes.
LEMMA LinksStay ==
  ASSUME NEW pages, NEW others, NEW first, NEW list, Linked(pages, first, list),
         DOMAIN pages \subseteq DOMAIN others,
         \A x \in DOMAIN pages : others[x].next = pages[x].next
  PROVE  Linked(others, first, list)
<1>1. list \in Seq(DOMAIN others) /\ \A i \in 1..Len(list) : list[i] \in DOMAIN pages
  BY DEF Linked
<1>2. QED
  BY <1>1 DEF Linked

\* The first page leaves the list.
LEMMA FirstLeaves ==
  ASSUME NEW pages, NEW others, NEW first, NEW list, Linked(pages, first, list), list # <<>>,
         DOMAIN others = DOMAIN pages,
         \A x \in DOMAIN pages : x # first => others[x].next = pages[x].next
  PROVE  /\ Linked(others, pages[first].next, Tail(list))
         /\ ToSet(Tail(list)) = ToSet(list) \ {first}
<1> DEFINE rest == Tail(list)
<1>0. list \in Seq(DOMAIN pages) /\ Len(list) \in Nat \ {0} /\ list[1] = first /\ DOMAIN list = 1..Len(list)
  BY DEF Linked
<1>1. /\ rest \in Seq(DOMAIN others) /\ Len(rest) = Len(list) - 1 /\ DOMAIN rest = 1..Len(rest)
      /\ \A i \in 1..Len(rest) : rest[i] = list[i + 1]
  BY <1>0
<1> HIDE DEF rest
<1>2. \A i \in 1..Len(rest) : i + 1 \in 1..Len(list) /\ i + 1 # 1 /\ i \in Nat
  BY <1>0, <1>1
<1>3. \A i \in 2..Len(list) : i - 1 \in 1..Len(rest) /\ rest[i - 1] = list[i]
  BY <1>0, <1>1
<1>4. \A i \in 1..Len(rest) : rest[i] # first /\ rest[i] \in DOMAIN pages
  <2>1. SUFFICES ASSUME NEW i \in 1..Len(rest) PROVE rest[i] # first /\ rest[i] \in DOMAIN pages
    OBVIOUS
  <2>2. rest[i] = list[i + 1] /\ i + 1 \in 1..Len(list) /\ i + 1 # 1 /\ 1 \in 1..Len(list)
    BY <1>0, <1>1, <1>2
  <2>3. list[i + 1] # list[1]
    BY <2>2 DEF Linked
  <2>4. list[i + 1] \in DOMAIN pages
    BY <1>0, <2>2
  <2>5. QED
    BY <1>0, <2>2, <2>3, <2>4
<1>5. ASSUME NEW i \in 1..Len(rest), NEW j \in 1..Len(rest), rest[i] = rest[j]
      PROVE  i = j
  <2>1. i + 1 = j + 1
    BY <1>1, <1>2, <1>5 DEF Linked
  <2>2. QED
    BY <1>2, <2>1
<1>6. ASSUME NEW i \in 1..Len(rest)
      PROVE  /\ i < Len(rest) => others[rest[i]].next = rest[i + 1]
             /\ i = Len(rest) => others[rest[i]].next = NoPage
  <2>1. others[rest[i]].next = pages[list[i + 1]].next
    BY <1>1, <1>4
  <2>2. i + 1 \in 1..Len(list)
    BY <1>2
  <2>3. CASE i < Len(rest)
    <3>1. i + 1 < Len(list) /\ i + 1 \in 1..Len(rest)
      BY <1>0, <1>1, <2>3
    <3>2. rest[i + 1] = list[(i + 1) + 1]
      BY <1>1, <3>1
    <3>3. QED
      BY <2>1, <2>2, <2>3, <3>1, <3>2 DEF Linked
  <2>4. CASE i = Len(rest)
    <3>1. i + 1 = Len(list)
      BY <1>0, <1>1, <2>4
    <3>2. QED
      BY <2>1, <2>2, <2>4, <3>1 DEF Linked
  <2>5. QED
    BY <2>3, <2>4
<1>7. rest = <<>> => pages[first].next = NoPage
  <2>1. SUFFICES ASSUME rest = <<>> PROVE pages[first].next = NoPage
    OBVIOUS
  <2>2. Len(rest) = 0
    BY <1>1, <2>1
  <2>3. 1 = Len(list) /\ 1 \in 1..Len(list)
    <3>1. Len(list) \in Nat /\ Len(list) - 1 = 0
      BY <1>0, <1>1, <2>2
    <3>2. QED
      BY <3>1
  <2>4. pages[list[1]].next = NoPage
    BY <2>3 DEF Linked
  <2>5. QED
    BY <1>0, <2>4
<1>8. rest # <<>> => pages[first].next = rest[1]
  <2>1. ASSUME rest # <<>> PROVE 1 < Len(list) /\ rest[1] = list[1 + 1] /\ 1 \in 1..Len(list)
    BY <1>0, <1>1, <2>1
  <2>2. QED
    BY <1>0, <2>1 DEF Linked
<1>9. Linked(others, pages[first].next, rest)
  BY <1>1, <1>5, <1>6, <1>7, <1>8 DEF Linked
<1>10. ToSet(rest) = ToSet(list) \ {first}
  <2>1. ASSUME NEW x \in ToSet(rest) PROVE x \in ToSet(list) \ {first}
    BY <1>0, <1>1, <1>2, <1>4 DEF ToSet
  <2>2. ASSUME NEW x \in ToSet(list) \ {first} PROVE x \in ToSet(rest)
    <3>1. PICK i \in 1..Len(list) : x = list[i]
      BY <1>0 DEF ToSet
    <3>2. i \in 2..Len(list)
      BY <1>0, <2>2, <3>1
    <3>3. QED
      BY <1>1, <1>3, <3>1, <3>2 DEF ToSet
  <2>3. QED
    BY <2>1, <2>2
<1>11. QED
  BY <1>9, <1>10 DEF rest

\* A page that was not in the list becomes its first.
LEMMA FirstEnters ==
  ASSUME NEW pages, NEW others, NEW first, NEW list, Linked(pages, first, list),
         NEW id \in DOMAIN pages, id \notin ToSet(list), DOMAIN others = DOMAIN pages,
         \A x \in DOMAIN pages : x # id => others[x].next = pages[x].next,
         others[id].next = first
  PROVE  \E longer : Linked(others, id, longer) /\ ToSet(longer) = ToSet(list) \cup {id}
<1> DEFINE longer == <<id>> \o list
<1>0. /\ list \in Seq(DOMAIN pages) /\ Len(list) \in Nat /\ DOMAIN list = 1..Len(list)
      /\ \A i \in 1..Len(list) : list[i] # id /\ list[i] \in DOMAIN pages
  BY DEF Linked, ToSet
<1>1. /\ longer \in Seq(DOMAIN others) /\ Len(longer) = Len(list) + 1
      /\ DOMAIN longer = 1..Len(longer) /\ longer[1] = id
      /\ \A i \in 2..Len(longer) : longer[i] = list[i - 1]
  BY <1>0
<1>2. longer # <<>>
  BY <1>0, <1>1
<1> HIDE DEF longer
<1>3. \A i \in 2..Len(longer) : i - 1 \in 1..Len(list) /\ i \in Nat
  BY <1>0, <1>1
<1>4. \A i \in 1..Len(longer) : i = 1 \/ i \in 2..Len(longer)
  BY <1>0, <1>1
<1>5. ASSUME NEW i \in 1..Len(longer), NEW j \in 1..Len(longer), longer[i] = longer[j]
      PROVE  i = j
  <2>1. CASE i = 1 \/ j = 1
    BY <1>0, <1>1, <1>3, <1>4, <1>5, <2>1
  <2>2. CASE i # 1 /\ j # 1
    <3>1. i - 1 \in 1..Len(list) /\ j - 1 \in 1..Len(list) /\ list[i - 1] = list[j - 1]
      BY <1>1, <1>3, <1>4, <1>5, <2>2
    <3>2. i - 1 = j - 1
      BY <3>1 DEF Linked
    <3>3. QED
      BY <1>3, <1>4, <2>2, <3>2
  <2>3. QED
    BY <2>1, <2>2
<1>6. ASSUME NEW i \in 1..Len(longer)
      PROVE  /\ i < Len(longer) => others[longer[i]].next = longer[i + 1]
             /\ i = Len(longer) => others[longer[i]].next = NoPage
  <2>1. CASE i = 1
    <3>1. others[longer[i]].next = first
      BY <1>1, <2>1
    <3>2. CASE list = <<>>
      <4>1. Len(longer) = 1
        BY <1>1, <3>2
      <4>2. QED
        BY <2>1, <3>1, <3>2, <4>1 DEF Linked
    <3>3. CASE list # <<>>
      <4>1. 2 \in 2..Len(longer) /\ Len(longer) # 1 /\ 2 - 1 = 1
        BY <1>0, <1>1, <3>3
      <4>2. longer[1 + 1] = list[1]
        BY <1>1, <4>1
      <4>3. QED
        BY <2>1, <3>1, <3>3, <4>1, <4>2 DEF Linked
    <3>4. QED
      BY <3>2, <3>3
  <2>2. CASE i # 1
    <3>1. i \in 2..Len(longer) /\ i - 1 \in 1..Len(list) /\ longer[i] = list[i - 1] /\ i \in Nat
      BY <1>1, <1>3, <1>4, <2>2
    <3>2. others[longer[i]].next = pages[list[i - 1]].next
      BY <1>0, <3>1
    <3>3. CASE i < Len(longer)
      <4>1. i + 1 \in 2..Len(longer) /\ (i + 1) - 1 = (i - 1) + 1 /\ i - 1 < Len(list)
        BY <1>0, <1>1, <3>1, <3>3
      <4>2. longer[i + 1] = list[(i - 1) + 1]
        BY <1>1, <4>1
      <4>3. QED
        BY <3>1, <3>2, <3>3, <4>1, <4>2 DEF Linked
    <3>4. CASE i = Len(longer)
      <4>1. i - 1 = Len(list)
        BY <1>0, <1>1, <3>1, <3>4
      <4>2. QED
        BY <3>1, <3>2, <3>4, <4>1 DEF Linked
    <3>5. QED
      BY <3>3, <3>4
  <2>3. QED
    BY <2>1, <2>2
<1>7. Linked(others, id, longer)
  BY <1>1, <1>2, <1>5, <1>6 DEF Linked
<1>8. ToSet(longer) = ToSet(list) \cup {id}
  <2>1. ASSUME NEW x \in ToSet(longer) PROVE x \in ToSet(list) \cup {id}
    <3>1. PICK i \in 1..Len(longer) : x = longer[i]
      BY <1>1 DEF ToSet
    <3>2. CASE i = 1
      BY <1>1, <3>1, <3>2
    <3>3. CASE i # 1
      <4>1. i - 1 \in 1..Len(list) /\ longer[i] = list[i - 1]
        BY <1>1, <1>3, <1>4, <3>3
      <4>2. QED
        BY <1>0, <3>1, <4>1 DEF ToSet
    <3>4. QED
      BY <3>2, <3>3
  <2>2. id \in ToSet(longer)
    BY <1>0, <1>1 DEF ToSet
  <2>3. ASSUME NEW x \in ToSet(list) PROVE x \in ToSet(longer)
    <3>1. PICK i \in 1..Len(list) : x = list[i]
      BY <1>0 DEF ToSet
    <3>2. i + 1 \in 2..Len(longer) /\ i + 1 \in 1..Len(longer) /\ (i + 1) - 1 = i
      BY <1>0, <1>1
    <3>3. QED
      BY <1>1, <3>1, <3>2 DEF ToSet
  <2>4. QED
    BY <2>1, <2>2, <2>3
<1>9. QED
  BY <1>7, <1>8

-----------------------------------------------------------------------------
(* The records of a file, and the page that an operation changes.           *)

FileOK(pages) ==
  /\ pages \in Seq(HeapPage) /\ Len(pages) <= HeapPageLimit
  /\ \A id \in DOMAIN pages : PageOK(pages[id])

AddressesIn(pages) ==
  {address \in Address : /\ address[1] \in DOMAIN pages
                         /\ address[2] \in LiveSlots(pages[address[1]])}

RecordAt(pages, address) == pages[address[1]].slots[address[2]].record

EntriesIn(pages) == {<<address, RecordAt(pages, address)>> : address \in AddressesIn(pages)}

WithRoom(pages) == {id \in DOMAIN pages : ~IsFull(pages[id])}

\* The invariant: the list of pages with room, with the count.
IsHeap(pages, first, list, count) ==
  /\ FileOK(pages)
  /\ Linked(pages, first, list)
  /\ ToSet(list) = WithRoom(pages)
  /\ count = Cardinality(AddressesIn(pages))

\* The entries that the file stands for.
HeapEntries == {<<address, HeapRows[address]>> : address \in HeapAddresses}

Stored == INSTANCE KeyedStore WITH stored <- HeapEntries

HeapInv == \E list : IsHeap(heapPages, freeHead, list, heapCount)

\* Only the link of a page changes.
LEMMA LinkIs ==
  ASSUME NEW page, PageOK(page), NEW k \in Nat \cup {NoPage}
  PROVE  LET new == [page EXCEPT !.next = k]
         IN  /\ PageOK(new) /\ new.next = k /\ new.slots = page.slots
             /\ LiveSlots(new) = LiveSlots(page) /\ (IsFull(new) <=> IsFull(page))
<1> DEFINE new == [page EXCEPT !.next = k]
<1>1. new \in HeapPage /\ new.next = k /\ new.slots = page.slots
  BY DEF PageOK, HeapPage
<1> HIDE DEF new
<1>2. PageOK(new)
  BY <1>1 DEF PageOK
<1>3. LiveSlots(new) = LiveSlots(page) /\ (IsFull(new) <=> IsFull(page))
  BY <1>1 DEF LiveSlots, IsFull, FirstFreeSlot
<1>4. QED
  BY <1>1, <1>2, <1>3 DEF new

LEMMA FiniteAddresses ==
  ASSUME NEW pages
  PROVE  IsFiniteSet(AddressesIn(pages)) /\ Cardinality(AddressesIn(pages)) \in Nat
<1>1. IsFiniteSet(1..HeapPageLimit) /\ IsFiniteSet(1..SlotsPerPage)
  BY HeapAssumption, SlotsAssumption, CountUpTo
<1>2. IsFiniteSet(Address)
  BY <1>1, FS_Product DEF Address
<1>3. IsFiniteSet(AddressesIn(pages))
  BY <1>2, FS_Subset DEF AddressesIn
<1>4. QED
  BY <1>3, FS_CardinalityType

\* An address is a page of the file and a slot in use of it.
LEMMA AddressIs ==
  ASSUME NEW pages, FileOK(pages), NEW id, NEW n
  PROVE  <<id, n>> \in AddressesIn(pages) <=> id \in DOMAIN pages /\ n \in LiveSlots(pages[id])
<1>1. ASSUME id \in DOMAIN pages, n \in LiveSlots(pages[id])
      PROVE  id \in 1..HeapPageLimit /\ n \in 1..SlotsPerPage
  <2>1. /\ pages \in Seq(HeapPage) /\ Len(pages) \in Nat /\ Len(pages) <= HeapPageLimit
        /\ DOMAIN pages = 1..Len(pages) /\ PageOK(pages[id])
    BY <1>1 DEF FileOK
  <2>2. LiveSlots(pages[id]) \subseteq 1..Len(pages[id].slots)
    BY <2>1, FreeSlotIs
  <2>3. Len(pages[id].slots) \in Nat /\ Len(pages[id].slots) <= SlotsPerPage
    BY <2>1 DEF PageOK, HeapPage
  <2>4. QED
    BY <1>1, <2>1, <2>2, <2>3, HeapAssumption, SlotsAssumption
<1>2. QED
  BY <1>1 DEF AddressesIn, Address

\* The addresses and the entries of a file whose page id changes.
LEMMA PageChanges ==
  ASSUME NEW pages, FileOK(pages), NEW id \in DOMAIN pages, NEW page, PageOK(page)
  PROVE  LET others == [pages EXCEPT ![id] = page]
         IN  /\ FileOK(others) /\ DOMAIN others = DOMAIN pages /\ others[id] = page
             /\ \A x \in DOMAIN pages : x # id => others[x] = pages[x]
<1> DEFINE others == [pages EXCEPT ![id] = page]
<1>1. page \in HeapPage /\ pages \in Seq(HeapPage)
  BY DEF PageOK, FileOK
<1>2. /\ others \in Seq(HeapPage) /\ Len(others) = Len(pages) /\ DOMAIN others = DOMAIN pages
      /\ others[id] = page /\ \A x \in DOMAIN pages : x # id => others[x] = pages[x]
  BY <1>1
<1> HIDE DEF others
<1>3. FileOK(others)
  BY <1>2 DEF FileOK
<1>4. QED
  BY <1>2, <1>3 DEF others

\* A page with one more record.
LEMMA RecordEnters ==
  ASSUME NEW pages, FileOK(pages), NEW id \in DOMAIN pages, NEW others, FileOK(others),
         DOMAIN others = DOMAIN pages, \A x \in DOMAIN pages : x # id => others[x] = pages[x],
         NEW n, n \notin LiveSlots(pages[id]),
         LiveSlots(others[id]) = LiveSlots(pages[id]) \cup {n},
         \A i \in LiveSlots(pages[id]) : others[id].slots[i].record = pages[id].slots[i].record
  PROVE  /\ <<id, n>> \notin AddressesIn(pages)
         /\ AddressesIn(others) = AddressesIn(pages) \cup {<<id, n>>}
         /\ EntriesIn(others) = EntriesIn(pages) \cup {<<<<id, n>>, others[id].slots[n].record>>}
         /\ Cardinality(AddressesIn(others)) = Cardinality(AddressesIn(pages)) + 1
<1>1. \A a \in AddressesIn(pages) \cup AddressesIn(others) : a = <<a[1], a[2]>>
  BY DEF AddressesIn, Address
<1>2. <<id, n>> \notin AddressesIn(pages) /\ <<id, n>> \in AddressesIn(others)
  BY AddressIs
<1>3. ASSUME NEW a \in AddressesIn(pages)
      PROVE  a \in AddressesIn(others) /\ RecordAt(others, a) = RecordAt(pages, a)
  <2>1. a[1] \in DOMAIN pages /\ a[2] \in LiveSlots(pages[a[1]]) /\ a \in Address
    BY DEF AddressesIn
  <2>2. CASE a[1] = id
    BY <2>1, <2>2 DEF AddressesIn, RecordAt
  <2>3. CASE a[1] # id
    BY <2>1, <2>3 DEF AddressesIn, RecordAt
  <2>4. QED
    BY <2>2, <2>3
<1>4. ASSUME NEW a \in AddressesIn(others), a # <<id, n>>
      PROVE  a \in AddressesIn(pages)
  <2>1. a[1] \in DOMAIN pages /\ a[2] \in LiveSlots(others[a[1]]) /\ a \in Address
    BY DEF AddressesIn
  <2>2. CASE a[1] = id
    <3>1. a[2] # n
      BY <1>1, <1>4, <2>2
    <3>2. QED
      BY <2>1, <2>2, <3>1 DEF AddressesIn
  <2>3. CASE a[1] # id
    BY <2>1, <2>3 DEF AddressesIn
  <2>4. QED
    BY <2>2, <2>3
<1>5. AddressesIn(others) = AddressesIn(pages) \cup {<<id, n>>}
  BY <1>2, <1>3, <1>4
<1>6. RecordAt(others, <<id, n>>) = others[id].slots[n].record
  BY DEF RecordAt
<1>7. EntriesIn(others) = EntriesIn(pages) \cup {<<<<id, n>>, RecordAt(others, <<id, n>>)>>}
  BY <1>3, <1>5 DEF EntriesIn
<1>8. Cardinality(AddressesIn(others)) = Cardinality(AddressesIn(pages)) + 1
  BY <1>2, <1>5, FiniteAddresses, FS_AddElement
<1>9. QED
  BY <1>2, <1>5, <1>6, <1>7, <1>8

\* A page with one record less.
LEMMA RecordLeaves ==
  ASSUME NEW pages, FileOK(pages), NEW id \in DOMAIN pages, NEW others, FileOK(others),
         DOMAIN others = DOMAIN pages, \A x \in DOMAIN pages : x # id => others[x] = pages[x],
         NEW n \in LiveSlots(pages[id]),
         LiveSlots(others[id]) = LiveSlots(pages[id]) \ {n},
         \A i \in LiveSlots(others[id]) : others[id].slots[i].record = pages[id].slots[i].record
  PROVE  /\ EntriesIn(others) = EntriesIn(pages) \ {<<<<id, n>>, pages[id].slots[n].record>>}
         /\ Cardinality(AddressesIn(others)) = Cardinality(AddressesIn(pages)) - 1
<1>1. /\ LiveSlots(pages[id]) = LiveSlots(others[id]) \cup {n} /\ n \notin LiveSlots(others[id])
      /\ id \in DOMAIN others /\ \A x \in DOMAIN others : x # id => pages[x] = others[x]
      /\ \A i \in LiveSlots(others[id]) : pages[id].slots[i].record = others[id].slots[i].record
  OBVIOUS
<1>2. /\ <<id, n>> \notin AddressesIn(others)
      /\ AddressesIn(pages) = AddressesIn(others) \cup {<<id, n>>}
      /\ EntriesIn(pages) = EntriesIn(others) \cup {<<<<id, n>>, pages[id].slots[n].record>>}
      /\ Cardinality(AddressesIn(pages)) = Cardinality(AddressesIn(others)) + 1
  BY <1>1, RecordEnters
<1>3. <<<<id, n>>, pages[id].slots[n].record>> \notin EntriesIn(others)
  BY <1>2 DEF EntriesIn
<1>4. EntriesIn(others) = EntriesIn(pages) \ {<<<<id, n>>, pages[id].slots[n].record>>}
  BY <1>2, <1>3
<1>5. Cardinality(AddressesIn(others)) \in Nat
  BY FiniteAddresses
<1>6. QED
  BY <1>2, <1>4, <1>5

\* A page with another record in a slot.
LEMMA RecordChanges ==
  ASSUME NEW pages, FileOK(pages), NEW id \in DOMAIN pages, NEW others, FileOK(others),
         DOMAIN others = DOMAIN pages, \A x \in DOMAIN pages : x # id => others[x] = pages[x],
         NEW n \in LiveSlots(pages[id]),
         LiveSlots(others[id]) = LiveSlots(pages[id]),
         \A i \in LiveSlots(pages[id]) \ {n} :
           others[id].slots[i].record = pages[id].slots[i].record
  PROVE  /\ AddressesIn(others) = AddressesIn(pages)
         /\ EntriesIn(others) = (EntriesIn(pages) \ {<<<<id, n>>, pages[id].slots[n].record>>})
                                  \cup {<<<<id, n>>, others[id].slots[n].record>>}
<1>1. \A a \in AddressesIn(pages) : a = <<a[1], a[2]>>
  BY DEF AddressesIn, Address
<1>2. AddressesIn(others) = AddressesIn(pages)
  <2>1. \A x \in DOMAIN pages : LiveSlots(others[x]) = LiveSlots(pages[x])
    OBVIOUS
  <2>2. QED
    BY <2>1 DEF AddressesIn
<1>3. ASSUME NEW a \in AddressesIn(pages), a # <<id, n>>
      PROVE  RecordAt(others, a) = RecordAt(pages, a)
  <2>1. a[1] \in DOMAIN pages /\ a[2] \in LiveSlots(pages[a[1]])
    BY DEF AddressesIn
  <2>2. CASE a[1] = id
    <3>1. a[2] # n
      BY <1>1, <1>3, <2>2
    <3>2. QED
      BY <2>1, <2>2, <3>1 DEF RecordAt
  <2>3. CASE a[1] # id
    BY <2>1, <2>3 DEF RecordAt
  <2>4. QED
    BY <2>2, <2>3
<1>4. <<id, n>> \in AddressesIn(pages)
  BY AddressIs
<1> DEFINE a0 == <<id, n>>
<1>5. RecordAt(others, a0) = others[id].slots[n].record /\ RecordAt(pages, a0) = pages[id].slots[n].record
  BY DEF RecordAt
<1> HIDE DEF a0
<1>6. a0 \in AddressesIn(pages) /\ \A a \in AddressesIn(pages) : a # a0 => RecordAt(others, a) = RecordAt(pages, a)
  BY <1>3, <1>4 DEF a0
<1>7. EntriesIn(others) = (EntriesIn(pages) \ {<<a0, RecordAt(pages, a0)>>})
                             \cup {<<a0, RecordAt(others, a0)>>}
  BY <1>2, <1>6 DEF EntriesIn
<1>8. QED
  BY <1>2, <1>5, <1>7 DEF a0

-----------------------------------------------------------------------------
(* The operations.                                                          *)

LEMMA HeadIs ==
  ASSUME NEW pages, NEW first, NEW list, NEW count, IsHeap(pages, first, list, count)
  PROVE  /\ DOMAIN pages = 1..Len(pages) /\ Len(pages) \in Nat
         /\ first = NoPage <=> list = <<>>
         /\ first # NoPage => first \in DOMAIN pages /\ first \in ToSet(list)
         /\ first \in Nat \cup {NoPage}
<1>1. DOMAIN pages = 1..Len(pages) /\ Len(pages) \in Nat
  BY DEF IsHeap, FileOK
<1>2. list \in Seq(DOMAIN pages) /\ (list = <<>> => first = NoPage) /\ (list # <<>> => first = list[1])
  BY DEF IsHeap, Linked
<1>3. ASSUME list # <<>> PROVE list[1] \in DOMAIN pages /\ list[1] \in ToSet(list) /\ list[1] \in Nat
  <2>1. 1 \in DOMAIN list
    BY <1>2, <1>3
  <2>2. QED
    BY <1>1, <1>2, <2>1 DEF ToSet
<1>4. QED
  BY <1>1, <1>2, <1>3 DEF NoPage

\* A file without room gets a page, linked as any other.
LEMMA FileGrows ==
  ASSUME NEW pages, NEW list, NEW count, IsHeap(pages, NoPage, list, count),
         Len(pages) + 1 <= HeapPageLimit
  PROVE  LET longer == Append(pages, NewPage)
         IN  /\ IsHeap(longer, Len(longer), <<Len(longer)>>, count)
             /\ EntriesIn(longer) = EntriesIn(pages) /\ AddressesIn(longer) = AddressesIn(pages)
<1> DEFINE longer == Append(pages, NewPage)
           last == Len(pages) + 1
<1>1. NewPage \in HeapPage /\ PageOK(NewPage) /\ LiveSlots(NewPage) = {} /\ NewPage.next = NoPage
      /\ ~IsFull(NewPage)
  <2>1. NewPage \in HeapPage /\ NewPage.slots = <<>> /\ NewPage.next = NoPage
    BY DEF NewPage, HeapPage
  <2>2. PageOK(NewPage) /\ LiveSlots(NewPage) = {}
    BY <2>1, SlotsAssumption DEF PageOK, LiveSlots
  <2>3. Len(NewPage.slots) # SlotsPerPage
    BY <2>1, SlotsAssumption
  <2>4. QED
    BY <2>1, <2>2, <2>3, FreeSlotIs
<1> HIDE DEF NewPage
<1>2. /\ pages \in Seq(HeapPage) /\ Len(pages) \in Nat /\ DOMAIN pages = 1..Len(pages)
      /\ \A id \in DOMAIN pages : PageOK(pages[id])
  BY DEF IsHeap, FileOK
<1>3. /\ longer \in Seq(HeapPage) /\ Len(longer) = last /\ DOMAIN longer = DOMAIN pages \cup {last}
      /\ last \notin DOMAIN pages /\ longer[last] = NewPage
      /\ \A x \in DOMAIN pages : longer[x] = pages[x]
  BY <1>1, <1>2
<1>4. FileOK(longer)
  <2> HIDE DEF longer
  <2>1. Len(longer) <= HeapPageLimit
    BY <1>3
  <2>2. QED
    BY <1>1, <1>2, <1>3, <2>1 DEF FileOK
<1>5. WithRoom(pages) = {}
  <2>1. list = <<>>
    BY HeadIs
  <2>2. ToSet(list) = {}
    BY <2>1 DEF ToSet
  <2>3. QED
    BY <2>2 DEF IsHeap
<1> HIDE DEF longer
<1>6. WithRoom(longer) = {last}
  BY <1>1, <1>3, <1>5 DEF WithRoom
<1> DEFINE one == <<last>>
<1>7. /\ one \in Seq(DOMAIN longer) /\ Len(one) = 1 /\ one # <<>> /\ one[1] = last
      /\ DOMAIN one = 1..1
  BY <1>3
<1>8. ToSet(one) = {last}
  BY <1>7 DEF ToSet
<1> HIDE DEF one
<1>9. Linked(longer, last, one)
  BY <1>1, <1>3, <1>7 DEF Linked
<1>10. AddressesIn(longer) = AddressesIn(pages)
  BY <1>1, <1>3 DEF AddressesIn
<1>11. EntriesIn(longer) = EntriesIn(pages)
  <2>1. \A a \in AddressesIn(pages) : RecordAt(longer, a) = RecordAt(pages, a)
    BY <1>3 DEF AddressesIn, RecordAt
  <2>2. QED
    BY <1>10, <2>1 DEF EntriesIn
<1>12. IsHeap(longer, last, one, count)
  BY <1>4, <1>6, <1>8, <1>9, <1>10 DEF IsHeap
<1>13. QED
  BY <1>3, <1>10, <1>11, <1>12 DEF one, longer

\* What a file becomes when a record enters the first page of its list.
Placed(pages, id, page, others, head) ==
  IF IsFull(page)
  THEN others = [pages EXCEPT ![id] = [page EXCEPT !.next = NoPage]] /\ head = page.next
  ELSE others = [pages EXCEPT ![id] = page] /\ head = id

LEMMA InsertKeeps ==
  ASSUME NEW pages, NEW id, NEW list, NEW count, IsHeap(pages, id, list, count), id # NoPage,
         NEW record \in HeapRecord, NEW others, NEW head,
         Placed(pages, id, PageInsert(pages[id], record), others, head)
  PROVE  /\ \E left : IsHeap(others, head, left, count + 1)
         /\ \E address \in Address \ AddressesIn(pages) :
              EntriesIn(others) = EntriesIn(pages) \cup {<<address, record>>}
<1> DEFINE old == pages[id]
           n == FirstFreeSlot(old)
           page == PageInsert(old, record)
           new == others[id]
<1>0. FileOK(pages) /\ Linked(pages, id, list) /\ ToSet(list) = WithRoom(pages)
      /\ count = Cardinality(AddressesIn(pages))
  BY DEF IsHeap
<1>1. id \in DOMAIN pages /\ id \in ToSet(list) /\ list # <<>>
  BY HeadIs
<1>2. PageOK(old) /\ ~IsFull(old) /\ old.next \in Nat \cup {NoPage}
  BY <1>0, <1>1 DEF FileOK, WithRoom, PageOK, HeapPage
<1>3. n \in 1..SlotsPerPage /\ n \notin LiveSlots(old) /\ n \in 1..(Len(old.slots) + 1)
  BY <1>2, FreeSlotIs
<1>4. page = PageWrite(old, n, record)
  BY DEF PageInsert
<1> HIDE DEF old, n, page
<1>5. /\ PageOK(page) /\ page.next = old.next /\ LiveSlots(page) = LiveSlots(old) \cup {n}
      /\ page.slots[n].record = record
      /\ \A i \in LiveSlots(old) : page.slots[i].record = old.slots[i].record
  BY <1>2, <1>3, <1>4, WriteIs
<1>6. /\ FileOK(others) /\ DOMAIN others = DOMAIN pages
      /\ \A x \in DOMAIN pages : x # id => others[x] = pages[x]
      /\ new.slots = page.slots /\ LiveSlots(new) = LiveSlots(page) /\ (IsFull(new) <=> IsFull(page))
      /\ IF IsFull(page) THEN head = old.next ELSE head = id /\ new.next = old.next
  <2>1. CASE IsFull(page)
    <3> DEFINE p == [page EXCEPT !.next = NoPage]
    <3>1. PageOK(p) /\ p.slots = page.slots /\ LiveSlots(p) = LiveSlots(page) /\ (IsFull(p) <=> IsFull(page))
      BY <1>5, LinkIs
    <3>2. others = [pages EXCEPT ![id] = p] /\ head = page.next
      BY <2>1 DEF Placed, page, old
    <3> HIDE DEF p
    <3>3. QED
      BY <1>0, <1>1, <1>5, <2>1, <3>1, <3>2, PageChanges
  <2>2. CASE ~IsFull(page)
    <3>1. others = [pages EXCEPT ![id] = page] /\ head = id
      BY <2>2 DEF Placed, page, old
    <3>2. QED
      BY <1>0, <1>1, <1>5, <2>2, <3>1, PageChanges
  <2>3. QED
    BY <2>1, <2>2
<1> HIDE DEF new
<1>7. \E left : Linked(others, head, left) /\ ToSet(left) = WithRoom(others)
  <2>1. \A x \in DOMAIN pages : x # id => (others[x].next = pages[x].next
                                           /\ (IsFull(others[x]) <=> IsFull(pages[x])))
    BY <1>6
  <2>2. CASE IsFull(page)
    <3>1. WithRoom(others) = WithRoom(pages) \ {id}
      BY <1>1, <1>6, <2>1, <2>2 DEF WithRoom, new
    <3>2. Linked(others, pages[id].next, Tail(list)) /\ ToSet(Tail(list)) = ToSet(list) \ {id}
      <4>1. Linked(pages, id, list) /\ list # <<>> /\ DOMAIN others = DOMAIN pages
        BY <1>0, <1>1, <1>6
      <4>2. \A x \in DOMAIN pages : x # id => others[x].next = pages[x].next
        BY <2>1
      <4>3. QED
        BY <4>1, <4>2, FirstLeaves
    <3>3. head = pages[id].next
      BY <1>6, <2>2 DEF old
    <3>4. QED
      BY <1>0, <3>1, <3>2, <3>3
  <2>3. CASE ~IsFull(page)
    <3>1. WithRoom(others) = WithRoom(pages)
      BY <1>1, <1>2, <1>6, <2>1, <2>3 DEF WithRoom, new, old
    <3>2. \A x \in DOMAIN pages : others[x].next = pages[x].next
      BY <1>6, <2>1, <2>3 DEF new, old
    <3>3. Linked(others, id, list)
      BY <1>0, <1>6, <3>2, LinksStay
    <3>4. QED
      BY <1>0, <1>6, <2>3, <3>1, <3>3
  <2>4. QED
    BY <2>2, <2>3
<1>8. /\ <<id, n>> \notin AddressesIn(pages)
      /\ AddressesIn(others) = AddressesIn(pages) \cup {<<id, n>>}
      /\ EntriesIn(others) = EntriesIn(pages) \cup {<<<<id, n>>, others[id].slots[n].record>>}
      /\ Cardinality(AddressesIn(others)) = Cardinality(AddressesIn(pages)) + 1
  <2>1. LiveSlots(others[id]) = LiveSlots(pages[id]) \cup {n} /\ n \notin LiveSlots(pages[id])
    BY <1>3, <1>5, <1>6 DEF new, old
  <2>2. \A i \in LiveSlots(pages[id]) : others[id].slots[i].record = pages[id].slots[i].record
    BY <1>5, <1>6 DEF new, old
  <2>3. QED
    BY <1>0, <1>1, <1>6, <2>1, <2>2, RecordEnters
<1>9. <<id, n>> \in Address /\ others[id].slots[n].record = record
  <2>1. <<id, n>> \in AddressesIn(others)
    BY <1>8
  <2>2. QED
    BY <1>5, <1>6, <2>1 DEF AddressesIn, new
<1>10. \E left : IsHeap(others, head, left, count + 1)
  BY <1>0, <1>6, <1>7, <1>8 DEF IsHeap
<1>11. QED
  BY <1>8, <1>9, <1>10

Overwritten(pages, id, n, record, others) == others = [pages EXCEPT ![id] = PageWrite(@, n, record)]

LEMMA UpdateKeeps ==
  ASSUME NEW pages, NEW first, NEW list, NEW count, IsHeap(pages, first, list, count),
         NEW id \in DOMAIN pages, NEW n \in LiveSlots(pages[id]), NEW record \in HeapRecord,
         NEW others, Overwritten(pages, id, n, record, others)
  PROVE  /\ IsHeap(others, first, list, count)
         /\ EntriesIn(others) = (EntriesIn(pages) \ {<<<<id, n>>, pages[id].slots[n].record>>})
                                  \cup {<<<<id, n>>, record>>}
<1> DEFINE old == pages[id]
           page == PageWrite(old, n, record)
<1>0. FileOK(pages) /\ Linked(pages, first, list) /\ ToSet(list) = WithRoom(pages)
      /\ count = Cardinality(AddressesIn(pages))
  BY DEF IsHeap
<1>1. PageOK(old)
  BY <1>0 DEF FileOK
<1>2. n \in 1..SlotsPerPage /\ n \in 1..(Len(old.slots) + 1) /\ n \in LiveSlots(old)
  <2>1. n \in 1..Len(old.slots) /\ Len(old.slots) \in Nat /\ Len(old.slots) <= SlotsPerPage
    BY <1>1, FreeSlotIs DEF PageOK, HeapPage
  <2>2. QED
    BY <2>1, SlotsAssumption
<1>3. others = [pages EXCEPT ![id] = page]
  BY DEF Overwritten
<1> HIDE DEF page
<1>4. /\ PageOK(page) /\ page.next = old.next /\ LiveSlots(page) = LiveSlots(old)
      /\ page.slots[n].record = record /\ (IsFull(page) <=> IsFull(old))
      /\ \A i \in LiveSlots(old) \ {n} : page.slots[i].record = old.slots[i].record
  <2>1. /\ PageOK(page) /\ page.next = old.next /\ LiveSlots(page) = LiveSlots(old) \cup {n}
        /\ page.slots[n].record = record /\ (IsFull(page) <=> IsFull(old))
        /\ \A i \in LiveSlots(old) \ {n} : page.slots[i].record = old.slots[i].record
    BY <1>1, <1>2, WriteIs DEF page
  <2>2. QED
    BY <1>2, <2>1
<1> HIDE DEF old
<1>5. /\ FileOK(others) /\ DOMAIN others = DOMAIN pages /\ others[id] = page
      /\ \A x \in DOMAIN pages : x # id => others[x] = pages[x]
  <2>1. PageOK(page) /\ id \in DOMAIN pages /\ FileOK(pages)
    BY <1>0, <1>4
  <2> DEFINE result == [pages EXCEPT ![id] = page]
  <2>2. /\ FileOK(result) /\ DOMAIN result = DOMAIN pages /\ result[id] = page
        /\ \A x \in DOMAIN pages : x # id => result[x] = pages[x]
    BY <2>1, PageChanges
  <2>3. others = result
    BY <1>3
  <2> HIDE DEF result
  <2>4. QED
    BY <2>2, <2>3
<1>6. \A x \in DOMAIN pages : others[x].next = pages[x].next /\ (IsFull(others[x]) <=> IsFull(pages[x]))
  BY <1>4, <1>5 DEF old
<1>7. Linked(others, first, list) /\ WithRoom(others) = WithRoom(pages)
  BY <1>0, <1>5, <1>6, LinksStay DEF WithRoom
<1>8. /\ AddressesIn(others) = AddressesIn(pages)
      /\ EntriesIn(others) = (EntriesIn(pages) \ {<<<<id, n>>, pages[id].slots[n].record>>})
                               \cup {<<<<id, n>>, others[id].slots[n].record>>}
  <2>1. LiveSlots(others[id]) = LiveSlots(pages[id])
    BY <1>4, <1>5 DEF old
  <2>2. \A i \in LiveSlots(pages[id]) \ {n} :
           others[id].slots[i].record = pages[id].slots[i].record
    BY <1>4, <1>5 DEF old
  <2>3. FileOK(pages) /\ FileOK(others)
    BY <1>0, <1>5
  <2>4. DOMAIN others = DOMAIN pages /\ \A x \in DOMAIN pages : x # id => others[x] = pages[x]
    BY <1>5
  <2>5. QED
    BY <2>1, <2>2, <2>3, <2>4, RecordChanges
<1>9. QED
  BY <1>0, <1>4, <1>5, <1>7, <1>8 DEF IsHeap

\* What a file becomes when a page loses a record: it is linked if it was full.
Freed(pages, id, page, first, others, head) ==
  IF IsFull(pages[id])
  THEN others = [pages EXCEPT ![id] = [page EXCEPT !.next = first]] /\ head = id
  ELSE others = [pages EXCEPT ![id] = page] /\ head = first

LEMMA DeleteKeeps ==
  ASSUME NEW pages, NEW first, NEW list, NEW count, IsHeap(pages, first, list, count),
         NEW id \in DOMAIN pages, NEW n \in LiveSlots(pages[id]), NEW others, NEW head,
         Freed(pages, id, PageFree(pages[id], n), first, others, head)
  PROVE  /\ \E left : IsHeap(others, head, left, count - 1)
         /\ EntriesIn(others) = EntriesIn(pages) \ {<<<<id, n>>, pages[id].slots[n].record>>}
<1> DEFINE old == pages[id]
           page == PageFree(old, n)
           new == others[id]
<1>0. FileOK(pages) /\ Linked(pages, first, list) /\ ToSet(list) = WithRoom(pages)
      /\ count = Cardinality(AddressesIn(pages))
  BY DEF IsHeap
<1>1. PageOK(old) /\ n \in LiveSlots(old) /\ first \in Nat \cup {NoPage}
  BY <1>0, HeadIs DEF FileOK
<1>2. /\ PageOK(page) /\ page.next = old.next /\ LiveSlots(page) = LiveSlots(old) \ {n}
      /\ \A i \in LiveSlots(page) : page.slots[i].record = old.slots[i].record
      /\ ~IsFull(page)
  BY <1>1, FreeIs
<1>3. Freed(pages, id, page, first, others, head)
  OBVIOUS
<1> HIDE DEF page
<1>4. /\ FileOK(others) /\ DOMAIN others = DOMAIN pages
      /\ \A x \in DOMAIN pages : x # id => others[x] = pages[x]
      /\ new.slots = page.slots /\ LiveSlots(new) = LiveSlots(page) /\ ~IsFull(new)
      /\ IF IsFull(old) THEN head = id /\ new.next = first ELSE head = first /\ new.next = old.next
  <2>1. CASE IsFull(old)
    <3> DEFINE p == [page EXCEPT !.next = first]
    <3>1. /\ PageOK(p) /\ p.slots = page.slots /\ LiveSlots(p) = LiveSlots(page)
          /\ (IsFull(p) <=> IsFull(page)) /\ p.next = first
      BY <1>1, <1>2, LinkIs
    <3>2. others = [pages EXCEPT ![id] = p] /\ head = id
      BY <1>3, <2>1 DEF Freed
    <3> HIDE DEF p
    <3>3. QED
      BY <1>0, <1>2, <2>1, <3>1, <3>2, PageChanges
  <2>2. CASE ~IsFull(old)
    <3>1. others = [pages EXCEPT ![id] = page] /\ head = first
      BY <1>3, <2>2 DEF Freed
    <3>2. QED
      BY <1>0, <1>2, <2>2, <3>1, PageChanges
  <2>3. QED
    BY <2>1, <2>2
<1> HIDE DEF new, old
<1>5. \E left : Linked(others, head, left) /\ ToSet(left) = WithRoom(others)
  <2>1. \A x \in DOMAIN pages : x # id => (others[x].next = pages[x].next
                                           /\ (IsFull(others[x]) <=> IsFull(pages[x])))
    BY <1>4
  <2>2. CASE IsFull(old)
    <3>1. WithRoom(others) = WithRoom(pages) \cup {id} /\ id \notin ToSet(list)
      BY <1>0, <1>4, <2>1, <2>2 DEF WithRoom, new, old
    <3>2. others[id].next = first /\ head = id
      BY <1>4, <2>2 DEF new
    <3>3. \E left : Linked(others, id, left) /\ ToSet(left) = ToSet(list) \cup {id}
      <4>1. id \notin ToSet(list) /\ DOMAIN others = DOMAIN pages /\ others[id].next = first
        BY <1>4, <3>1, <3>2
      <4>2. \A x \in DOMAIN pages : x # id => others[x].next = pages[x].next
        BY <2>1
      <4>3. Linked(pages, first, list)
        BY <1>0
      <4>4. QED
        BY <4>1, <4>2, <4>3, FirstEnters
    <3>4. QED
      BY <1>0, <3>1, <3>2, <3>3
  <2>3. CASE ~IsFull(old)
    <3>1. WithRoom(others) = WithRoom(pages)
      BY <1>4, <2>1, <2>3 DEF WithRoom, new, old
    <3>2. \A x \in DOMAIN pages : others[x].next = pages[x].next
      BY <1>4, <2>1, <2>3 DEF new, old
    <3>3. Linked(others, first, list)
      BY <1>0, <1>4, <3>2, LinksStay
    <3>4. QED
      BY <1>0, <1>4, <2>3, <3>1, <3>3
  <2>4. QED
    BY <2>2, <2>3
<1>6. /\ EntriesIn(others) = EntriesIn(pages) \ {<<<<id, n>>, pages[id].slots[n].record>>}
      /\ Cardinality(AddressesIn(others)) = Cardinality(AddressesIn(pages)) - 1
  <2>1. LiveSlots(others[id]) = LiveSlots(pages[id]) \ {n}
    BY <1>2, <1>4 DEF new, old
  <2>2. \A i \in LiveSlots(others[id]) : others[id].slots[i].record = pages[id].slots[i].record
    BY <1>2, <1>4 DEF new, old
  <2>3. QED
    BY <1>0, <1>4, <2>1, <2>2, RecordLeaves
<1>7. \E left : IsHeap(others, head, left, count - 1)
  BY <1>0, <1>4, <1>5, <1>6 DEF IsHeap
<1>8. QED
  BY <1>6, <1>7

-----------------------------------------------------------------------------
(* The file.                                                                *)

LEMMA AddressesAre ==
  /\ HeapAddresses = AddressesIn(heapPages)
  /\ \A address \in HeapAddresses : HeapRows[address] = RecordAt(heapPages, address)
  /\ HeapEntries = EntriesIn(heapPages)
<1>1. HeapAddresses = AddressesIn(heapPages)
  BY DEF HeapAddresses, HeapLive, AddressesIn
<1>2. \A address \in HeapAddresses : HeapRows[address] = RecordAt(heapPages, address)
  BY DEF HeapRows, RecordAt
<1>3. HeapEntries = EntriesIn(heapPages)
  BY <1>1, <1>2 DEF HeapEntries, EntriesIn
<1>4. QED
  BY <1>1, <1>2, <1>3

LEMMA EntriesNext == HeapEntries' = EntriesIn(heapPages')
<1>1. HeapEntries = EntriesIn(heapPages)
  BY AddressesAre
<1>2. (HeapEntries = EntriesIn(heapPages))'
  BY <1>1, PTL
<1>3. QED
  BY <1>2

LEMMA InsertStep ==
  ASSUME HeapInv, NEW record \in HeapRecord, HeapInsert(record)
  PROVE  /\ HeapInv'
         /\ \E address \in Address \ HeapAddresses : Stored!PutEntry(<<address, record>>)
<1>1. PICK list : IsHeap(heapPages, freeHead, list, heapCount)
  BY DEF HeapInv
<1>2. HeapAddresses = AddressesIn(heapPages) /\ HeapEntries = EntriesIn(heapPages)
      /\ HeapEntries' = EntriesIn(heapPages')
  BY AddressesAre, EntriesNext
<1> DEFINE Done(pages, id, before) ==
      /\ IsHeap(pages, id, before, heapCount) /\ id # NoPage
      /\ EntriesIn(pages) = EntriesIn(heapPages) /\ AddressesIn(pages) = AddressesIn(heapPages)
      /\ Placed(pages, id, PageInsert(pages[id], record), heapPages', freeHead')
<1>3. \E pages, id, before : Done(pages, id, before)
  <2>1. CASE freeHead = NoPage
    <3> DEFINE longer == Append(heapPages, NewPage)
    <3>1. Len(longer) <= HeapPageLimit
          /\ PlaceInHead(longer, Len(longer), PageInsert(longer[Len(longer)], record))
      BY <2>1 DEF HeapInsert
    <3>2. Placed(longer, Len(longer), PageInsert(longer[Len(longer)], record), heapPages', freeHead')
      BY <3>1 DEF PlaceInHead, Placed
    <3>3. Len(longer) = Len(heapPages) + 1 /\ Len(longer) # NoPage
      BY <1>1 DEF IsHeap, FileOK, NoPage
    <3>4. /\ IsHeap(longer, Len(longer), <<Len(longer)>>, heapCount)
          /\ EntriesIn(longer) = EntriesIn(heapPages) /\ AddressesIn(longer) = AddressesIn(heapPages)
      BY <1>1, <2>1, <3>1, <3>3, FileGrows
    <3>5. QED
      BY <3>2, <3>3, <3>4
  <2>2. CASE freeHead # NoPage
    <3>1. PlaceInHead(heapPages, freeHead, PageInsert(heapPages[freeHead], record))
      BY <2>2 DEF HeapInsert
    <3>2. Placed(heapPages, freeHead, PageInsert(heapPages[freeHead], record), heapPages', freeHead')
      BY <3>1 DEF PlaceInHead, Placed
    <3>3. QED
      BY <1>1, <2>2, <3>2
  <2>3. QED
    BY <2>1, <2>2
<1>4. PICK pages, id, before : Done(pages, id, before)
  BY <1>3
<1>5. heapCount' = heapCount + 1
  BY DEF HeapInsert
<1>6. /\ \E left : IsHeap(heapPages', freeHead', left, heapCount + 1)
      /\ \E address \in Address \ AddressesIn(pages) :
           EntriesIn(heapPages') = EntriesIn(pages) \cup {<<address, record>>}
  <2>1. IsHeap(pages, id, before, heapCount) /\ id # NoPage
    BY <1>4
  <2>2. Placed(pages, id, PageInsert(pages[id], record), heapPages', freeHead')
    BY <1>4
  <2> HIDE DEF Done
  <2>3. QED
    BY <2>1, <2>2, InsertKeeps
<1>7. HeapInv'
  BY <1>5, <1>6 DEF HeapInv
<1>8. QED
  BY <1>2, <1>4, <1>6, <1>7 DEF Stored!PutEntry

LEMMA UpdateStep ==
  ASSUME HeapInv, NEW address \in Address, NEW record \in HeapRecord, HeapUpdate(address, record)
  PROVE  /\ HeapInv'
         /\ Stored!ReplaceEntry(<<address, HeapRows[address]>>, <<address, record>>)
<1> DEFINE id == address[1]
           n == address[2]
<1>1. PICK list : IsHeap(heapPages, freeHead, list, heapCount)
  BY DEF HeapInv
<1>2. HeapEntries = EntriesIn(heapPages) /\ HeapEntries' = EntriesIn(heapPages')
  BY AddressesAre, EntriesNext
<1>3. id \in DOMAIN heapPages /\ n \in LiveSlots(heapPages[id]) /\ address = <<id, n>>
  BY DEF HeapUpdate, HeapLive, Address
<1>4. HeapRows[address] = heapPages[id].slots[n].record
  <2>1. address \in HeapAddresses
    BY DEF HeapUpdate, HeapAddresses
  <2>2. QED
    BY <2>1, AddressesAre DEF RecordAt
<1>5. Overwritten(heapPages, id, n, record, heapPages') /\ UNCHANGED <<freeHead, heapCount>>
  BY DEF HeapUpdate, Overwritten
<1> HIDE DEF id, n
<1>6. /\ IsHeap(heapPages', freeHead, list, heapCount)
      /\ EntriesIn(heapPages') = (EntriesIn(heapPages) \ {<<<<id, n>>, heapPages[id].slots[n].record>>})
                                   \cup {<<<<id, n>>, record>>}
  BY <1>1, <1>3, <1>5, UpdateKeeps
<1>7. HeapInv'
  BY <1>5, <1>6 DEF HeapInv
<1>8. QED
  BY <1>2, <1>3, <1>4, <1>6, <1>7 DEF Stored!ReplaceEntry

LEMMA DeleteStep ==
  ASSUME HeapInv, NEW address \in Address, HeapDelete(address)
  PROVE  HeapInv' /\ Stored!TakeEntry(<<address, HeapRows[address]>>)
<1> DEFINE id == address[1]
           n == address[2]
<1>1. PICK list : IsHeap(heapPages, freeHead, list, heapCount)
  BY DEF HeapInv
<1>2. HeapEntries = EntriesIn(heapPages) /\ HeapEntries' = EntriesIn(heapPages')
  BY AddressesAre, EntriesNext
<1>3. id \in DOMAIN heapPages /\ n \in LiveSlots(heapPages[id]) /\ address = <<id, n>>
  BY DEF HeapDelete, HeapLive, Address
<1>4. HeapRows[address] = heapPages[id].slots[n].record
  <2>1. address \in HeapAddresses
    BY DEF HeapDelete, HeapAddresses
  <2>2. QED
    BY <2>1, AddressesAre DEF RecordAt
<1>5. /\ Freed(heapPages, id, PageFree(heapPages[id], n), freeHead, heapPages', freeHead')
      /\ heapCount' = heapCount - 1
  BY DEF HeapDelete, LinkIfFull, Freed
<1> HIDE DEF id, n
<1>6. /\ \E left : IsHeap(heapPages', freeHead', left, heapCount - 1)
      /\ EntriesIn(heapPages') = EntriesIn(heapPages) \ {<<<<id, n>>, heapPages[id].slots[n].record>>}
  BY <1>1, <1>3, <1>5, DeleteKeeps
<1>7. HeapInv'
  BY <1>5, <1>6 DEF HeapInv
<1>8. QED
  BY <1>2, <1>3, <1>4, <1>6, <1>7 DEF Stored!TakeEntry

LEMMA HeapStart == HeapInit => HeapInv
<1>1. SUFFICES ASSUME HeapInit PROVE IsHeap(heapPages, NoPage, <<>>, heapCount)
  BY DEF HeapInit, HeapInv
<1>2. heapPages = <<>> /\ heapCount = 0
  BY <1>1 DEF HeapInit
<1>3. FileOK(heapPages) /\ WithRoom(heapPages) = {} /\ AddressesIn(heapPages) = {}
  BY <1>2, HeapAssumption DEF FileOK, WithRoom, AddressesIn
<1>4. Linked(heapPages, NoPage, <<>>) /\ ToSet(<<>>) = {}
  BY DEF Linked, ToSet
<1>5. Cardinality(AddressesIn(heapPages)) = 0
  BY <1>3, FS_EmptySet
<1>6. QED
  BY <1>2, <1>3, <1>4, <1>5 DEF IsHeap

LEMMA HeapStepKeeps == HeapInv /\ [HeapNext]_heapVars => HeapInv'
<1> SUFFICES ASSUME HeapInv, [HeapNext]_heapVars PROVE HeapInv'
  OBVIOUS
<1>1. ASSUME NEW record \in HeapRecord, HeapInsert(record) PROVE HeapInv'
  BY <1>1, InsertStep
<1>2. ASSUME NEW address \in Address, NEW record \in HeapRecord, HeapUpdate(address, record)
      PROVE  HeapInv'
  BY <1>2, UpdateStep
<1>3. ASSUME NEW address \in Address, HeapDelete(address) PROVE HeapInv'
  BY <1>3, DeleteStep
<1>4. CASE UNCHANGED heapVars
  BY <1>4 DEF heapVars, HeapInv
<1>5. QED
  BY <1>1, <1>2, <1>3, <1>4 DEF HeapNext

LEMMA HeapInvIsSound == HeapInv => HeapSound
<1> SUFFICES ASSUME HeapInv PROVE HeapSound
  OBVIOUS
<1>1. PICK list : IsHeap(heapPages, freeHead, list, heapCount)
  BY DEF HeapInv
<1>2. /\ FileOK(heapPages) /\ Linked(heapPages, freeHead, list)
      /\ ToSet(list) = WithRoom(heapPages) /\ heapCount = Cardinality(AddressesIn(heapPages))
  BY <1>1 DEF IsHeap
<1>3. /\ DOMAIN heapPages = 1..Len(heapPages) /\ Len(heapPages) \in Nat
      /\ freeHead = NoPage <=> list = <<>>
      /\ freeHead # NoPage => freeHead \in DOMAIN heapPages
  BY <1>1, HeadIs
<1>4. FreeList = list
  BY <1>2, <1>3, ChainIs DEF FreeList
<1>5. HeapTypeOK
  <2>1. DOMAIN heapPages \subseteq 1..HeapPageLimit
    BY <1>2, <1>3, HeapAssumption DEF FileOK
  <2>2. heapCount \in Nat
    BY <1>2, FiniteAddresses
  <2>3. QED
    BY <1>3, <2>1, <2>2 DEF HeapTypeOK
<1>6. list \in Seq(DOMAIN heapPages) /\ Len(list) \in Nat /\ DOMAIN list = 1..Len(list)
  BY <1>2 DEF Linked
<1>7. \A i, j \in DOMAIN list : list[i] = list[j] => i = j
  BY <1>2, <1>6 DEF Linked
<1>8. ASSUME freeHead # NoPage PROVE heapPages[Last(list)].next = NoPage
  <2>1. list # <<>>
    BY <1>3, <1>8
  <2>2. Len(list) \in 1..Len(list)
    BY <1>6, <2>1
  <2>3. QED
    BY <1>2, <2>2 DEF Linked, Last
<1>9. heapCount = Cardinality(HeapAddresses)
  BY <1>2, AddressesAre
<1>10. ToSet(list) = {id \in DOMAIN heapPages : ~IsFull(heapPages[id])}
  BY <1>2 DEF WithRoom
<1>11. QED
  BY <1>4, <1>5, <1>7, <1>8, <1>9, <1>10 DEF HeapSound

\* HeapFile: whatever the records, the slots of a page and the pages of the file, the list that
\* _free_head begins goes through each page with room once, and through no other, and _count is
\* the number of records that scan returns.
THEOREM HeapIsSound == HeapSpec => []HeapSound
<1>1. HeapSpec => []HeapInv
  BY HeapStart, HeapStepKeeps, PTL DEF HeapSpec
<1>2. QED
  BY <1>1, HeapInvIsSound, PTL

\* What each operation does to the entries <<address, record>> that scan returns: insert adds one,
\* at an address that none had; update replaces that of its address; delete takes it away.
EntriesAsAsked ==
  /\ \A record \in HeapRecord : HeapInsert(record) =>
       \E address \in Address \ HeapAddresses : Stored!PutEntry(<<address, record>>)
  /\ \A address \in Address, record \in HeapRecord : HeapUpdate(address, record) =>
       Stored!ReplaceEntry(<<address, HeapRows[address]>>, <<address, record>>)
  /\ \A address \in Address : HeapDelete(address) =>
       Stored!TakeEntry(<<address, HeapRows[address]>>)

\* HeapFile.insert, update and delete implement those of KeyedStore, in every step.
THEOREM HeapKeepsItsRecords == HeapSpec => [][EntriesAsAsked]_heapVars
<1>1. HeapSpec => []HeapInv
  BY HeapStart, HeapStepKeeps, PTL DEF HeapSpec
<1>2. HeapInv => EntriesAsAsked
  <2> SUFFICES ASSUME HeapInv PROVE EntriesAsAsked
    OBVIOUS
  <2>1. \A record \in HeapRecord : HeapInsert(record) =>
          \E address \in Address \ HeapAddresses : Stored!PutEntry(<<address, record>>)
    BY InsertStep
  <2>2. \A address \in Address, record \in HeapRecord : HeapUpdate(address, record) =>
          Stored!ReplaceEntry(<<address, HeapRows[address]>>, <<address, record>>)
    BY UpdateStep
  <2>3. \A address \in Address : HeapDelete(address) =>
          Stored!TakeEntry(<<address, HeapRows[address]>>)
    BY DeleteStep
  <2>4. QED
    BY <2>1, <2>2, <2>3 DEF EntriesAsAsked
<1>3. QED
  BY <1>1, <1>2, PTL

=============================================================================
