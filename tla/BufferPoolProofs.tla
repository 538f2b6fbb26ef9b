-------------------------- MODULE BufferPoolProofs --------------------------
(* Proofs about BufferPool, for any files, threads, capacity and bounds. *)
EXTENDS BufferPool, FiniteSetTheorems, WellFoundedInduction, TLAPS

-----------------------------------------------------------------------------
(* Files.                                                                   *)

LEMMA GreatestIs ==
  ASSUME NEW S, S \subseteq Nat, S # {}, NEW b \in Nat, \A n \in S : n <= b
  PROVE  Max(S) \in S /\ \A n \in S : n <= Max(S)
<1> DEFINE R == OpToRel(<, Nat)
           Below == {k \in Nat : b - k \in S}
<1>1. IsWellFoundedOn(R, Nat)
  BY NatLessThanWellFounded, Zenon
<1>2. \A m, n \in Nat : <<m, n>> \in R <=> m < n
  BY DEF OpToRel
<1>3. Below \subseteq Nat /\ Below # {}
  <2>1. PICK n \in S : TRUE
    OBVIOUS
  <2>2. b - n \in Nat /\ b - (b - n) = n
    OBVIOUS
  <2>3. QED
    BY <2>1, <2>2
<1> HIDE DEF R
<1>4. PICK k \in Below : \A n \in Below : ~(<<n, k>> \in R)
  BY <1>1, <1>3, WFMin
<1>5. b - k \in S /\ k \in Nat
  BY <1>4
<1>6. ASSUME NEW n \in S PROVE b - k >= n
  <2>1. n \in Nat /\ b - n \in Nat /\ b - (b - n) = n
    OBVIOUS
  <2>2. ~(b - n < k)
    BY <1>2, <1>4, <1>5, <2>1
  <2>3. QED
    BY <1>5, <2>1, <2>2
<1>7. QED
  BY <1>5, <1>6 DEF Max

LEMMA InFile ==
  ASSUME NEW file \in Seq(0..Versions), NEW n \in 1..Len(file)
  PROVE  /\ file[n] \in 0..Versions /\ file[n] \in Nat /\ n \in Nat \ {0}
         /\ Len(file) \in Nat /\ n <= Len(file)
BY PoolAssumption

\* What a file has of a is no older than what it has of b.
Later(a, b) == Len(b) <= Len(a) /\ \A p \in 1..Len(b) : b[p] <= a[p]

LEMMA LaterIsTransitive ==
  ASSUME NEW a \in Seq(Nat), NEW b \in Seq(Nat), NEW c \in Seq(Nat), Later(a, b), Later(b, c)
  PROVE  Later(a, c)
<1>1. Len(a) \in Nat /\ Len(b) \in Nat /\ Len(c) \in Nat /\ Len(c) <= Len(b) /\ Len(b) <= Len(a)
  BY DEF Later
<1>2. ASSUME NEW p \in 1..Len(c) PROVE c[p] <= a[p]
  <2>1. p \in 1..Len(b) /\ p \in 1..Len(a)
    <3>1. \A i, j, k \in Nat : i <= j /\ j <= k => 1..i \subseteq 1..j /\ 1..i \subseteq 1..k
      OBVIOUS
    <3>2. 1..Len(c) \subseteq 1..Len(b) /\ 1..Len(c) \subseteq 1..Len(a)
      BY <1>1, <3>1
    <3>3. QED
      BY <3>2
  <2>2. a[p] \in Nat /\ b[p] \in Nat /\ c[p] \in Nat
    <3>1. \A s \in Seq(Nat) : \A i \in 1..Len(s) : s[i] \in Nat
      OBVIOUS
    <3>2. QED
      BY <2>1, <3>1
  <2>3. c[p] <= b[p] /\ b[p] <= a[p]
    BY <2>1 DEF Later
  <2>4. QED
    BY <2>2, <2>3
<1>3. QED
  BY <1>1, <1>2 DEF Later

\* w is what pages were, but for v at p, and blanks between.
WrittenAt(w, pages, p, v) ==
  /\ w \in Seq(0..Versions)
  /\ p <= Len(pages) => Len(w) = Len(pages)
  /\ ~(p <= Len(pages)) => Len(w) = p
  /\ \A n \in 1..Len(w) :
       /\ n = p => w[n] = v
       /\ n # p /\ n <= Len(pages) => w[n] = pages[n]
       /\ n # p /\ ~(n <= Len(pages)) => w[n] = 0

LEMMA LaterIsAnOrder ==
  ASSUME NEW a \in Seq(Nat), NEW b \in Seq(Nat)
  PROVE  Later(a, a) /\ (Later(a, b) /\ Later(b, a) => a = b)
<1>1. Len(a) \in Nat /\ Len(b) \in Nat /\ \A p \in 1..Len(a) : a[p] \in Nat
  OBVIOUS
<1>2. Later(a, a)
  BY <1>1 DEF Later
<1>3. ASSUME Later(a, b), Later(b, a) PROVE a = b
  <2>1. Len(a) = Len(b)
    BY <1>1, <1>3 DEF Later
  <2>2. ASSUME NEW p \in 1..Len(a) PROVE a[p] = b[p]
    <3>1. a[p] \in Nat /\ b[p] \in Nat
      BY <2>1
    <3>2. QED
      BY <1>3, <2>1, <3>1 DEF Later
  <2>3. QED
    BY <2>1, <2>2
<1>4. QED
  BY <1>2, <1>3

LEMMA WriteThroughIs ==
  ASSUME NEW pages \in Seq(0..Versions), NEW p \in Nat \ {0}, NEW v \in 0..Versions
  PROVE  WrittenAt(WriteThrough(pages, p, v), pages, p, v)
<1> DEFINE m == Max({p, Len(pages)})
<1>0. Versions \in Nat
  BY PoolAssumption
<1>1. Len(pages) \in Nat
  OBVIOUS
<1>2. m \in {p, Len(pages)} /\ m >= p /\ m >= Len(pages)
  <2>1. \A n \in {p, Len(pages)} : n <= p + Len(pages)
    BY <1>1
  <2>2. {p, Len(pages)} \subseteq Nat /\ p + Len(pages) \in Nat /\ {p, Len(pages)} # {}
    BY <1>1
  <2>3. QED
    BY <2>1, <2>2, GreatestIs
<1>3. m = IF p <= Len(pages) THEN Len(pages) ELSE p
  BY <1>1, <1>2
<1> HIDE DEF m
<1>4. \A n \in 1..m : (IF n = p THEN v ELSE IF n <= Len(pages) THEN pages[n] ELSE 0) \in 0..Versions
  BY <1>0, <1>1
<1>5. WriteThrough(pages, p, v)
      = [n \in 1..m |-> IF n = p THEN v ELSE IF n <= Len(pages) THEN pages[n] ELSE 0]
  BY DEF WriteThrough, m
<1>6. m \in Nat
  BY <1>1, <1>3
<1>7. QED
  BY <1>3, <1>4, <1>5, <1>6 DEF WrittenAt

-----------------------------------------------------------------------------
(* Pages in memory.                                                         *)

LEMMA PageIs ==
  /\ \A x \in Page : x = <<x[1], x[2]>> /\ x[1] \in PoolFile /\ x[2] \in 1..FilePages[x[1]]
  /\ \A f \in PoolFile : \A p \in 1..FilePages[f] : <<f, p>> \in Page
BY DEF Page

\* What a page has once x was placed with version v.
Placed(x, v, y) == IF y = x THEN v ELSE frames[y]

\* x is placed with version v, and the pages in gone leave.
PlacesWithout(x, v, marked, gone) ==
  /\ frames' = [y \in (DOMAIN frames \cup {x}) \ gone |-> Placed(x, v, y)]
  /\ older' = [y \in (DOMAIN frames \cup {x}) \ gone |->
                 (IF y = x THEN DOMAIN frames \ {x} ELSE older[y] \ {x}) \ gone]
  /\ dirty' = marked \ gone
  /\ IsFiniteSet(DOMAIN frames') /\ Cardinality(DOMAIN frames') <= PoolCapacity
  /\ \/ written' = written /\ (DiskFails \/ gone \cap marked = {})
     \/ \E y \in gone \cap marked :
          /\ gone = {y}
          /\ written' = [written EXCEPT ![y[1]] = WriteThrough(@, y[2], Placed(x, v, y))]

\* At most one page leaves, and it is written if it has to be.
LEMMA PlaceIs ==
  ASSUME PoolTypeOK, NEW x \in Page, NEW v \in 0..Versions,
         NEW marked, marked \subseteq DOMAIN frames \cup {x}, PlacePage(x, v, marked)
  PROVE  \E gone \in SUBSET (DOMAIN frames \cup {x}) : PlacesWithout(x, v, marked, gone)
<1> DEFINE pages == DOMAIN frames \cup {x}
           order == [y \in pages |-> IF y = x THEN pages \ {x} ELSE older[y] \ {x}]
           placed == [y \in pages |-> IF y = x THEN v ELSE frames[y]]
<1>1. IsFiniteSet(pages) /\ Cardinality(pages) \in Nat /\ Cardinality(pages) <= PoolCapacity + 1
  <2>1. IsFiniteSet(DOMAIN frames) /\ Cardinality(DOMAIN frames) <= PoolCapacity
    BY DEF PoolTypeOK, FramesOK
  <2>2. /\ IsFiniteSet(pages)
        /\ Cardinality(pages) = IF x \in DOMAIN frames THEN Cardinality(DOMAIN frames)
                                ELSE Cardinality(DOMAIN frames) + 1
    BY <2>1, FS_AddElement
  <2>3. Cardinality(DOMAIN frames) \in Nat /\ Cardinality(pages) \in Nat /\ PoolCapacity \in Nat
    BY <2>1, <2>2, FS_CardinalityType, PoolAssumption
  <2>4. QED
    BY <2>1, <2>2, <2>3
<1>2. CASE Cardinality(pages) <= PoolCapacity
  <2>1. frames' = placed /\ older' = order /\ dirty' = marked /\ written' = written
    BY <1>2 DEF PlacePage
  <2>2. WITNESS {} \in SUBSET pages
  <2>3. DOMAIN frames' = pages
    BY <2>1
  <2>4. frames' = [y \in pages \ {} |-> Placed(x, v, y)]
    BY <2>1 DEF Placed
  <2>5. older' = [y \in pages \ {} |->
                    (IF y = x THEN DOMAIN frames \ {x} ELSE older[y] \ {x}) \ {}]
    BY <2>1
  <2>6. QED
    BY <1>1, <1>2, <2>1, <2>3, <2>4, <2>5 DEF PlacesWithout
<1>3. CASE ~(Cardinality(pages) <= PoolCapacity)
  <2>1. PICK y \in pages :
          /\ frames' = Restrict(placed, pages \ {y})
          /\ older' = [z \in pages \ {y} |-> order[z] \ {y}]
          /\ dirty' = marked \ {y}
          /\ written' \in
               IF MustWrite(y, marked)
               THEN {[written EXCEPT ![y[1]] = WriteThrough(@, y[2], placed[y])]}
                      \cup IF DiskFails THEN {written} ELSE {}
               ELSE {written}
    BY <1>3 DEF PlacePage
  <2>2. WITNESS {y} \in SUBSET pages
  <2>3. DOMAIN frames' = pages \ {y}
    BY <2>1 DEF Restrict
  <2>4. IsFiniteSet(pages \ {y}) /\ Cardinality(pages \ {y}) = Cardinality(pages) - 1
    BY <1>1, FS_RemoveElement
  <2>5. Cardinality(DOMAIN frames') <= PoolCapacity
    BY <1>1, <2>3, <2>4, PoolAssumption
  <2>6. frames' = [z \in pages \ {y} |-> Placed(x, v, z)]
    BY <2>1 DEF Restrict, Placed
  <2>7. older' = [z \in pages \ {y} |->
                    (IF z = x THEN DOMAIN frames \ {x} ELSE older[z] \ {x}) \ {y}]
    BY <2>1
  <2>8. placed[y] = Placed(x, v, y)
    BY DEF Placed
  <2> HIDE DEF placed, order
  <2>9. \/ written' = written /\ (DiskFails \/ {y} \cap marked = {})
        \/ /\ y \in marked
           /\ written' = [written EXCEPT ![y[1]] = WriteThrough(@, y[2], Placed(x, v, y))]
    BY <2>1, <2>8 DEF MustWrite
  <2>10. QED
    BY <2>1, <2>3, <2>4, <2>5, <2>6, <2>7, <2>9 DEF PlacesWithout
<1>4. QED
  BY <1>2, <1>3

\* What each file has is within its bound.
FilesOK(files) ==
  /\ files \in [PoolFile -> Seq(0..Versions)]
  /\ \A f \in PoolFile : Len(files[f]) <= FilePages[f]

LEMMA FileIsReplaced ==
  ASSUME NEW files, FilesOK(files), NEW f \in PoolFile, NEW w \in Seq(0..Versions),
         Len(w) <= FilePages[f]
  PROVE  FilesOK([files EXCEPT ![f] = w])
BY DEF FilesOK

LEMMA PlaceTypes ==
  ASSUME PoolTypeOK, NEW x \in Page, NEW v \in 0..Versions,
         NEW marked, marked \subseteq DOMAIN frames \cup {x}, PlacePage(x, v, marked)
  PROVE  FramesOK' /\ FilesOK(written')
<1> DEFINE pages == DOMAIN frames \cup {x}
<1>0. PICK gone \in SUBSET pages : PlacesWithout(x, v, marked, gone)
  BY PlaceIs
<1> USE DEF PoolTypeOK, FramesOK
<1>1. /\ frames' = [y \in pages \ gone |-> Placed(x, v, y)]
      /\ older' = [y \in pages \ gone |->
                     (IF y = x THEN DOMAIN frames \ {x} ELSE older[y] \ {x}) \ gone]
      /\ dirty' = marked \ gone
      /\ IsFiniteSet(DOMAIN frames') /\ Cardinality(DOMAIN frames') <= PoolCapacity
      /\ \/ written' = written
         \/ \E y \in gone :
              written' = [written EXCEPT ![y[1]] = WriteThrough(@, y[2], Placed(x, v, y))]
  BY <1>0 DEF PlacesWithout
<1>2. \A y \in pages : Placed(x, v, y) \in 0..Versions
  BY DEF Placed
<1>3. DOMAIN frames' = pages \ gone /\ pages \subseteq Page
  BY <1>1
<1>4. /\ frames' \in [DOMAIN frames' -> 0..Versions] /\ DOMAIN frames' \subseteq Page
      /\ dirty' \subseteq DOMAIN frames'
  BY <1>1, <1>2, <1>3
<1>5. \A y \in DOMAIN frames' :
        older'[y] = (IF y = x THEN DOMAIN frames \ {x} ELSE older[y] \ {x}) \ gone
  BY <1>1, <1>3
<1>6. older' \in [DOMAIN frames' -> SUBSET DOMAIN frames']
  <2>1. \A y \in pages \ gone :
          (IF y = x THEN DOMAIN frames \ {x} ELSE older[y] \ {x}) \ gone \subseteq pages \ gone
    OBVIOUS
  <2>2. QED
    BY <1>1, <1>3, <2>1
<1>7. \A y, z \in DOMAIN frames' :
        /\ y \in older'[z] => older'[y] \subseteq older'[z] /\ y \notin older'[y]
        /\ y \in older'[z] \/ z \in older'[y] \/ y = z
  BY <1>3, <1>5
<1>8. FilesOK(written')
  <2>1. FilesOK(written)
    BY DEF FilesOK
  <2>2. ASSUME NEW y \in gone,
               written' = [written EXCEPT ![y[1]] = WriteThrough(@, y[2], Placed(x, v, y))]
        PROVE  FilesOK(written')
    <3>1. /\ y[1] \in PoolFile /\ y[2] \in Nat \ {0} /\ y[2] <= FilePages[y[1]]
          /\ Placed(x, v, y) \in 0..Versions
      <4>1. y \in Page /\ Placed(x, v, y) \in 0..Versions
        BY <1>2, <1>3
      <4>2. y[1] \in PoolFile /\ y[2] \in 1..FilePages[y[1]]
        BY <4>1, PageIs
      <4>3. FilePages[y[1]] \in Nat
        BY <4>2, PoolAssumption
      <4>4. QED
        BY <4>1, <4>2, <4>3
    <3>2. written[y[1]] \in Seq(0..Versions) /\ Len(written[y[1]]) <= FilePages[y[1]]
      BY <2>1, <3>1 DEF FilesOK
    <3> DEFINE w == WriteThrough(written[y[1]], y[2], Placed(x, v, y))
    <3>2a. WrittenAt(w, written[y[1]], y[2], Placed(x, v, y))
      BY <3>1, <3>2, WriteThroughIs
    <3>4. written' = [written EXCEPT ![y[1]] = w]
      BY <2>2
    <3> HIDE DEF w
    <3>3. w \in Seq(0..Versions) /\ Len(w) <= FilePages[y[1]]
      <4>1. /\ w \in Seq(0..Versions)
            /\ y[2] <= Len(written[y[1]]) => Len(w) = Len(written[y[1]])
            /\ ~(y[2] <= Len(written[y[1]])) => Len(w) = y[2]
        BY <3>2a DEF WrittenAt
      <4>2. QED
        BY <3>1, <3>2, <4>1
    <3>5. QED
      BY <2>1, <3>1, <3>3, <3>4, FileIsReplaced
  <2>3. QED
    BY <1>1, <2>1, <2>2
<1>9. QED
  BY <1>1, <1>4, <1>6, <1>7, <1>8

\* Pages leave memory without disturbing the order of the others.
LEMMA ForgetTypes ==
  ASSUME FramesOK, NEW f, Forget(f)
  PROVE  FramesOK'
<1> USE DEF FramesOK
<1> DEFINE others == {x \in DOMAIN frames : x[1] # f}
<1>1. /\ frames' = [x \in others |-> frames[x]]
      /\ older' = [x \in others |-> older[x] \cap others]
      /\ dirty' = {x \in dirty : x[1] # f}
  BY DEF Forget, Restrict
<1>2. DOMAIN frames' = others /\ others \subseteq DOMAIN frames
  BY <1>1
<1>3. IsFiniteSet(others) /\ Cardinality(others) <= PoolCapacity
  <2>1. IsFiniteSet(others) /\ Cardinality(others) <= Cardinality(DOMAIN frames)
    BY FS_Subset
  <2>2. Cardinality(others) \in Nat /\ Cardinality(DOMAIN frames) \in Nat /\ PoolCapacity \in Nat
    BY <2>1, FS_CardinalityType, PoolAssumption
  <2>3. QED
    BY <2>1, <2>2
<1>4. \A x, y \in others :
        /\ x \in older'[y] => older'[x] \subseteq older'[y] /\ x \notin older'[x]
        /\ x \in older'[y] \/ y \in older'[x] \/ x = y
  BY <1>1
<1>5. older' \in [others -> SUBSET others] /\ frames' \in [others -> 0..Versions]
  BY <1>1
<1> HIDE DEF others
<1>6. dirty' \subseteq others
  BY <1>1 DEF others
<1>7. QED
  BY <1>2, <1>3, <1>4, <1>5, <1>6

\* The pages a flush has written when it is past page k, and the file it leaves.
Going(f, k) == {n \in DirtyOf(f) : n <= k}

LEMMA WithDirtyIs ==
  ASSUME PoolTypeOK, NEW f \in PoolFile, NEW k \in Nat
  PROVE  LET w == WithDirty(f, k)
         IN  /\ w \in Seq(0..Versions)
             /\ Len(written[f]) <= Len(w) /\ Len(w) <= FilePages[f]
             /\ \A n \in Going(f, k) : n \in 1..Len(w)
             /\ Len(w) = Len(written[f]) \/ Len(w) \in Going(f, k)
             /\ \A n \in 1..Len(w) :
                  w[n] = IF n \in Going(f, k) THEN frames[<<f, n>>]
                         ELSE IF n <= Len(written[f]) THEN written[f][n] ELSE 0
<1> DEFINE S == {Len(written[f])} \cup Going(f, k)
           m == Max(S)
           At(n) == IF n \in Going(f, k) THEN frames[<<f, n>>]
                    ELSE IF n <= Len(written[f]) THEN written[f][n] ELSE 0
<1>1. /\ written[f] \in Seq(0..Versions) /\ Len(written[f]) \in Nat /\ Versions \in Nat
      /\ Len(written[f]) <= FilePages[f]
  BY PoolAssumption DEF PoolTypeOK
<1>2. \A n \in Going(f, k) : n \in Nat /\ n >= 1 /\ n <= k /\ n <= FilePages[f]
  BY PoolAssumption DEF Going, DirtyOf
<1>2a. \A n \in Going(f, k) : <<f, n>> \in DOMAIN frames /\ frames[<<f, n>>] \in 0..Versions
  BY DEF Going, DirtyOf, PoolTypeOK, FramesOK
<1>3. m \in S /\ \A n \in S : n <= m
  <2>1. S \subseteq Nat /\ S # {} /\ Len(written[f]) + k \in Nat
    BY <1>1, <1>2
  <2>2. \A n \in S : n <= Len(written[f]) + k
    BY <1>1, <1>2
  <2> HIDE DEF S
  <2>3. QED
    BY <2>1, <2>2, GreatestIs
<1>4. m \in Nat
  BY <1>1, <1>2, <1>3
<1> HIDE DEF m
<1>5. \A n \in Going(f, k) : Shown(f, n) = frames[<<f, n>>]
  BY <1>2a DEF Shown
<1>6. WithDirty(f, k) = [n \in 1..m |-> At(n)]
  BY <1>5 DEF WithDirty, Going, m
<1>7. ASSUME NEW n \in 1..m PROVE At(n) \in 0..Versions
  <2>1. CASE n \in Going(f, k)
    BY <1>2a, <2>1
  <2>2. CASE n \notin Going(f, k) /\ n <= Len(written[f])
    BY <1>1, <1>4, <2>2
  <2>3. CASE n \notin Going(f, k) /\ ~(n <= Len(written[f]))
    BY <1>1, <2>3
  <2>4. QED
    BY <2>1, <2>2, <2>3
<1> HIDE DEF At
<1>8. WithDirty(f, k) \in Seq(0..Versions) /\ Len(WithDirty(f, k)) = m
  BY <1>4, <1>6, <1>7
<1>9. \A n \in 1..m : WithDirty(f, k)[n] = At(n)
  BY <1>6
<1>10. QED
  BY <1>1, <1>2, <1>3, <1>4, <1>8, <1>9 DEF At

-----------------------------------------------------------------------------
(* The type invariant.                                                      *)

LEMMA NoPagesTypes ==
  ASSUME frames = <<>>, older = <<>>, dirty = {}
  PROVE  FramesOK
<1>1. DOMAIN frames = {} /\ DOMAIN older = {}
  OBVIOUS
<1>2. frames \in [{} -> 0..Versions] /\ older \in [{} -> SUBSET {}]
  BY <1>1
<1>3. IsFiniteSet({}) /\ Cardinality({}) <= PoolCapacity
  BY FS_EmptySet, PoolAssumption
<1>4. QED
  BY <1>1, <1>2, <1>3 DEF FramesOK

\* The rest of the type invariant, from what the files have.
LEMMA TypesAre ==
  PoolTypeOK <=>
    /\ FramesOK
    /\ pageCount \in [PoolFile -> Nat \cup {Closed}]
    /\ \A f \in PoolFile : pageCount[f] <= FilePages[f]
    /\ FilesOK(written) /\ FilesOK(device)
    /\ latest \in [PoolFile -> Seq(0..Versions)] /\ promised \in [PoolFile -> Seq(0..Versions)]
    /\ syncing \in [Flusher -> [file : SUBSET PoolFile, upTo : Seq(0..Versions)]]
BY DEF PoolTypeOK, FilesOK

LEMMA TypesAreNext ==
  PoolTypeOK' <=>
    /\ FramesOK'
    /\ pageCount' \in [PoolFile -> Nat \cup {Closed}]
    /\ \A f \in PoolFile : pageCount'[f] <= FilePages[f]
    /\ FilesOK(written') /\ FilesOK(device')
    /\ latest' \in [PoolFile -> Seq(0..Versions)] /\ promised' \in [PoolFile -> Seq(0..Versions)]
    /\ syncing' \in [Flusher -> [file : SUBSET PoolFile, upTo : Seq(0..Versions)]]
BY DEF PoolTypeOK, FilesOK

LEMMA FramesStay ==
  ASSUME FramesOK, frames' = frames, older' = older, dirty' \subseteq dirty
  PROVE  FramesOK'
BY DEF FramesOK

LEMMA ReadTypes ==
  ASSUME PoolTypeOK, NEW f \in PoolFile, NEW p \in 1..FilePages[f], Read(f, p)
  PROVE  PoolTypeOK'
<1>1. <<f, p>> \in Page /\ dirty \subseteq DOMAIN frames \cup {<<f, p>>}
  BY PageIs DEF PoolTypeOK, FramesOK
<1>2. Shown(f, p) \in 0..Versions
  <2>1. frames \in [DOMAIN frames -> 0..Versions] /\ written[f] \in Seq(0..Versions)
    BY DEF PoolTypeOK, FramesOK
  <2>2. p <= Len(written[f]) => written[f][p] \in 0..Versions
    BY <2>1, PoolAssumption
  <2>3. QED
    BY <2>1, <2>2, PoolAssumption DEF Shown
<1>3. FramesOK' /\ FilesOK(written')
  BY <1>1, <1>2, PlaceTypes DEF Read
<1>4. QED
  BY <1>3, TypesAre, TypesAreNext DEF Read

LEMMA WriteTypes ==
  ASSUME PoolTypeOK, NEW f \in PoolFile, NEW p \in 1..FilePages[f], p \in 1..Len(latest[f]),
         Write(f, p)
  PROVE  PoolTypeOK'
<1> DEFINE v == latest[f][p] + 1
<1>1. <<f, p>> \in Page /\ dirty \cup {<<f, p>>} \subseteq DOMAIN frames \cup {<<f, p>>}
  BY PageIs DEF PoolTypeOK, FramesOK
<1>2. latest[f] \in Seq(0..Versions) /\ v \in 0..Versions
  BY PoolAssumption DEF PoolTypeOK, Write
<1>3. FramesOK' /\ FilesOK(written')
  BY <1>1, <1>2, PlaceTypes DEF Write
<1>4. latest' = [latest EXCEPT ![f] = [latest[f] EXCEPT ![p] = v]]
  BY DEF Write
<1> HIDE DEF v
<1>5. [latest[f] EXCEPT ![p] = v] \in Seq(0..Versions)
  BY <1>2
<1>6. latest' \in [PoolFile -> Seq(0..Versions)]
  BY <1>4, <1>5, TypesAre
<1>7. QED
  BY <1>3, <1>6, TypesAre, TypesAreNext DEF Write

LEMMA AllocateTypes ==
  ASSUME PoolTypeOK, NEW f \in PoolFile, Allocate(f)
  PROVE  PoolTypeOK'
<1> DEFINE p == pageCount[f] + 1
<1>1. p \in 1..FilePages[f]
  BY PoolAssumption DEF PoolTypeOK, Allocate
<1>2. <<f, p>> \in Page /\ dirty \cup {<<f, p>>} \subseteq DOMAIN frames \cup {<<f, p>>}
  BY <1>1, PageIs DEF PoolTypeOK, FramesOK
<1>3. FramesOK' /\ FilesOK(written')
  BY <1>2, PlaceTypes, PoolAssumption DEF Allocate
<1>4. latest' \in [PoolFile -> Seq(0..Versions)]
  <2>1. Append(latest[f], 0) \in Seq(0..Versions)
    BY PoolAssumption, TypesAre
  <2>2. QED
    BY <2>1, TypesAre DEF Allocate
<1>5. /\ pageCount' \in [PoolFile -> Nat \cup {Closed}]
      /\ \A g \in PoolFile : pageCount'[g] <= FilePages[g]
  BY <1>1, TypesAre DEF Allocate
<1>6. QED
  BY <1>3, <1>4, <1>5, TypesAre, TypesAreNext DEF Allocate

LEMMA CloseTypes ==
  ASSUME PoolTypeOK, NEW f \in PoolFile, Close(f)
  PROVE  PoolTypeOK'
<1> DEFINE w == WithDirty(f, FilePages[f])
<1>1. w \in Seq(0..Versions) /\ Len(w) <= FilePages[f]
  BY WithDirtyIs, PoolAssumption
<1>2. FramesOK'
  BY ForgetTypes DEF Close, PoolTypeOK
<1>3. /\ pageCount' \in [PoolFile -> Nat \cup {Closed}]
      /\ \A g \in PoolFile : pageCount'[g] <= FilePages[g]
  BY TypesAre, PoolAssumption DEF Close, Forget, Closed
<1>4. written' = [written EXCEPT ![f] = w]
  BY DEF Close
<1> HIDE DEF w
<1>5. written'[f] = w /\ FilesOK(written')
  BY <1>1, <1>4, FileIsReplaced, TypesAre DEF FilesOK
<1>6. FilesOK(device')
  BY <1>1, <1>5, FileIsReplaced, TypesAre DEF Close
<1>7. /\ latest' = latest /\ syncing' = syncing
      /\ promised' \in [PoolFile -> Seq(0..Versions)]
  BY TypesAre DEF Close
<1>8. QED
  BY <1>2, <1>3, <1>5, <1>6, <1>7, TypesAre, TypesAreNext


-----------------------------------------------------------------------------
(* The invariant.                                                           *)

\* A page in memory is as it was last given to write, and one without a mark is so in its file;
\* a closed file has everything; nothing goes back on what was promised.
Kept(f) ==
  /\ IF pageCount[f] = Closed THEN latest[f] = written[f] ELSE Len(latest[f]) = pageCount[f]
  /\ Later(latest[f], written[f])
  /\ Later(written[f], promised[f]) /\ Later(device[f], promised[f])
  /\ \A p \in 1..Len(latest[f]) :
       /\ <<f, p>> \in DOMAIN frames => frames[<<f, p>>] = latest[f][p]
       /\ <<f, p>> \notin dirty => p <= Len(written[f]) /\ written[f][p] = latest[f][p]

\* The pages in memory are of open files, within them.
Loaded == \A x \in DOMAIN frames : x[2] <= pageCount[x[1]]

\* What an fsync under way is going to promise was written before it began.
Promises == \A s \in Flusher : \A f \in syncing[s].file : Later(written[f], syncing[s].upTo)

PoolInv == PoolTypeOK /\ (\A f \in PoolFile : Kept(f)) /\ Loaded /\ Promises

\* x is placed with its last version, and what is not marked is in its file.
PlacesLatest(x, v, marked) ==
  /\ marked \subseteq DOMAIN frames \cup {x} /\ PlacePage(x, v, marked)
  /\ latest' \in [PoolFile -> Seq(0..Versions)]
  /\ \A y \in DOMAIN frames \cup {x} :
       y[2] \in 1..Len(latest'[y[1]]) /\ Placed(x, v, y) = latest'[y[1]][y[2]]
  /\ \A f \in PoolFile : \A p \in 1..Len(latest'[f]) :
       <<f, p>> \notin marked => p <= Len(written[f]) /\ written[f][p] = latest'[f][p]
  /\ \A f \in PoolFile : Later(latest'[f], written[f])

\* Memory and files are then right, and no file went back.
LEMMA PlaceKeeps ==
  ASSUME PoolTypeOK, ~DiskFails, NEW x \in Page, NEW v \in 0..Versions,
         NEW marked, PlacesLatest(x, v, marked)
  PROVE  /\ DOMAIN frames' \subseteq DOMAIN frames \cup {x}
         /\ \A f \in PoolFile :
              /\ Later(latest'[f], written'[f]) /\ Later(written'[f], written[f])
              /\ \A p \in 1..Len(latest'[f]) :
                   /\ <<f, p>> \in DOMAIN frames' => frames'[<<f, p>>] = latest'[f][p]
                   /\ <<f, p>> \notin dirty' =>
                        p <= Len(written'[f]) /\ written'[f][p] = latest'[f][p]
<1> USE DEF PlacesLatest
<1> DEFINE pages == DOMAIN frames \cup {x}
<1>1. PICK gone \in SUBSET pages : PlacesWithout(x, v, marked, gone)
  BY PlaceIs
<1>2. /\ frames' = [y \in pages \ gone |-> Placed(x, v, y)]
      /\ dirty' = marked \ gone
      /\ \/ written' = written /\ gone \cap marked = {}
         \/ \E y \in gone \cap marked :
              /\ gone = {y}
              /\ written' = [written EXCEPT ![y[1]] = WriteThrough(@, y[2], Placed(x, v, y))]
  BY <1>1 DEF PlacesWithout
<1>3. DOMAIN frames' = pages \ gone
  BY <1>2
<1>4. \A f \in PoolFile : written[f] \in Seq(0..Versions) /\ latest'[f] \in Seq(0..Versions)
  BY DEF PoolTypeOK
<1>5. Versions \in Nat
  BY PoolAssumption
<1>6. \A f \in PoolFile : \A p \in 1..Len(latest'[f]) :
        <<f, p>> \in DOMAIN frames' => frames'[<<f, p>>] = latest'[f][p]
  BY <1>2, <1>3
<1>7. CASE written' = written /\ gone \cap marked = {}
  <2>1. dirty' = marked
    BY <1>2, <1>7
  <2>2. \A f \in PoolFile : Later(written[f], written[f])
    BY <1>4, <1>5 DEF Later
  <2>3. QED
    BY <1>3, <1>6, <1>7, <2>1, <2>2
<1>8. ASSUME NEW y \in gone \cap marked, gone = {y},
             written' = [written EXCEPT ![y[1]] = WriteThrough(@, y[2], Placed(x, v, y))]
      PROVE  \A f \in PoolFile :
               /\ Later(latest'[f], written'[f]) /\ Later(written'[f], written[f])
               /\ \A p \in 1..Len(latest'[f]) : <<f, p>> \notin dirty' =>
                    p <= Len(written'[f]) /\ written'[f][p] = latest'[f][p]
  <2> DEFINE g == y[1]
             q == y[2]
             w == WriteThrough(written[g], q, latest'[g][q])
  <2>1. y = <<g, q>> /\ g \in PoolFile /\ y \in Page
    BY PageIs DEF PoolTypeOK, FramesOK
  <2>2. q \in 1..Len(latest'[g]) /\ Placed(x, v, y) = latest'[g][q]
    OBVIOUS
  <2>3. written' = [written EXCEPT ![g] = w]
    BY <1>8, <2>2
  <2> HIDE DEF g, q
  <2>4. /\ latest'[g][q] \in 0..Versions /\ q \in Nat \ {0} /\ Len(latest'[g]) \in Nat
        /\ q <= Len(latest'[g])
    BY <1>4, <2>1, <2>2, InFile
  <2>4a. WrittenAt(w, written[g], q, latest'[g][q])
    BY <1>4, <2>1, <2>4, WriteThroughIs
  <2> HIDE DEF w
  <2>5. /\ w \in Seq(0..Versions)
        /\ q <= Len(written[g]) => Len(w) = Len(written[g])
        /\ ~(q <= Len(written[g])) => Len(w) = q
        /\ \A n \in 1..Len(w) :
             /\ n = q => w[n] = latest'[g][q]
             /\ n # q /\ n <= Len(written[g]) => w[n] = written[g][n]
             /\ n # q /\ ~(n <= Len(written[g])) => w[n] = 0
    BY <2>4a DEF WrittenAt
  <2>6. written'[g] = w /\ \A f \in PoolFile \ {g} : written'[f] = written[f]
    BY <2>1, <2>3 DEF PoolTypeOK
  <2>7. Later(latest'[g], written[g]) /\ latest'[g] \in Seq(0..Versions) /\ written[g] \in Seq(0..Versions)
    BY <1>4, <2>1
  <2>8. Later(latest'[g], w) /\ Later(w, written[g])
    <3>1. Len(written[g]) <= Len(latest'[g]) /\ Len(written[g]) \in Nat /\ Len(w) \in Nat
      BY <2>5, <2>7 DEF Later
    <3>2. Len(w) <= Len(latest'[g]) /\ Len(written[g]) <= Len(w)
      BY <2>2, <2>4, <2>5, <3>1
    <3>3. ASSUME NEW n \in 1..Len(w) PROVE w[n] <= latest'[g][n]
      <4>0. n \in 1..Len(latest'[g])
        BY <2>4, <3>1, <3>2
      <4>1. latest'[g][n] \in 0..Versions
        BY <2>7, <4>0, InFile
      <4>2. CASE n = q
        BY <1>5, <2>5, <4>1, <4>2
      <4>3. CASE n # q /\ n <= Len(written[g])
        <5>1. n \in 1..Len(written[g])
          BY <3>1, <4>3
        <5>2. QED
          BY <2>5, <2>7, <4>3, <5>1 DEF Later
      <4>4. CASE n # q /\ ~(n <= Len(written[g]))
        <5>1. w[n] = 0
          BY <2>5, <4>4
        <5>2. QED
          BY <1>5, <4>1, <5>1
      <4>5. QED
        BY <4>2, <4>3, <4>4
    <3>4. ASSUME NEW n \in 1..Len(written[g]) PROVE written[g][n] <= w[n]
      <4>0. n \in 1..Len(w) /\ n <= Len(written[g])
        BY <3>1, <3>2
      <4>1. written[g][n] \in 0..Versions
        BY <2>7, InFile
      <4>2. CASE n = q
        <5>1. written[g][n] <= latest'[g][n]
          BY <2>7 DEF Later
        <5>2. w[n] = latest'[g][n]
          BY <2>5, <4>0, <4>2
        <5>3. QED
          BY <5>1, <5>2
      <4>3. CASE n # q
        <5>1. w[n] = written[g][n]
          BY <2>5, <4>0, <4>3
        <5>2. QED
          BY <1>5, <4>1, <5>1
      <4>4. QED
        BY <4>2, <4>3
    <3>5. QED
      BY <3>2, <3>3, <3>4 DEF Later
  <2>9. ASSUME NEW p \in 1..Len(latest'[g]), <<g, p>> \notin dirty'
        PROVE  p <= Len(w) /\ w[p] = latest'[g][p]
    <3>0. Len(written[g]) \in Nat
      BY <2>7
    <3>1. CASE p = q
      BY <2>4, <2>5, <3>0, <3>1
    <3>2. CASE p # q
      <4>1. <<g, p>> \notin marked
        BY <1>2, <1>8, <2>1, <2>9, <3>2
      <4>2. p <= Len(written[g]) /\ written[g][p] = latest'[g][p]
        BY <2>1, <4>1
      <4>3. QED
        BY <2>4, <2>5, <3>0, <3>2, <4>2
    <3>3. QED
      BY <3>1, <3>2
  <2>10. ASSUME NEW f \in PoolFile, f # g
         PROVE  /\ Later(latest'[f], written'[f]) /\ Later(written'[f], written[f])
                /\ \A p \in 1..Len(latest'[f]) : <<f, p>> \notin dirty' =>
                     p <= Len(written'[f]) /\ written'[f][p] = latest'[f][p]
    <3>1. written'[f] = written[f] /\ \A p : <<f, p>> # y
      BY <2>1, <2>6, <2>10
    <3>2. Later(written[f], written[f])
      BY <1>4, <1>5 DEF Later
    <3>3. \A p : <<f, p>> \notin dirty' => <<f, p>> \notin marked
      BY <1>2, <1>8, <3>1
    <3>4. QED
      BY <3>1, <3>2, <3>3
  <2>11. QED
    BY <2>6, <2>8, <2>9, <2>10
<1>9. QED
  BY <1>2, <1>3, <1>6, <1>7, <1>8

-----------------------------------------------------------------------------
(* What the invariant says.                                                 *)

LEMMA FilesAre ==
  ASSUME PoolTypeOK, NEW f \in PoolFile
  PROVE  /\ {written[f], device[f], latest[f], promised[f]} \subseteq Seq(0..Versions)
         /\ {written[f], device[f], latest[f], promised[f]} \subseteq Seq(Nat)
<1>1. {written[f], device[f], latest[f], promised[f]} \subseteq Seq(0..Versions)
  BY TypesAre DEF FilesOK
<1>2. Seq(0..Versions) \subseteq Seq(Nat)
  BY PoolAssumption
<1>3. QED
  BY <1>1, <1>2

LEMMA InMemory ==
  ASSUME PoolInv, NEW x \in DOMAIN frames
  PROVE  /\ x = <<x[1], x[2]>> /\ x[1] \in PoolFile /\ x \in Page
         /\ pageCount[x[1]] # Closed /\ x[2] <= pageCount[x[1]]
         /\ x[2] \in 1..Len(latest[x[1]]) /\ frames[x] = latest[x[1]][x[2]]
<1>1. x \in Page /\ x = <<x[1], x[2]>> /\ x[1] \in PoolFile /\ x[2] \in Nat /\ x[2] >= 1
  BY PageIs, PoolAssumption DEF PoolInv, PoolTypeOK, FramesOK
<1>2. x[2] <= pageCount[x[1]] /\ pageCount[x[1]] \in Nat \cup {Closed}
  BY <1>1 DEF PoolInv, Loaded, PoolTypeOK
<1>3. pageCount[x[1]] # Closed
  BY <1>1, <1>2 DEF Closed
<1>4. Kept(x[1])
  BY <1>1 DEF PoolInv
<1>5. x[2] \in 1..Len(latest[x[1]])
  BY <1>1, <1>2, <1>3, <1>4 DEF Kept
<1>6. frames[x] = latest[x[1]][x[2]]
  BY <1>1, <1>4, <1>5 DEF Kept
<1>7. QED
  BY <1>1, <1>2, <1>3, <1>5, <1>6

\* A read shows the last write.
LEMMA ShownIsLatest ==
  ASSUME PoolInv, NEW f \in PoolFile, NEW p \in Nat, p >= 1, p <= pageCount[f]
  PROVE  /\ pageCount[f] # Closed /\ Len(latest[f]) = pageCount[f]
         /\ p \in 1..Len(latest[f]) /\ Shown(f, p) = latest[f][p]
<1>1. Kept(f) /\ pageCount[f] \in Nat \cup {Closed} /\ dirty \subseteq DOMAIN frames
  BY DEF PoolInv, PoolTypeOK, FramesOK
<1>2. pageCount[f] # Closed
  BY <1>1 DEF Closed
<1>3. Len(latest[f]) = pageCount[f] /\ p \in 1..Len(latest[f])
  BY <1>1, <1>2 DEF Kept
<1>4. Shown(f, p) = latest[f][p]
  BY <1>1, <1>3 DEF Kept, Shown
<1>5. QED
  BY <1>2, <1>3, <1>4

\* A file with some of its dirty pages written is between what it was and the last writes; with
\* all of them, it is the last writes.
LEMMA FlushWrites ==
  ASSUME PoolInv, NEW f \in PoolFile, NEW k \in Nat, NEW w, w = WithDirty(f, k)
  PROVE  /\ w \in Seq(0..Versions) /\ Len(w) <= FilePages[f]
         /\ Later(latest[f], w) /\ Later(w, written[f])
         /\ \A p \in 1..Len(latest[f]) :
              <<f, p>> \notin dirty => p <= Len(w) /\ w[p] = latest[f][p]
         /\ k = FilePages[f] => w = latest[f]
<1> DEFINE At(n) == IF n \in Going(f, k) THEN frames[<<f, n>>]
                    ELSE IF n <= Len(written[f]) THEN written[f][n] ELSE 0
<1>0. /\ w \in Seq(0..Versions)
      /\ Len(written[f]) <= Len(w) /\ Len(w) <= FilePages[f]
      /\ \A n \in Going(f, k) : n \in 1..Len(w)
      /\ Len(w) = Len(written[f]) \/ Len(w) \in Going(f, k)
      /\ \A n \in 1..Len(w) : w[n] = At(n)
  BY WithDirtyIs DEF PoolInv
<1>1. /\ w \in Seq(0..Versions)
      /\ Len(written[f]) <= Len(w) /\ Len(w) <= FilePages[f]
      /\ \A n \in Going(f, k) : n \in 1..Len(w)
      /\ Len(w) = Len(written[f]) \/ Len(w) \in Going(f, k)
  BY <1>0
<1>1a. ASSUME NEW n \in 1..Len(w)
       PROVE  /\ n \in Going(f, k) => w[n] = frames[<<f, n>>]
              /\ n \notin Going(f, k) /\ n <= Len(written[f]) => w[n] = written[f][n]
              /\ n \notin Going(f, k) /\ ~(n <= Len(written[f])) => w[n] = 0
  <2>1. w[n] = At(n)
    BY <1>0
  <2>2. QED
    BY <2>1, Zenon
<1> HIDE DEF At
<1>2. /\ written[f] \in Seq(0..Versions) /\ latest[f] \in Seq(0..Versions) /\ Versions \in Nat
      /\ written[f] \in Seq(Nat) /\ latest[f] \in Seq(Nat) /\ w \in Seq(Nat)
  BY <1>1, FilesAre, PoolAssumption DEF PoolInv
<1>3. /\ Later(latest[f], written[f])
      /\ \A p \in 1..Len(latest[f]) :
           <<f, p>> \notin dirty => p <= Len(written[f]) /\ written[f][p] = latest[f][p]
  BY DEF PoolInv, Kept
<1>4. \A n \in Going(f, k) :
        n \in 1..Len(latest[f]) /\ frames[<<f, n>>] = latest[f][n] /\ <<f, n>> \in dirty
  <2>1. ASSUME NEW n \in Going(f, k)
        PROVE  <<f, n>> \in DOMAIN frames /\ <<f, n>> \in dirty
    BY DEF Going, DirtyOf, PoolInv, PoolTypeOK, FramesOK
  <2>2. QED
    BY <2>1, InMemory
<1>5. /\ Len(written[f]) \in Nat /\ Len(latest[f]) \in Nat /\ Len(w) \in Nat
      /\ Len(written[f]) <= Len(latest[f])
  BY <1>2, <1>3 DEF Later
<1>6. Len(w) <= Len(latest[f])
  <2>1. CASE Len(w) = Len(written[f])
    BY <1>5, <2>1
  <2>2. CASE Len(w) \in Going(f, k)
    <3>1. Len(w) \in 1..Len(latest[f])
      BY <1>4, <2>2, Zenon
    <3>2. QED
      BY <1>5, <3>1
  <2>3. QED
    BY <1>1, <2>1, <2>2
<1>7. ASSUME NEW n \in 1..Len(w) PROVE w[n] <= latest[f][n]
  <2>1. n \in 1..Len(latest[f]) /\ latest[f][n] \in Nat
    <3>1. n \in 1..Len(latest[f])
      BY <1>5, <1>6
    <3>2. QED
      BY <1>2, <3>1
  <2>2. CASE n \in Going(f, k)
    <3>1. w[n] = latest[f][n]
      BY <1>1a, <1>4, <2>2
    <3>2. QED
      BY <2>1, <3>1
  <2>3. CASE n \notin Going(f, k) /\ n <= Len(written[f])
    <3>1. n \in 1..Len(written[f]) /\ w[n] = written[f][n]
      <4>1. w[n] = written[f][n]
        BY <1>1a, <2>3
      <4>2. QED
        BY <1>5, <2>3, <4>1
    <3>2. QED
      BY <1>3, <3>1 DEF Later
  <2>4. CASE n \notin Going(f, k) /\ ~(n <= Len(written[f]))
    <3>1. w[n] = 0
      BY <1>1a, <2>4
    <3>2. QED
      BY <2>1, <3>1
  <2>5. QED
    BY <2>2, <2>3, <2>4
<1>8. ASSUME NEW n \in 1..Len(written[f]) PROVE written[f][n] <= w[n]
  <2>1. n \in 1..Len(w) /\ n <= Len(written[f]) /\ written[f][n] \in Nat
    <3>1. written[f][n] \in Nat
      BY <1>2, InFile
    <3>2. QED
      BY <1>1, <1>5, <3>1
  <2>2. CASE n \in Going(f, k)
    <3>1. w[n] = latest[f][n]
      BY <1>1a, <1>4, <2>1, <2>2
    <3>2. QED
      BY <1>3, <3>1 DEF Later
  <2>3. CASE n \notin Going(f, k)
    <3>1. w[n] = written[f][n]
      BY <1>1a, <2>1, <2>3
    <3>2. QED
      BY <2>1, <3>1
  <2>4. QED
    BY <2>2, <2>3
<1>9. ASSUME NEW p \in 1..Len(latest[f]), <<f, p>> \notin dirty
      PROVE  p <= Len(w) /\ w[p] = latest[f][p]
  <2>1. p \notin Going(f, k)
    BY <1>4, <1>9
  <2>2. p <= Len(written[f]) /\ written[f][p] = latest[f][p]
    BY <1>3, <1>9
  <2>3. p \in 1..Len(w)
    BY <1>1, <1>5, <2>2
  <2>4. QED
    <3>1. w[p] = written[f][p]
      BY <1>1a, <2>1, <2>2, <2>3
    <3>2. QED
      BY <1>5, <2>2, <2>3, <3>1
<1>10. ASSUME k = FilePages[f] PROVE w = latest[f]
  <2>1. ASSUME NEW p \in 1..Len(latest[f]), <<f, p>> \in dirty
        PROVE  p \in Going(f, k)
    <3>1. <<f, p>> \in DOMAIN frames
      BY <2>1 DEF PoolInv, PoolTypeOK, FramesOK
    <3>2. <<f, p>> \in Page
      BY <3>1, InMemory
    <3>3. p \in 1..FilePages[f] /\ FilePages[f] \in Nat
      BY <3>2, PageIs, PoolAssumption
    <3>4. QED
      BY <1>10, <2>1, <3>3 DEF Going, DirtyOf
  <2>2. ASSUME NEW p \in 1..Len(latest[f]) PROVE p \in 1..Len(w) /\ w[p] = latest[f][p]
    <3>1. CASE <<f, p>> \in dirty
      BY <1>1, <1>1a, <1>4, <2>1, <3>1
    <3>2. CASE <<f, p>> \notin dirty
      BY <1>5, <1>9, <3>2
    <3>3. QED
      BY <3>1, <3>2
  <2>3. Len(latest[f]) <= Len(w)
    BY <1>5, <2>2
  <2>4. Len(latest[f]) = Len(w)
    BY <1>5, <1>6, <2>3
  <2>5. Later(w, latest[f])
    <3>1. \A p \in 1..Len(latest[f]) : latest[f][p] \in Nat
      BY <1>2, InFile
    <3>2. QED
      BY <1>5, <2>2, <2>4, <3>1 DEF Later
  <2>6. Later(latest[f], w)
    BY <1>6, <1>7 DEF Later
  <2>7. QED
    BY <1>2, <2>5, <2>6, LaterIsAnOrder
<1>11. Later(latest[f], w) /\ Later(w, written[f])
  BY <1>1, <1>6, <1>7, <1>8 DEF Later
<1>12. QED
  BY <1>1, <1>9, <1>10, <1>11

-----------------------------------------------------------------------------
(* Every step keeps the invariant.                                          *)

\* The fsyncs under way, when no file goes back and none begins.
LEMMA PromisesStay ==
  ASSUME PoolInv, PoolTypeOK', syncing' = syncing,
         \A f \in PoolFile : Later(written'[f], written[f])
  PROVE  Promises'
<1>1. ASSUME NEW s \in Flusher, NEW f \in syncing[s].file
      PROVE  Later(written'[f], syncing[s].upTo)
  <2>1. f \in PoolFile /\ syncing[s].upTo \in Seq(0..Versions)
    BY TypesAre DEF PoolInv
  <2>2. Seq(0..Versions) \subseteq Seq(Nat)
    BY PoolAssumption
  <2>3. written[f] \in Seq(Nat) /\ written'[f] \in Seq(Nat) /\ syncing[s].upTo \in Seq(Nat)
    BY <2>1, <2>2, TypesAre, TypesAreNext DEF PoolInv, FilesOK
  <2>4. Later(written'[f], written[f]) /\ Later(written[f], syncing[s].upTo)
    BY <2>1 DEF PoolInv, Promises
  <2>5. QED
    BY <2>3, <2>4, LaterIsTransitive
<1>2. QED
  BY <1>1 DEF Promises

\* What was promised of a file is kept, when the file does not go back.
LEMMA PromisedStays ==
  ASSUME PoolInv, PoolTypeOK', NEW f \in PoolFile, promised'[f] = promised[f],
         Later(written'[f], written[f])
  PROVE  Later(written'[f], promised'[f])
<1>1. Seq(0..Versions) \subseteq Seq(Nat)
  BY PoolAssumption
<1>2. written[f] \in Seq(Nat) /\ written'[f] \in Seq(Nat) /\ promised[f] \in Seq(Nat)
  BY <1>1, TypesAre, TypesAreNext DEF PoolInv, FilesOK
<1>3. Later(written[f], promised[f])
  BY DEF PoolInv, Kept
<1>4. QED
  BY <1>2, <1>3, LaterIsTransitive

\* A page is placed, with the last content given to write.
LEMMA PlaceInv ==
  ASSUME PoolInv, ~DiskFails, PoolTypeOK', NEW x \in Page, NEW v \in 0..Versions,
         NEW marked, marked \subseteq DOMAIN frames \cup {x}, PlacePage(x, v, marked),
         device' = device, promised' = promised, syncing' = syncing,
         x[2] \in 1..Len(latest'[x[1]]), v = latest'[x[1]][x[2]],
         \A y \in DOMAIN frames : y # x =>
           y[2] \in 1..Len(latest'[y[1]]) /\ frames[y] = latest'[y[1]][y[2]],
         \A f \in PoolFile : \A p \in 1..Len(latest'[f]) :
           <<f, p>> \notin marked => p <= Len(written[f]) /\ written[f][p] = latest'[f][p],
         \A f \in PoolFile :
           /\ Later(latest'[f], written[f])
           /\ pageCount[f] <= pageCount'[f]
           /\ IF pageCount'[f] = Closed THEN latest'[f] = written[f]
              ELSE Len(latest'[f]) = pageCount'[f],
         x[2] <= pageCount'[x[1]]
  PROVE  PoolInv'
<1>1. PoolTypeOK /\ PlacesLatest(x, v, marked)
  <2>1. latest' \in [PoolFile -> Seq(0..Versions)]
    BY TypesAreNext
  <2>2. \A y \in DOMAIN frames \cup {x} :
          y[2] \in 1..Len(latest'[y[1]]) /\ Placed(x, v, y) = latest'[y[1]][y[2]]
    BY DEF Placed
  <2>3. QED
    BY <2>1, <2>2 DEF PoolInv, PlacesLatest
<1>2. /\ DOMAIN frames' \subseteq DOMAIN frames \cup {x}
      /\ \A f \in PoolFile :
           /\ Later(latest'[f], written'[f]) /\ Later(written'[f], written[f])
           /\ \A p \in 1..Len(latest'[f]) :
                /\ <<f, p>> \in DOMAIN frames' => frames'[<<f, p>>] = latest'[f][p]
                /\ <<f, p>> \notin dirty' =>
                     p <= Len(written'[f]) /\ written'[f][p] = latest'[f][p]
  BY <1>1, PlaceKeeps
<1>3. Promises'
  BY <1>2, PromisesStay
<1>4. Loaded'
  <2>1. ASSUME NEW y \in DOMAIN frames PROVE y[2] <= pageCount'[y[1]]
    <3>1. y[1] \in PoolFile /\ y[2] \in Nat /\ y[2] <= pageCount[y[1]]
      BY InMemory
    <3>2. pageCount[y[1]] \in Int /\ pageCount'[y[1]] \in Int
      BY <3>1, TypesAre, TypesAreNext DEF PoolInv, Closed
    <3>3. QED
      BY <3>1, <3>2
  <2>2. QED
    BY <1>2, <2>1 DEF Loaded
<1>5. ASSUME NEW f \in PoolFile PROVE Kept(f)'
  <2>1. Later(written'[f], promised'[f])
    BY <1>2, PromisedStays
  <2>2. Later(device'[f], promised'[f])
    BY DEF PoolInv, Kept
  <2>3. IF pageCount'[f] = Closed THEN latest'[f] = written'[f]
        ELSE Len(latest'[f]) = pageCount'[f]
    <3>1. CASE pageCount'[f] = Closed
      <4>1. latest'[f] = written[f]
        BY <3>1
      <4>2. latest'[f] \in Seq(Nat) /\ written'[f] \in Seq(Nat)
        <5>1. Seq(0..Versions) \subseteq Seq(Nat)
          BY PoolAssumption
        <5>2. QED
          BY <5>1, TypesAreNext DEF FilesOK
      <4>3. Later(latest'[f], written'[f]) /\ Later(written'[f], latest'[f])
        BY <1>2, <4>1
      <4>4. QED
        BY <3>1, <4>2, <4>3, LaterIsAnOrder
    <3>2. QED
      BY <3>1
  <2>4. QED
    BY <1>2, <2>1, <2>2, <2>3 DEF Kept
<1>6. QED
  BY <1>3, <1>4, <1>5 DEF PoolInv

LEMMA ReadKeeps ==
  ASSUME PoolInv, ~DiskFails, NEW f \in PoolFile, NEW p \in 1..FilePages[f], Read(f, p)
  PROVE  PoolInv'
<1>0. PoolTypeOK /\ FilePages[f] \in Nat /\ p \in Nat /\ p >= 1
  BY PoolAssumption DEF PoolInv
<1>1. /\ p <= pageCount[f] /\ pageCount' = pageCount /\ device' = device
      /\ syncing' = syncing /\ latest' = latest /\ promised' = promised
      /\ PlacePage(<<f, p>>, Shown(f, p), dirty)
  BY DEF Read
<1>2. PoolTypeOK'
  BY <1>0, ReadTypes
<1>3. p \in 1..Len(latest[f]) /\ Shown(f, p) = latest[f][p] /\ <<f, p>> \in Page
  BY <1>0, <1>1, ShownIsLatest, PageIs
<1>4. latest[f][p] \in 0..Versions
  BY <1>0, <1>3, FilesAre, InFile
<1>5. dirty \subseteq DOMAIN frames \cup {<<f, p>>}
  BY <1>0 DEF PoolTypeOK, FramesOK
<1>6. \A y \in DOMAIN frames : y[2] \in 1..Len(latest[y[1]]) /\ frames[y] = latest[y[1]][y[2]]
  BY InMemory
<1>7. \A g \in PoolFile : Kept(g) /\ pageCount[g] \in Nat \cup {Closed}
  BY <1>0 DEF PoolInv, PoolTypeOK
<1>8. \A g \in PoolFile : pageCount[g] <= pageCount[g]
  BY <1>7 DEF Closed
<1>9. \A g \in PoolFile :
        /\ Later(latest[g], written[g])
        /\ IF pageCount[g] = Closed THEN latest[g] = written[g] ELSE Len(latest[g]) = pageCount[g]
        /\ \A n \in 1..Len(latest[g]) :
             <<g, n>> \notin dirty => n <= Len(written[g]) /\ written[g][n] = latest[g][n]
  BY <1>7 DEF Kept
<1>10. QED
  BY <1>1, <1>2, <1>3, <1>4, <1>5, <1>6, <1>8, <1>9, PlaceInv

LEMMA WriteKeeps ==
  ASSUME PoolInv, ~DiskFails, NEW f \in PoolFile, NEW p \in 1..FilePages[f], Write(f, p)
  PROVE  PoolInv'
<1> DEFINE x == <<f, p>>
           v == latest[f][p] + 1
           marked == dirty \cup {x}
<1>0. PoolTypeOK /\ FilePages[f] \in Nat /\ p \in Nat /\ p >= 1
  BY PoolAssumption DEF PoolInv
<1>1. /\ p <= pageCount[f] /\ pageCount' = pageCount /\ device' = device
      /\ syncing' = syncing /\ promised' = promised /\ v <= Versions
      /\ latest' = [latest EXCEPT ![f][p] = v]
      /\ PlacePage(x, v, marked)
  BY DEF Write
<1>2. /\ p \in 1..Len(latest[f]) /\ pageCount[f] # Closed /\ Len(latest[f]) = pageCount[f]
      /\ x \in Page /\ x[1] = f /\ x[2] = p
  BY <1>0, <1>1, ShownIsLatest, PageIs
<1>3. PoolTypeOK'
  BY <1>0, <1>2, WriteTypes
<1>4. latest[f][p] \in Nat /\ v \in 0..Versions
  <2>1. latest[f][p] \in Nat /\ Versions \in Nat
    BY <1>0, <1>2, FilesAre, InFile, PoolAssumption
  <2>2. QED
    BY <1>1, <2>1
<1>5. marked \subseteq DOMAIN frames \cup {x} /\ dirty \subseteq marked
  BY <1>0 DEF PoolTypeOK, FramesOK
<1> HIDE DEF x, v, marked
<1>6. /\ \A g \in PoolFile \ {f} : latest'[g] = latest[g]
      /\ Len(latest'[f]) = Len(latest[f]) /\ latest'[f][p] = v
      /\ \A n \in 1..Len(latest[f]) : n # p => latest'[f][n] = latest[f][n]
  <2>1. latest \in [PoolFile -> Seq(0..Versions)] /\ latest[f] \in Seq(0..Versions)
    BY <1>0, TypesAre
  <2>2. latest' = [latest EXCEPT ![f] = [latest[f] EXCEPT ![p] = v]]
    BY <1>1
  <2>3. latest'[f] = [latest[f] EXCEPT ![p] = v] /\ \A g \in PoolFile \ {f} : latest'[g] = latest[g]
    BY <2>1, <2>2
  <2>4. QED
    BY <1>2, <2>1, <2>3
<1>7. ASSUME NEW y \in DOMAIN frames, y # x
      PROVE  y[2] \in 1..Len(latest'[y[1]]) /\ frames[y] = latest'[y[1]][y[2]]
  <2>1. /\ y = <<y[1], y[2]>> /\ y[1] \in PoolFile
        /\ y[2] \in 1..Len(latest[y[1]]) /\ frames[y] = latest[y[1]][y[2]]
    BY InMemory
  <2>2. y[1] # f \/ y[2] # p
    BY <1>7, <2>1 DEF x
  <2>3. CASE y[1] # f
    BY <1>6, <2>1, <2>3
  <2>4. CASE y[1] = f /\ y[2] # p
    BY <1>6, <2>1, <2>4
  <2>5. QED
    BY <2>2, <2>3, <2>4
<1>8. ASSUME NEW g \in PoolFile
      PROVE  /\ pageCount[g] \in Int /\ pageCount[g] <= pageCount[g]
             /\ Later(latest[g], written[g])
             /\ pageCount[g] = Closed => latest[g] = written[g]
             /\ pageCount[g] # Closed => Len(latest[g]) = pageCount[g]
             /\ \A n \in 1..Len(latest[g]) :
                  <<g, n>> \notin dirty => n <= Len(written[g]) /\ written[g][n] = latest[g][n]
  BY <1>0 DEF PoolInv, PoolTypeOK, Kept, Closed
<1>9. \A g \in PoolFile : \A n \in 1..Len(latest'[g]) :
        <<g, n>> \notin marked => n <= Len(written[g]) /\ written[g][n] = latest'[g][n]
  <2>1. ASSUME NEW g \in PoolFile, NEW n \in 1..Len(latest'[g]), <<g, n>> \notin marked
        PROVE  n <= Len(written[g]) /\ written[g][n] = latest'[g][n]
    <3>1. <<g, n>> \notin dirty /\ (g # f \/ n # p)
      BY <2>1 DEF marked, x
    <3>2. n \in 1..Len(latest[g]) /\ latest'[g][n] = latest[g][n]
      BY <1>6, <3>1
    <3>3. QED
      BY <1>8, <3>1, <3>2
  <2>2. QED
    BY <2>1
<1>10. Later(latest'[f], written[f])
  <2>1. \A n \in 1..Len(written[f]) : n \in 1..Len(latest[f]) /\ written[f][n] <= latest[f][n]
    <3>1. Len(latest[f]) \in Nat /\ Len(written[f]) \in Nat
      BY <1>0, FilesAre
    <3>2. QED
      BY <1>8, <3>1 DEF Later
  <2>2. ASSUME NEW n \in 1..Len(written[f]) PROVE written[f][n] <= latest'[f][n]
    <3>1. written[f][n] \in Nat
      BY <1>0, FilesAre, InFile
    <3>2. CASE n = p
      <4>1. written[f][p] <= latest[f][p] /\ latest'[f][p] = latest[f][p] + 1
        BY <1>6, <2>1, <3>2 DEF v
      <4>2. QED
        BY <1>4, <3>1, <3>2, <4>1
    <3>3. CASE n # p
      BY <1>6, <2>1, <3>3
    <3>4. QED
      BY <3>2, <3>3
  <2>3. QED
    BY <1>6, <1>8, <2>2 DEF Later
<1>11. ASSUME NEW g \in PoolFile
       PROVE  /\ Later(latest'[g], written[g])
              /\ pageCount[g] <= pageCount'[g]
              /\ IF pageCount'[g] = Closed THEN latest'[g] = written[g]
                 ELSE Len(latest'[g]) = pageCount'[g]
  <2>1. CASE g = f
    BY <1>1, <1>2, <1>6, <1>8, <1>10, <2>1
  <2>2. CASE g # f
    BY <1>1, <1>6, <1>8, <2>2
  <2>3. QED
    BY <2>1, <2>2
<1>12. x[2] \in 1..Len(latest'[x[1]]) /\ v = latest'[x[1]][x[2]] /\ x[2] <= pageCount'[x[1]]
  BY <1>1, <1>2, <1>6
<1>13. QED
  BY <1>1, <1>2, <1>3, <1>4, <1>5, <1>7, <1>9, <1>11, <1>12, PlaceInv

LEMMA AllocateKeeps ==
  ASSUME PoolInv, ~DiskFails, NEW f \in PoolFile, Allocate(f)
  PROVE  PoolInv'
<1> DEFINE p == pageCount[f] + 1
           x == <<f, p>>
           marked == dirty \cup {x}
<1>0. PoolTypeOK /\ FilePages[f] \in Nat /\ 0 \in 0..Versions
  BY PoolAssumption DEF PoolInv
<1>1. /\ p <= FilePages[f] /\ pageCount' = [pageCount EXCEPT ![f] = p] /\ device' = device
      /\ syncing' = syncing /\ promised' = promised /\ pageCount[f] # Closed
      /\ latest' = [latest EXCEPT ![f] = Append(@, 0)]
      /\ PlacePage(x, 0, marked)
  BY DEF Allocate
<1>2. /\ p \in Nat /\ p >= 1 /\ pageCount[f] \in Nat /\ Len(latest[f]) = pageCount[f]
      /\ x \in Page /\ x[1] = f /\ x[2] = p
  <2>1. pageCount[f] \in Nat
    BY <1>0, <1>1 DEF PoolTypeOK
  <2>2. p \in 1..FilePages[f]
    BY <1>0, <1>1, <2>1
  <2>3. QED
    BY <1>1, <2>1, <2>2, PageIs DEF PoolInv, Kept
<1>3. PoolTypeOK'
  BY <1>0, AllocateTypes
<1>4. marked \subseteq DOMAIN frames \cup {x} /\ dirty \subseteq marked
  BY <1>0 DEF PoolTypeOK, FramesOK
<1>5. pageCount'[f] = p /\ pageCount[f] <= p /\ \A g \in PoolFile \ {f} : pageCount'[g] = pageCount[g]
  BY <1>0, <1>1, <1>2 DEF PoolTypeOK
<1>6. /\ \A g \in PoolFile \ {f} : latest'[g] = latest[g]
      /\ Len(latest'[f]) = p /\ latest'[f][p] = 0
      /\ \A n \in 1..Len(latest[f]) : latest'[f][n] = latest[f][n]
      /\ \A n \in 1..p : n # p => n \in 1..Len(latest[f])
  <2>1. latest \in [PoolFile -> Seq(0..Versions)] /\ latest[f] \in Seq(0..Versions)
    BY <1>0, TypesAre
  <2>2. latest'[f] = Append(latest[f], 0) /\ \A g \in PoolFile \ {f} : latest'[g] = latest[g]
    BY <1>1, <2>1
  <2>3. QED
    BY <1>2, <2>1, <2>2
<1> HIDE DEF x, p, marked
<1>7. ASSUME NEW y \in DOMAIN frames
      PROVE  y[2] \in 1..Len(latest'[y[1]]) /\ frames[y] = latest'[y[1]][y[2]]
  <2>1. /\ y = <<y[1], y[2]>> /\ y[1] \in PoolFile
        /\ y[2] \in 1..Len(latest[y[1]]) /\ frames[y] = latest[y[1]][y[2]]
    BY InMemory
  <2>2. CASE y[1] # f
    BY <1>6, <2>1, <2>2
  <2>3. CASE y[1] = f
    BY <1>2, <1>5, <1>6, <2>1, <2>3
  <2>4. QED
    BY <2>2, <2>3
<1>8. ASSUME NEW g \in PoolFile
      PROVE  /\ pageCount[g] \in Int /\ pageCount[g] <= pageCount[g]
             /\ Later(latest[g], written[g])
             /\ pageCount[g] = Closed => latest[g] = written[g]
             /\ pageCount[g] # Closed => Len(latest[g]) = pageCount[g]
             /\ \A n \in 1..Len(latest[g]) :
                  <<g, n>> \notin dirty => n <= Len(written[g]) /\ written[g][n] = latest[g][n]
  BY <1>0 DEF PoolInv, PoolTypeOK, Kept, Closed
<1>9. \A g \in PoolFile : \A n \in 1..Len(latest'[g]) :
        <<g, n>> \notin marked => n <= Len(written[g]) /\ written[g][n] = latest'[g][n]
  <2>1. ASSUME NEW g \in PoolFile, NEW n \in 1..Len(latest'[g]), <<g, n>> \notin marked
        PROVE  n <= Len(written[g]) /\ written[g][n] = latest'[g][n]
    <3>1. <<g, n>> \notin dirty /\ (g # f \/ n # p)
      BY <2>1 DEF marked, x
    <3>2. n \in 1..Len(latest[g]) /\ latest'[g][n] = latest[g][n]
      BY <1>6, <3>1
    <3>3. QED
      BY <1>8, <3>1, <3>2
  <2>2. QED
    BY <2>1
<1>10. Later(latest'[f], written[f])
  <2>1. Len(latest[f]) \in Nat /\ Len(written[f]) \in Nat
    BY <1>0, FilesAre
  <2>2. Len(written[f]) <= Len(latest'[f])
    BY <1>2, <1>5, <1>6, <1>8, <2>1 DEF Later
  <2>3. \A n \in 1..Len(written[f]) : n \in 1..Len(latest[f]) /\ written[f][n] <= latest[f][n]
    BY <1>8, <2>1 DEF Later
  <2>4. QED
    BY <1>6, <2>2, <2>3 DEF Later
<1>11. ASSUME NEW g \in PoolFile
       PROVE  /\ Later(latest'[g], written[g])
              /\ pageCount[g] <= pageCount'[g]
              /\ IF pageCount'[g] = Closed THEN latest'[g] = written[g]
                 ELSE Len(latest'[g]) = pageCount'[g]
  <2>1. CASE g = f
    BY <1>2, <1>5, <1>6, <1>8, <1>10, <2>1 DEF Closed
  <2>2. CASE g # f
    BY <1>5, <1>6, <1>8, <2>2
  <2>3. QED
    BY <2>1, <2>2
<1>12. x[2] \in 1..Len(latest'[x[1]]) /\ 0 = latest'[x[1]][x[2]] /\ x[2] <= pageCount'[x[1]]
  BY <1>2, <1>5, <1>6
<1>13. QED
  BY <1>0, <1>1, <1>2, <1>3, <1>4, <1>7, <1>9, <1>11, <1>12, PlaceInv

\* A flush, whole or in part, leaves w in the file.
LEMMA FlushedKeeps ==
  ASSUME PoolInv, NEW f \in PoolFile, NEW k \in Nat, NEW w, w = WithDirty(f, k),
         pageCount[f] # Closed, frames' = frames, older' = older, pageCount' = pageCount,
         latest' = latest, promised' = promised, device' = device,
         written' = [written EXCEPT ![f] = w], PoolTypeOK',
         dirty' = dirty \/ (dirty' = Cleaned(f) /\ k = FilePages[f])
  PROVE  /\ \A g \in PoolFile : Kept(g)' /\ Later(written'[g], written[g])
         /\ Loaded'
<1>1. /\ w \in Seq(0..Versions) /\ Len(w) <= FilePages[f]
      /\ Later(latest[f], w) /\ Later(w, written[f])
      /\ \A p \in 1..Len(latest[f]) :
           <<f, p>> \notin dirty => p <= Len(w) /\ w[p] = latest[f][p]
      /\ k = FilePages[f] => w = latest[f]
  BY FlushWrites
<1>2. written'[f] = w /\ \A g \in PoolFile \ {f} : written'[g] = written[g]
  BY TypesAre DEF PoolInv, FilesOK
<1>3. \A g \in PoolFile : Kept(g) /\ Later(written[g], written[g])
  <2>1. \A g \in PoolFile : written[g] \in Seq(Nat)
    BY FilesAre DEF PoolInv
  <2>2. QED
    BY <2>1, LaterIsAnOrder DEF PoolInv
<1>4. \A g \in PoolFile : Later(written'[g], written[g])
  BY <1>1, <1>2, <1>3
<1>5. \A g \in PoolFile : Later(written'[g], promised'[g])
  BY <1>4, PromisedStays
<1>6. ASSUME NEW p \in 1..Len(latest[f]), <<f, p>> \notin dirty'
      PROVE  p <= Len(w) /\ w[p] = latest[f][p]
  <2>1. CASE <<f, p>> \notin dirty
    BY <1>1, <2>1
  <2>2. CASE <<f, p>> \in dirty
    <3>1. w = latest[f]
      BY <1>1, <1>6, <2>2
    <3>2. Len(latest[f]) \in Nat
      BY FilesAre DEF PoolInv
    <3>3. QED
      BY <3>1, <3>2
  <2>3. QED
    BY <2>1, <2>2
<1>7. Kept(f)'
  BY <1>1, <1>2, <1>3, <1>5, <1>6 DEF Kept
<1>8. ASSUME NEW g \in PoolFile, g # f PROVE Kept(g)'
  <2>1. \A p : <<g, p>> \notin dirty' => <<g, p>> \notin dirty
    BY <1>8 DEF Cleaned
  <2>2. QED
    BY <1>2, <1>3, <1>5, <1>8, <2>1 DEF Kept
<1>9. Loaded'
  BY DEF PoolInv, Loaded
<1>10. QED
  BY <1>4, <1>7, <1>8, <1>9

LEMMA StartFlushKeeps ==
  ASSUME PoolInv, NEW s \in Flusher, NEW f \in PoolFile, StartFlush(s, f)
  PROVE  PoolInv'
<1> DEFINE w == WithDirty(f, FilePages[f])
<1>0. PoolTypeOK /\ FilePages[f] \in Nat
  BY PoolAssumption DEF PoolInv
<1>1. w = latest[f] /\ w \in Seq(0..Versions) /\ Len(w) <= FilePages[f]
  BY <1>0, FlushWrites
<1>2. /\ pageCount[f] # Closed /\ written' = [written EXCEPT ![f] = w] /\ dirty' = Cleaned(f)
      /\ syncing' = [syncing EXCEPT ![s] = [file |-> {f}, upTo |-> latest[f]]]
      /\ frames' = frames /\ older' = older /\ pageCount' = pageCount
      /\ latest' = latest /\ promised' = promised /\ device' = device
  BY DEF StartFlush
<1>2a. w = WithDirty(f, FilePages[f])
  OBVIOUS
<1> HIDE DEF w
<1>3. PoolTypeOK'
  <2>1. FramesOK'
    BY <1>0, <1>2, FramesStay DEF PoolTypeOK, Cleaned
  <2>2. FilesOK(written')
    BY <1>0, <1>1, <1>2, FileIsReplaced, TypesAre
  <2>3. syncing' \in [Flusher -> [file : SUBSET PoolFile, upTo : Seq(0..Versions)]]
    BY <1>0, <1>2, TypesAre
  <2>4. QED
    BY <1>0, <1>2, <2>1, <2>2, <2>3, TypesAre, TypesAreNext
<1>4. (\A g \in PoolFile : Kept(g)' /\ Later(written'[g], written[g])) /\ Loaded'
  BY <1>0, <1>2, <1>2a, <1>3, FlushedKeeps
<1>5. ASSUME NEW t \in Flusher, NEW g \in syncing'[t].file
      PROVE  Later(written'[g], syncing'[t].upTo)
  <2>1. CASE t = s
    <3>1. g = f /\ syncing'[t].upTo = latest[f] /\ written'[f] = latest[f]
      BY <1>0, <1>1, <1>2, <1>5, <2>1, TypesAre DEF FilesOK
    <3>2. Later(latest[f], latest[f])
      BY <1>0, FilesAre, LaterIsAnOrder
    <3>3. QED
      BY <3>1, <3>2
  <2>2. CASE t # s
    <3>1. syncing'[t] = syncing[t]
      BY <1>0, <1>2, <2>2, TypesAre
    <3>2. g \in PoolFile /\ syncing[t].upTo \in Seq(0..Versions)
      BY <1>0, <3>1, TypesAre
    <3>3. Seq(0..Versions) \subseteq Seq(Nat)
      BY PoolAssumption
    <3>4. written[g] \in Seq(Nat) /\ written'[g] \in Seq(Nat) /\ syncing[t].upTo \in Seq(Nat)
      BY <1>0, <1>3, <3>2, <3>3, TypesAre, TypesAreNext DEF FilesOK
    <3>5. Later(written[g], syncing[t].upTo) /\ Later(written'[g], written[g])
      BY <1>4, <3>1, <3>2 DEF PoolInv, Promises
    <3>6. QED
      BY <3>1, <3>4, <3>5, LaterIsTransitive
  <2>3. QED
    BY <2>1, <2>2
<1>6. QED
  BY <1>3, <1>4, <1>5 DEF PoolInv, Promises

LEMMA FlushFailsKeeps ==
  ASSUME PoolInv, NEW f \in PoolFile, FlushFails(f)
  PROVE  PoolInv'
<1>0. PoolTypeOK /\ FilePages[f] \in Nat
  BY PoolAssumption DEF PoolInv
<1>1. PICK k \in 0..FilePages[f] : written' = [written EXCEPT ![f] = WithDirty(f, k)]
  BY DEF FlushFails
<1> DEFINE w == WithDirty(f, k)
<1>2. k \in Nat /\ w = WithDirty(f, k) /\ written' = [written EXCEPT ![f] = w]
  BY <1>0, <1>1
<1> HIDE DEF w
<1>3. w \in Seq(0..Versions) /\ Len(w) <= FilePages[f]
  BY <1>2, FlushWrites
<1>4. /\ pageCount[f] # Closed /\ dirty' = dirty /\ syncing' = syncing
      /\ frames' = frames /\ older' = older /\ pageCount' = pageCount
      /\ latest' = latest /\ promised' = promised /\ device' = device
  BY DEF FlushFails
<1>5. PoolTypeOK'
  <2>1. FramesOK'
    BY <1>0, <1>4, FramesStay DEF PoolTypeOK
  <2>2. FilesOK(written')
    BY <1>0, <1>2, <1>3, FileIsReplaced, TypesAre
  <2>3. QED
    BY <1>0, <1>4, <2>1, <2>2, TypesAre, TypesAreNext
<1>6. (\A g \in PoolFile : Kept(g)' /\ Later(written'[g], written[g])) /\ Loaded'
  BY <1>2, <1>4, <1>5, FlushedKeeps
<1>7. Promises'
  BY <1>4, <1>5, <1>6, PromisesStay
<1>8. QED
  BY <1>5, <1>6, <1>7 DEF PoolInv

LEMMA EndFlushKeeps ==
  ASSUME PoolInv, NEW s \in Flusher, EndFlush(s)
  PROVE  PoolInv'
<1>0. PoolTypeOK
  BY DEF PoolInv
<1>1. PICK f \in syncing[s].file :
        /\ device' = [device EXCEPT ![f] = written[f]]
        /\ promised' = [promised EXCEPT ![f] = syncing[s].upTo]
        /\ syncing' = [syncing EXCEPT ![s] = NotSyncing]
        /\ frames' = frames /\ older' = older /\ dirty' = dirty /\ pageCount' = pageCount
        /\ written' = written /\ latest' = latest
  BY DEF EndFlush
<1>2. f \in PoolFile /\ syncing[s].upTo \in Seq(0..Versions)
  BY <1>0, TypesAre
<1>3. /\ device'[f] = written[f] /\ promised'[f] = syncing[s].upTo
      /\ \A g \in PoolFile \ {f} : device'[g] = device[g] /\ promised'[g] = promised[g]
  BY <1>0, <1>1, <1>2, TypesAre DEF FilesOK
<1>4. PoolTypeOK'
  <2>1. FramesOK'
    BY <1>0, <1>1, FramesStay DEF PoolTypeOK
  <2>2. FilesOK(device')
    <3>1. written[f] \in Seq(0..Versions) /\ Len(written[f]) <= FilePages[f] /\ FilesOK(device)
      BY <1>0, <1>2, TypesAre DEF FilesOK
    <3>2. QED
      BY <1>1, <1>2, <3>1, FileIsReplaced
  <2>3. NotSyncing \in [file : SUBSET PoolFile, upTo : Seq(0..Versions)]
    BY DEF NotSyncing
  <2>4. syncing' \in [Flusher -> [file : SUBSET PoolFile, upTo : Seq(0..Versions)]]
    BY <1>0, <1>1, <2>3, TypesAre
  <2>5. promised' \in [PoolFile -> Seq(0..Versions)]
    BY <1>0, <1>1, <1>2, TypesAre
  <2>6. QED
    BY <1>0, <1>1, <2>1, <2>2, <2>4, <2>5, TypesAre, TypesAreNext
<1>5. ASSUME NEW g \in PoolFile PROVE Kept(g)'
  <2>1. Kept(g)
    BY DEF PoolInv
  <2>2. CASE g = f
    <3>1. Later(written[f], syncing[s].upTo)
      BY DEF PoolInv, Promises
    <3>2. QED
      BY <1>1, <1>3, <2>1, <2>2, <3>1 DEF Kept
  <2>3. CASE g # f
    BY <1>1, <1>3, <2>1, <2>3 DEF Kept
  <2>4. QED
    BY <2>2, <2>3
<1>6. Loaded'
  BY <1>1 DEF PoolInv, Loaded
<1>7. ASSUME NEW t \in Flusher, NEW g \in syncing'[t].file
      PROVE  Later(written'[g], syncing'[t].upTo)
  <2>1. t # s /\ syncing'[t] = syncing[t]
    BY <1>0, <1>1, <1>7, TypesAre DEF NotSyncing
  <2>2. QED
    BY <1>1, <1>7, <2>1 DEF PoolInv, Promises
<1>8. QED
  BY <1>4, <1>5, <1>6, <1>7 DEF PoolInv, Promises

\* An fsync that raises only stops being waited for.
LEMMA SyncFailsKeeps ==
  ASSUME PoolInv, NEW s \in Flusher, SyncFails(s)
  PROVE  PoolInv'
<1>0. PoolTypeOK
  BY DEF PoolInv
<1>1. /\ syncing' = [syncing EXCEPT ![s] = NotSyncing]
      /\ UNCHANGED <<frames, older, dirty, pageCount, written, device, latest, promised>>
  BY DEF SyncFails
<1>2. PoolTypeOK'
  <2>1. FramesOK'
    BY <1>0, <1>1, FramesStay DEF PoolTypeOK
  <2>2. NotSyncing \in [file : SUBSET PoolFile, upTo : Seq(0..Versions)]
    BY DEF NotSyncing
  <2>3. syncing' \in [Flusher -> [file : SUBSET PoolFile, upTo : Seq(0..Versions)]]
    BY <1>0, <1>1, <2>2, TypesAre
  <2>4. QED
    BY <1>0, <1>1, <2>1, <2>3, TypesAre, TypesAreNext
<1>3. ASSUME NEW g \in PoolFile PROVE Kept(g)'
  <2>1. Kept(g)
    BY DEF PoolInv
  <2>2. QED
    BY <1>1, <2>1 DEF Kept
<1>4. Loaded'
  BY <1>1 DEF PoolInv, Loaded
<1>5. ASSUME NEW t \in Flusher, NEW g \in syncing'[t].file
      PROVE  Later(written'[g], syncing'[t].upTo)
  <2>1. t # s /\ syncing'[t] = syncing[t]
    BY <1>0, <1>1, <1>5, TypesAre DEF NotSyncing
  <2>2. QED
    BY <1>1, <1>5, <2>1 DEF PoolInv, Promises
<1>6. QED
  BY <1>2, <1>3, <1>4, <1>5 DEF PoolInv, Promises

\* What is left when the pages of a file leave memory.
LEMMA ForgetLeaves ==
  ASSUME PoolInv, NEW f \in PoolFile, Forget(f)
  PROVE  /\ FramesOK' /\ Loaded'
         /\ pageCount' \in [PoolFile -> Nat \cup {Closed}]
         /\ \A g \in PoolFile : pageCount'[g] <= FilePages[g]
         /\ pageCount'[f] = Closed /\ \A g \in PoolFile \ {f} : pageCount'[g] = pageCount[g]
         /\ \A p : <<f, p>> \notin DOMAIN frames'
         /\ \A g \in PoolFile \ {f} : \A p :
              /\ <<g, p>> \in DOMAIN frames' =>
                   <<g, p>> \in DOMAIN frames /\ frames'[<<g, p>>] = frames[<<g, p>>]
              /\ <<g, p>> \notin dirty' => <<g, p>> \notin dirty
<1>0. PoolTypeOK
  BY DEF PoolInv
<1>1. FramesOK'
  BY <1>0, ForgetTypes DEF PoolTypeOK
<1>2. /\ pageCount' \in [PoolFile -> Nat \cup {Closed}]
      /\ \A g \in PoolFile : pageCount'[g] <= FilePages[g]
      /\ pageCount'[f] = Closed /\ \A g \in PoolFile \ {f} : pageCount'[g] = pageCount[g]
  BY <1>0, TypesAre, PoolAssumption DEF Forget, Closed
<1>3. /\ DOMAIN frames' = {x \in DOMAIN frames : x[1] # f}
      /\ \A x \in DOMAIN frames' : frames'[x] = frames[x]
      /\ dirty' = {x \in dirty : x[1] # f}
  BY DEF Forget, Restrict
<1>4. ASSUME NEW x \in DOMAIN frames' PROVE x[2] <= pageCount'[x[1]]
  <2>1. x \in DOMAIN frames /\ x[1] # f
    BY <1>3
  <2>2. x[1] \in PoolFile /\ x[2] <= pageCount[x[1]]
    BY <2>1, InMemory
  <2>3. QED
    BY <1>2, <2>1, <2>2
<1>5. QED
  BY <1>1, <1>2, <1>3, <1>4 DEF Loaded

LEMMA CloseKeeps ==
  ASSUME PoolInv, NEW f \in PoolFile, Close(f)
  PROVE  PoolInv'
<1>0. PoolTypeOK /\ FilePages[f] \in Nat
  BY PoolAssumption DEF PoolInv
<1>1. WithDirty(f, FilePages[f]) = latest[f]
  BY <1>0, FlushWrites
<1>2. /\ written' = [written EXCEPT ![f] = latest[f]]
      /\ device' = [device EXCEPT ![f] = written'[f]]
      /\ promised' = [promised EXCEPT ![f] = latest[f]]
      /\ syncing' = syncing /\ latest' = latest /\ Forget(f)
  BY <1>1 DEF Close
<1>3. /\ written'[f] = latest[f] /\ device'[f] = latest[f] /\ promised'[f] = latest[f]
      /\ \A g \in PoolFile \ {f} :
           written'[g] = written[g] /\ device'[g] = device[g] /\ promised'[g] = promised[g]
  BY <1>0, <1>2, TypesAre DEF FilesOK
<1>4. PoolTypeOK'
  BY <1>0, CloseTypes
<1>5. \A g \in PoolFile : Kept(g) /\ Later(written[g], written[g]) /\ Later(latest[g], latest[g])
  <2>1. \A g \in PoolFile : written[g] \in Seq(Nat) /\ latest[g] \in Seq(Nat)
    BY <1>0, FilesAre
  <2>2. QED
    BY <2>1, LaterIsAnOrder DEF PoolInv
<1>6. \A g \in PoolFile : Later(written'[g], written[g])
  BY <1>3, <1>5 DEF Kept
<1>7. Promises'
  BY <1>2, <1>4, <1>6, PromisesStay
<1>8. Kept(f)'
  <2>1. Len(latest[f]) \in Nat
    BY <1>0, FilesAre
  <2>2. \A p : <<f, p>> \notin DOMAIN frames'
    BY <1>2, ForgetLeaves
  <2>3. pageCount'[f] = Closed
    BY <1>2, ForgetLeaves
  <2>4. \A p \in 1..Len(latest[f]) : p <= Len(latest[f])
    BY <2>1
  <2>5. QED
    BY <1>2, <1>3, <1>5, <2>2, <2>3, <2>4 DEF Kept
<1>9. ASSUME NEW g \in PoolFile, g # f PROVE Kept(g)'
  <2>1. pageCount'[g] = pageCount[g]
    BY <1>2, <1>9, ForgetLeaves
  <2>2. \A p : /\ <<g, p>> \in DOMAIN frames' =>
                    <<g, p>> \in DOMAIN frames /\ frames'[<<g, p>>] = frames[<<g, p>>]
               /\ <<g, p>> \notin dirty' => <<g, p>> \notin dirty
    BY <1>2, <1>9, ForgetLeaves
  <2>3. QED
    BY <1>2, <1>3, <1>5, <1>9, <2>1, <2>2 DEF Kept
<1>10. Loaded'
  BY <1>2, ForgetLeaves
<1>11. QED
  BY <1>4, <1>7, <1>8, <1>9, <1>10 DEF PoolInv

LEMMA DiscardKeeps ==
  ASSUME PoolInv, NEW f \in PoolFile, Discard(f)
  PROVE  PoolInv'
<1>0. PoolTypeOK
  BY DEF PoolInv
<1>1. /\ latest' = [latest EXCEPT ![f] = written[f]] /\ Forget(f)
      /\ written' = written /\ device' = device /\ syncing' = syncing /\ promised' = promised
  BY DEF Discard
<1>2. latest'[f] = written[f] /\ \A g \in PoolFile \ {f} : latest'[g] = latest[g]
  BY <1>0, <1>1, TypesAre
<1>3. PoolTypeOK'
  <2>1. latest' \in [PoolFile -> Seq(0..Versions)]
    BY <1>0, <1>1, TypesAre DEF FilesOK
  <2>2. /\ FramesOK' /\ pageCount' \in [PoolFile -> Nat \cup {Closed}]
        /\ \A g \in PoolFile : pageCount'[g] <= FilePages[g]
    BY <1>1, ForgetLeaves
  <2>3. QED
    BY <1>0, <1>1, <2>1, <2>2, TypesAre, TypesAreNext
<1>4. \A g \in PoolFile : Kept(g) /\ Later(written[g], written[g]) /\ Len(written[g]) \in Nat
  <2>1. \A g \in PoolFile : written[g] \in Seq(Nat)
    BY <1>0, FilesAre
  <2>2. QED
    BY <2>1, LaterIsAnOrder DEF PoolInv
<1>5. Promises'
  BY <1>1 DEF PoolInv, Promises
<1>6. Kept(f)'
  <2>1. \A p : <<f, p>> \notin DOMAIN frames'
    BY <1>1, ForgetLeaves
  <2>2. pageCount'[f] = Closed
    BY <1>1, ForgetLeaves
  <2>3. \A p \in 1..Len(written[f]) : p <= Len(written[f])
    BY <1>4
  <2>4. QED
    BY <1>1, <1>2, <1>4, <2>1, <2>2, <2>3 DEF Kept
<1>7. ASSUME NEW g \in PoolFile, g # f PROVE Kept(g)'
  <2>1. pageCount'[g] = pageCount[g]
    BY <1>1, <1>7, ForgetLeaves
  <2>2. \A p : /\ <<g, p>> \in DOMAIN frames' =>
                    <<g, p>> \in DOMAIN frames /\ frames'[<<g, p>>] = frames[<<g, p>>]
               /\ <<g, p>> \notin dirty' => <<g, p>> \notin dirty
    BY <1>1, <1>7, ForgetLeaves
  <2>3. QED
    BY <1>1, <1>2, <1>4, <1>7, <2>1, <2>2 DEF Kept
<1>8. Loaded'
  BY <1>1, ForgetLeaves
<1>9. QED
  BY <1>3, <1>5, <1>6, <1>7, <1>8 DEF PoolInv

LEMMA OpenKeeps ==
  ASSUME PoolInv, NEW f \in PoolFile, Open(f)
  PROVE  PoolInv'
<1>0. PoolTypeOK
  BY DEF PoolInv
<1>1. /\ pageCount[f] = Closed /\ pageCount' = [pageCount EXCEPT ![f] = Len(written[f])]
      /\ frames' = frames /\ older' = older /\ dirty' = dirty /\ written' = written
      /\ device' = device /\ syncing' = syncing /\ latest' = latest /\ promised' = promised
  BY DEF Open
<1>2. /\ pageCount'[f] = Len(written[f])
      /\ \A g \in PoolFile \ {f} : pageCount'[g] = pageCount[g]
  BY <1>0, <1>1, TypesAre
<1>3. Len(written[f]) \in Nat /\ Len(written[f]) <= FilePages[f]
  BY <1>0, TypesAre DEF FilesOK
<1>4. PoolTypeOK'
  <2>1. /\ pageCount' \in [PoolFile -> Nat \cup {Closed}]
        /\ \A g \in PoolFile : pageCount'[g] <= FilePages[g]
    BY <1>0, <1>1, <1>3, TypesAre
  <2>2. FramesOK'
    BY <1>0, <1>1, FramesStay DEF PoolTypeOK
  <2>3. QED
    BY <1>0, <1>1, <2>1, <2>2, TypesAre, TypesAreNext
<1>5. ASSUME NEW g \in PoolFile PROVE Kept(g)'
  <2>1. Kept(g)
    BY DEF PoolInv
  <2>2. CASE g = f
    <3>1. Len(latest[f]) = pageCount'[f] /\ pageCount'[f] # Closed
      BY <1>1, <1>2, <1>3, <2>1, <2>2 DEF Kept, Closed
    <3>2. QED
      BY <1>1, <2>1, <2>2, <3>1 DEF Kept
  <2>3. CASE g # f
    BY <1>1, <1>2, <2>1, <2>3 DEF Kept
  <2>4. QED
    BY <2>2, <2>3
<1>6. ASSUME NEW x \in DOMAIN frames PROVE x[2] <= pageCount'[x[1]]
  <2>1. x[1] \in PoolFile /\ x[2] <= pageCount[x[1]] /\ pageCount[x[1]] # Closed
    BY InMemory
  <2>2. QED
    BY <1>1, <1>2, <2>1
<1>7. QED
  BY <1>1, <1>4, <1>5, <1>6 DEF PoolInv, Loaded, Promises

LEMMA WriteBackKeeps ==
  ASSUME PoolInv, NEW f \in PoolFile, NEW p \in 1..FilePages[f], WriteBack(f, p)
  PROVE  PoolInv'
<1> DEFINE w == WriteThrough(device[f], p, written[f][p])
<1>0. PoolTypeOK /\ FilePages[f] \in Nat /\ p \in Nat \ {0}
  BY PoolAssumption DEF PoolInv
<1>1. /\ p <= Len(written[f]) /\ device' = [device EXCEPT ![f] = w]
      /\ frames' = frames /\ older' = older /\ dirty' = dirty /\ pageCount' = pageCount
      /\ written' = written /\ syncing' = syncing /\ latest' = latest /\ promised' = promised
  BY DEF WriteBack
<1>2. /\ device[f] \in Seq(0..Versions) /\ written[f] \in Seq(0..Versions)
      /\ promised[f] \in Seq(0..Versions)
      /\ Len(device[f]) \in Nat /\ Len(written[f]) \in Nat /\ Len(promised[f]) \in Nat
  BY <1>0, FilesAre
<1>3. p \in 1..Len(written[f]) /\ written[f][p] \in 0..Versions
  BY <1>0, <1>1, <1>2, InFile
<1>4. WrittenAt(w, device[f], p, written[f][p])
  BY <1>0, <1>2, <1>3, WriteThroughIs
<1> HIDE DEF w
<1>5. /\ w \in Seq(0..Versions) /\ Len(w) \in Nat
      /\ p <= Len(device[f]) => Len(w) = Len(device[f])
      /\ ~(p <= Len(device[f])) => Len(w) = p
  BY <1>4 DEF WrittenAt
<1>6. Len(w) <= FilePages[f] /\ Len(device[f]) <= Len(w)
  <2>1. Len(device[f]) <= FilePages[f]
    BY <1>0, TypesAre DEF FilesOK
  <2>2. QED
    BY <1>0, <1>2, <1>5, <2>1
<1>7. device'[f] = w /\ \A g \in PoolFile \ {f} : device'[g] = device[g]
  BY <1>0, <1>1, TypesAre DEF FilesOK
<1>8. PoolTypeOK'
  <2>1. FilesOK(device')
    BY <1>0, <1>1, <1>5, <1>6, FileIsReplaced, TypesAre
  <2>2. FramesOK'
    BY <1>0, <1>1, FramesStay DEF PoolTypeOK
  <2>3. QED
    BY <1>0, <1>1, <2>1, <2>2, TypesAre, TypesAreNext
<1>9. Later(device[f], promised[f]) /\ Later(written[f], promised[f])
  BY DEF PoolInv, Kept
<1>10. Later(w, promised[f])
  <2>1. Len(promised[f]) <= Len(device[f]) /\ Len(promised[f]) <= Len(w)
    BY <1>2, <1>5, <1>6, <1>9 DEF Later
  <2>2. ASSUME NEW n \in 1..Len(promised[f]) PROVE promised[f][n] <= w[n]
    <3>1. n \in 1..Len(w) /\ n <= Len(device[f])
      BY <1>2, <1>5, <2>1
    <3>2. CASE n = p
      <4>1. w[n] = written[f][n]
        BY <1>4, <3>1, <3>2 DEF WrittenAt
      <4>2. QED
        BY <1>9, <4>1 DEF Later
    <3>3. CASE n # p
      <4>1. w[n] = device[f][n]
        BY <1>4, <3>1, <3>3 DEF WrittenAt
      <4>2. QED
        BY <1>9, <4>1 DEF Later
    <3>4. QED
      BY <3>2, <3>3
  <2>3. QED
    BY <2>1, <2>2 DEF Later
<1>11. ASSUME NEW g \in PoolFile PROVE Kept(g)'
  <2>1. Later(device'[g], promised'[g])
    <3>1. Later(device[g], promised[g])
      BY DEF PoolInv, Kept
    <3>2. QED
      BY <1>1, <1>7, <1>10, <3>1
  <2>2. QED
    BY <1>1, <2>1 DEF PoolInv, Kept
<1>12. QED
  BY <1>1, <1>8, <1>11 DEF PoolInv, Loaded, Promises

LEMMA CrashKeeps ==
  ASSUME PoolInv, PoolCrash
  PROVE  PoolInv'
<1>0. PoolTypeOK
  BY DEF PoolInv
<1>1. /\ frames' = <<>> /\ older' = <<>> /\ dirty' = {}
      /\ pageCount' = [f \in PoolFile |-> Closed]
      /\ written' = device /\ latest' = device
      /\ syncing' = [s \in Flusher |-> NotSyncing]
      /\ device' = device /\ promised' = promised
  BY DEF PoolCrash
<1>2. DOMAIN frames' = {}
  BY <1>1
<1>3. PoolTypeOK'
  <2>1. FramesOK'
    <3>1. DOMAIN frames' = {} /\ DOMAIN older' = {}
      BY <1>1
    <3>2. frames' \in [{} -> 0..Versions] /\ older' \in [{} -> SUBSET {}]
      BY <1>1, <3>1
    <3>3. IsFiniteSet({}) /\ Cardinality({}) <= PoolCapacity
      BY FS_EmptySet, PoolAssumption
    <3>4. QED
      BY <1>1, <3>1, <3>2, <3>3 DEF FramesOK
  <2>2. /\ pageCount' \in [PoolFile -> Nat \cup {Closed}]
        /\ \A g \in PoolFile : pageCount'[g] <= FilePages[g]
    BY <1>1, PoolAssumption DEF Closed
  <2>3. NotSyncing \in [file : SUBSET PoolFile, upTo : Seq(0..Versions)]
    BY DEF NotSyncing
  <2>4. syncing' \in [Flusher -> [file : SUBSET PoolFile, upTo : Seq(0..Versions)]]
    BY <1>1, <2>3
  <2>5. latest' \in [PoolFile -> Seq(0..Versions)]
    BY <1>0, <1>1, TypesAre DEF FilesOK
  <2>6. QED
    BY <1>0, <1>1, <2>1, <2>2, <2>4, <2>5, TypesAre, TypesAreNext
<1>4. ASSUME NEW f \in PoolFile PROVE Kept(f)'
  <2>1. Later(device[f], promised[f])
    BY DEF PoolInv, Kept
  <2>2. device[f] \in Seq(Nat) /\ Len(device[f]) \in Nat
    BY <1>0, FilesAre
  <2>3. Later(device[f], device[f])
    BY <2>2, LaterIsAnOrder
  <2>4. QED
    BY <1>1, <1>2, <2>1, <2>2, <2>3 DEF Kept
<1>5. Loaded'
  BY <1>2 DEF Loaded
<1>6. Promises'
  BY <1>1 DEF Promises, NotSyncing
<1>7. QED
  BY <1>3, <1>4, <1>5, <1>6 DEF PoolInv

LEMMA InitHolds == PoolInit => PoolInv
<1> SUFFICES ASSUME PoolInit PROVE PoolInv
  OBVIOUS
<1>1. /\ frames = <<>> /\ older = <<>> /\ dirty = {}
      /\ pageCount = [f \in PoolFile |-> 0]
      /\ written = [f \in PoolFile |-> <<>>] /\ device = written
      /\ syncing = [s \in Flusher |-> NotSyncing]
      /\ latest = written /\ promised = written
  BY DEF PoolInit
<1>2. DOMAIN frames = {}
  BY <1>1
<1>3. PoolTypeOK
  <2>1. FramesOK
    BY <1>1, NoPagesTypes
  <2>2. /\ pageCount \in [PoolFile -> Nat \cup {Closed}]
        /\ \A g \in PoolFile : pageCount[g] <= FilePages[g]
    BY <1>1, PoolAssumption
  <2>3. <<>> \in Seq(0..Versions) /\ Len(<<>>) = 0
    OBVIOUS
  <2>4. written \in [PoolFile -> Seq(0..Versions)]
    BY <1>1, <2>3
  <2>5. FilesOK(written)
    BY <1>1, <2>3, <2>4, PoolAssumption DEF FilesOK
  <2>6. NotSyncing \in [file : SUBSET PoolFile, upTo : Seq(0..Versions)]
    BY DEF NotSyncing
  <2>7. QED
    BY <1>1, <2>1, <2>2, <2>4, <2>5, <2>6, TypesAre
<1>4. ASSUME NEW f \in PoolFile PROVE Kept(f)
  <2>1. /\ written[f] = <<>> /\ device[f] = <<>> /\ latest[f] = <<>> /\ promised[f] = <<>>
        /\ pageCount[f] = 0
    BY <1>1
  <2>2. Later(<<>>, <<>>)
    BY DEF Later
  <2>3. QED
    BY <2>1, <2>2 DEF Kept, Closed
<1>5. QED
  BY <1>1, <1>2, <1>3, <1>4 DEF PoolInv, Loaded, Promises, NotSyncing

LEMMA NextKeeps ==
  ASSUME PoolInv, ~DiskFails, [PoolNext]_poolVars
  PROVE  PoolInv'
<1>1. CASE UNCHANGED poolVars
  BY <1>1 DEF poolVars, PoolInv, PoolTypeOK, FramesOK, Kept, Loaded, Promises
<1>2. ASSUME NEW f \in PoolFile, NEW p \in 1..FilePages[f],
             Read(f, p) \/ Write(f, p) \/ WriteBack(f, p)
      PROVE  PoolInv'
  BY <1>2, ReadKeeps, WriteKeeps, WriteBackKeeps
<1>3. ASSUME NEW f \in PoolFile,
             Allocate(f) \/ FlushFails(f) \/ Close(f) \/ Discard(f) \/ Open(f)
      PROVE  PoolInv'
  BY <1>3, AllocateKeeps, FlushFailsKeeps, CloseKeeps, DiscardKeeps, OpenKeeps
<1>4. ASSUME NEW s \in Flusher, NEW f \in PoolFile, StartFlush(s, f)
      PROVE  PoolInv'
  BY <1>4, StartFlushKeeps
<1>5. ASSUME NEW s \in Flusher, EndFlush(s) \/ SyncFails(s)
      PROVE  PoolInv'
  BY <1>5, EndFlushKeeps, SyncFailsKeeps
<1>6. CASE PoolCrash
  BY <1>6, CrashKeeps
<1>7. QED
  BY <1>1, <1>2, <1>3, <1>4, <1>5, <1>6 DEF PoolNext

LEMMA InvIsEnough == PoolInv => PagesAreKept
<1> SUFFICES ASSUME PoolInv PROVE PagesAreKept
  OBVIOUS
<1>1. ReadsSeeLastWrite
  <2>1. ASSUME NEW f \in PoolFile, NEW p \in 1..pageCount[f]
        PROVE  Shown(f, p) = latest[f][p]
    <3>1. pageCount[f] \in Int
      BY TypesAre DEF PoolInv, Closed
    <3>2. p \in Nat /\ p >= 1 /\ p <= pageCount[f]
      BY <3>1
    <3>3. QED
      BY <3>2, ShownIsLatest
  <2>2. QED
    BY <2>1 DEF ReadsSeeLastWrite
<1>2. FlushedSurvives
  <2>1. ASSUME NEW f \in PoolFile, NEW p \in DOMAIN promised[f]
        PROVE  p <= Len(device[f]) /\ device[f][p] >= promised[f][p]
    <3>1. promised[f] \in Seq(0..Versions) /\ device[f] \in Seq(0..Versions)
      BY FilesAre DEF PoolInv
    <3>2. Later(device[f], promised[f])
      BY DEF PoolInv, Kept
    <3>3. /\ p \in 1..Len(promised[f])
          /\ Len(promised[f]) \in Nat /\ Len(device[f]) \in Nat
      BY <3>1
    <3>4. p \in 1..Len(device[f]) /\ promised[f][p] <= device[f][p]
      BY <3>2, <3>3 DEF Later
    <3>5. promised[f][p] \in Nat /\ device[f][p] \in Nat
      BY <3>1, <3>3, <3>4, InFile
    <3>6. QED
      BY <3>3, <3>4, <3>5
  <2>2. QED
    BY <2>1 DEF FlushedSurvives
<1>3. QED
  BY <1>1, <1>2 DEF PagesAreKept, PoolInv

\* When writing a page never fails, whatever pages are read, written, evicted, flushed, closed and
\* opened again, a read gives the last content given to write, and what a flush has promised is
\* on the device after any crash: BufferPool.get, put and flush, Pager.sync.
THEOREM PoolKeepsPages == ASSUME ~DiskFails PROVE PoolSpec => []PagesAreKept
<1>1. PoolInv /\ [PoolNext]_poolVars => PoolInv'
  BY NextKeeps
<1>2. QED
  BY <1>1, InitHolds, InvIsEnough, PTL DEF PoolSpec

=============================================================================
