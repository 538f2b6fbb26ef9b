------------------------------- MODULE RTree -------------------------------
(* index/rtree: Guttman's tree of points (tree.py), how a node that overflows is
   split (split.py) and how a whole table is loaded (bulk.py). A node is a page.
   An entry is [bounds, ref]: in a leaf the point and the address of its row, in
   a branch the rectangle that covers a child and its page. Coordinates are
   integers and distances their squares, which keep the order of the euclidean
   metric. The header, written when the tree is flushed, is left out. *)
EXTENDS RecordPages, Ordering

CONSTANTS RTreeEntry,       \* what may be inserted and deleted: <<point, address>>
          RTreeLoads,       \* what the table holds when it is indexed
          RTreeQuery,       \* points asked about
          RTreeLeafCapacity, RTreeBranchCapacity,
          MinFillPercent, BulkFillPercent,   \* rtree_min_fill, rtree_bulk_fill
          RTreePageLimit    \* bound: pages the file may grow to

ASSUME RTreeAssumption ==
  /\ RTreeLeafCapacity >= 4 /\ RTreeBranchCapacity >= 4
  /\ MinFillPercent \in 1..50 /\ BulkFillPercent \in 1..100

\* pages: the nodes; root, free, entries, height, nodes: _root, _free_pages,
\* _entry_count, _height, _node_count.
VARIABLE rtree

RTreeTypeOK ==
  /\ Len(rtree.pages) <= RTreePageLimit
  /\ rtree.root \in DOMAIN rtree.pages
  /\ rtree.free \in DOMAIN rtree.pages \cup {NoPage}
  /\ rtree.entries \in Nat /\ rtree.height \in Nat \ {0} /\ rtree.nodes \in Nat \ {0}

-----------------------------------------------------------------------------
\* Rectangle, as its lowest and its highest corner.
Larger(a, b) == IF a < b THEN b ELSE a
Smaller(a, b) == IF a < b THEN a ELSE b

Union2(a, b) ==
  << <<Smaller(a[1][1], b[1][1]), Smaller(a[1][2], b[1][2])>>,
     <<Larger(a[2][1], b[2][1]), Larger(a[2][2], b[2][2])>> >>
Area(a) == (a[2][1] - a[1][1]) * (a[2][2] - a[1][2])
Margin(a) == (a[2][1] - a[1][1]) + (a[2][2] - a[1][2])
Enlargement(a, b) == Area(Union2(a, b)) - Area(a)
MarginGrowth(a, b) == Margin(Union2(a, b)) - Margin(a)

Intersects(a, b) == \A d \in 1..2 : a[1][d] <= b[2][d] /\ b[1][d] <= a[2][d]
ContainsPoint(a, point) == \A d \in 1..2 : a[1][d] <= point[d] /\ point[d] <= a[2][d]

Distance(p, q) == (p[1] - q[1]) * (p[1] - q[1]) + (p[2] - q[2]) * (p[2] - q[2])
\* The nearest that anything in the rectangle can be.
MinDistance(p, a) ==
  Distance(p, [d \in 1..2 |-> Smaller(Larger(p[d], a[1][d]), a[2][d])])

Enclosing(boxes) == FoldLeft(Union2, boxes[1], Tail(boxes))

-----------------------------------------------------------------------------
LeafEntry(entry) == [bounds |-> <<entry[1], entry[1]>>, ref |-> entry[2]]
BranchEntry(bounds, child) == [bounds |-> bounds, ref |-> child]

RLeaf(entries) == [leaf |-> TRUE, entries |-> entries]
RBranch(entries) == [leaf |-> FALSE, entries |-> entries]

Cover(node) == Enclosing([i \in DOMAIN node.entries |-> node.entries[i].bounds])

RCapacity(node) == IF node.leaf THEN RTreeLeafCapacity ELSE RTreeBranchCapacity
MinimumFor(capacity) == Larger(2, (capacity * MinFillPercent) \div 100)
MinimumEntries(node) == MinimumFor(RCapacity(node))

\* _allocate, with the node that the page is given, and _release.
NodeAdded(t, node) == [WithPage(t, node) EXCEPT !.nodes = @ + 1]
NodeReleased(t, id) == [Released(t, id) EXCEPT !.nodes = @ - 1]

EmptyRTree ==
  [pages |-> <<RLeaf(<<>>)>>, root |-> 1, free |-> NoPage, entries |-> 0, height |-> 1, nodes |-> 1]

\* The child whose area grows least; then the one whose margin does, then the smallest.
ChooseSubtree(entries, bounds) ==
  FirstLeast([i \in DOMAIN entries |->
    LET cover == entries[i].bounds
    IN  <<Enlargement(cover, bounds), MarginGrowth(cover, bounds), Area(cover)>>])

\* The two entries that would waste most space together, the first such pair.
PickSeeds(boxes) ==
  LET waste(p) == LET both == Union2(boxes[p[1]], boxes[p[2]])
                  IN  <<Area(both) - Area(boxes[p[1]]) - Area(boxes[p[2]]),
                        Margin(both) - Margin(boxes[p[1]]) - Margin(boxes[p[2]])>>
      pairs    == {p \in (DOMAIN boxes) \X (DOMAIN boxes) : p[1] < p[2]}
  IN  CHOOSE p \in pairs : \A q \in pairs :
        ~LexLess(waste(p), waste(q)) /\ (waste(q) = waste(p) => p = q \/ LexLess(p, q))

Apart(a, b) == Larger(a - b, b - a)

GroupGrowth(s, n, g) == <<Enlargement(s.covers[g], s.remaining[n].bounds),
                          MarginGrowth(s.covers[g], s.remaining[n].bounds)>>

\* The entry, by its position in what remains, whose preference is clearest, and
\* the group that it goes to.
PickNext(s) ==
  FirstGreatest([n \in DOMAIN s.remaining |->
    [d \in 1..2 |-> Apart(GroupGrowth(s, n, 1)[d], GroupGrowth(s, n, 2)[d])]])
PreferredGroup(s, n) ==
  FirstLeast([g \in 1..2 |-> GroupGrowth(s, n, g) \o <<Area(s.covers[g]), Len(s.groups[g])>>])

GivenTo(s, n, group) ==
  [s EXCEPT !.groups[group] = Append(@, s.remaining[n]),
            !.covers[group] = Union2(@, s.remaining[n].bounds),
            !.remaining = RemoveAt(@, n)]
GivenToPreferred(s, n) == GivenTo(s, n, PreferredGroup(s, n))

\* One entry more is given to a group, or all of them to one that needs them.
Assigned(s, minimum) ==
  LET starved == {g \in 1..2 : Len(s.groups[g]) + Len(s.remaining) = minimum}
  IN  CASE s.remaining = <<>> -> s
        [] s.remaining # <<>> /\ starved # {} ->
             [s EXCEPT !.groups[Min(starved)] = @ \o s.remaining, !.remaining = <<>>]
        [] OTHER -> GivenToPreferred(s, PickNext(s))

\* The entries of a node that overflows, in two groups.
Seeded(entries, seeds) ==
  [groups    |-> << <<entries[seeds[1]]>>, <<entries[seeds[2]]>> >>,
   covers    |-> <<entries[seeds[1]].bounds, entries[seeds[2]].bounds>>,
   remaining |-> RemoveAt(RemoveAt(entries, seeds[2]), seeds[1])]
QuadraticSplit(entries, minimum) ==
  FoldLeft(LAMBDA s, n : Assigned(s, minimum),
           Seeded(entries, PickSeeds([i \in DOMAIN entries |-> entries[i].bounds])),
           entries).groups

-----------------------------------------------------------------------------
\* From the root to a node of the level, counted from the leaves: each page, and
\* the entry followed.
RDescend(t, bounds, level) ==
  LET path[n \in 0..t.height - 1 - level] ==
        IF n = 0 THEN <<[id |-> t.root, at |-> 0]>>
        ELSE LET up   == path[n - 1]
                 node == t.pages[Last(up).id]
                 at   == ChooseSubtree(node.entries, bounds)
             IN  Front(up) \o <<[id |-> Last(up).id, at |-> at],
                                [id |-> node.entries[at].ref, at |-> 0]>>
  IN  path[t.height - 1 - level]

\* The tree with the node, and the entry of the new node if it was split.
SplitInto(t, id, node, sibling) ==
  [tree |-> [NodeAdded(t, sibling) EXCEPT !.pages[id] = node],
   id |-> id, sibling |-> <<BranchEntry(Cover(sibling), NextPage(t))>>, done |-> FALSE]
Halved(t, id, node, halves) ==
  SplitInto(t, id, [node EXCEPT !.entries = halves[1]], [node EXCEPT !.entries = halves[2]])
StoreOrSplit(t, id, node) ==
  IF Len(node.entries) <= RCapacity(node)
  THEN [tree |-> [t EXCEPT !.pages[id] = node], id |-> id, sibling |-> <<>>, done |-> FALSE]
  ELSE Halved(t, id, node, QuadraticSplit(node.entries, MinimumEntries(node)))

\* The parent learns what its child covers now; it stops where nothing changes.
CoverAbove(below, step, bounds) ==
  LET parent  == below.tree.pages[step.id]
      current == parent.entries[step.at]
      cover   == IF below.sibling = <<>> THEN Union2(current.bounds, bounds)
                 ELSE Cover(below.tree.pages[below.id])
      updated == BranchEntry(cover, below.id)
  IN  IF below.done \/ (below.sibling = <<>> /\ updated = current)
      THEN [below EXCEPT !.done = TRUE]
      ELSE StoreOrSplit(below.tree, step.id,
             [parent EXCEPT !.entries = [@ EXCEPT ![step.at] = updated] \o below.sibling])

GrowRoot(r) ==
  LET root == RBranch(<<BranchEntry(Cover(r.tree.pages[r.id]), r.id)>> \o r.sibling)
  IN  [NodeAdded(r.tree, root) EXCEPT !.root = NextPage(r.tree), !.height = @ + 1]

\* _place: the tree with an entry in a node of the level.
PlacedAt(t, entry, id) ==
  StoreOrSplit(t, id, [t.pages[id] EXCEPT !.entries = Append(@, entry)])
PlacedAlong(t, entry, path) ==
  FoldRight(LAMBDA step, below : CoverAbove(below, step, entry.bounds),
            Front(path), PlacedAt(t, entry, Last(path).id))
RootGrown(r) == IF r.sibling = <<>> THEN r.tree ELSE GrowRoot(r)
Placed(t, entry, level) == RootGrown(PlacedAlong(t, entry, RDescend(t, entry.bounds, level)))

RTreeInsert(entry) ==
  /\ rtree' = [Placed(rtree, LeafEntry(entry), 0) EXCEPT !.entries = @ + 1]
  /\ Len(rtree'.pages) <= RTreePageLimit

-----------------------------------------------------------------------------
\* The path to the first leaf that has the entry; <<>> if none does.
FindLeaf(t, entry) ==
  LET find[id \in DOMAIN t.pages] ==
        LET node  == t.pages[id]
            holds == {i \in DOMAIN node.entries :
                        /\ ContainsPoint(node.entries[i].bounds, entry.bounds[1])
                        /\ find[node.entries[i].ref] # <<>>}
        IN  CASE node.leaf /\ entry \in ToSet(node.entries)    -> <<[id |-> id, at |-> 0]>>
              [] node.leaf /\ entry \notin ToSet(node.entries) -> <<>>
              [] ~node.leaf /\ holds = {}                      -> <<>>
              [] OTHER -> <<[id |-> id, at |-> Min(holds)]>> \o find[node.entries[Min(holds)].ref]
  IN  find[t.root]

\* Mutant: the rectangle of a child that lost an entry is not computed again.
KeepCover(t, step, child) == t

Recover(t, step, child) ==
  [t EXCEPT !.pages[step.id].entries[step.at].bounds = Cover(t.pages[child])]

\* From the leaf up, nodes under the minimum are dissolved; their entries, each
\* with its level, are in orphans.
Condensed(t, path) ==
  LET after[n \in 1..Len(path)] ==
        IF n = Len(path) THEN [tree |-> t, orphans |-> <<>>]
        ELSE LET below == after[n + 1]
                 child == path[n + 1].id
                 node  == below.tree.pages[child]
                 lost  == [i \in DOMAIN node.entries |-> <<Len(path) - n - 1, node.entries[i]>>]
             IN  IF Len(node.entries) < MinimumEntries(node)
                 THEN [tree |-> NodeReleased([below.tree EXCEPT
                                  !.pages[path[n].id].entries = RemoveAt(@, path[n].at)], child),
                       orphans |-> below.orphans \o lost]
                 ELSE [below EXCEPT !.tree = Recover(@, path[n], child)]
  IN  after[1]

\* A branch left with one child gives its place to it.
RootShrunk(t) ==
  LET after[n \in 0..t.height - 1] ==
        IF n = 0 THEN t
        ELSE LET s    == after[n - 1]
                 root == s.pages[s.root]
             IN  IF root.leaf \/ Len(root.entries) # 1 THEN s
                 ELSE NodeReleased([s EXCEPT !.root = root.entries[1].ref, !.height = @ - 1], s.root)
  IN  after[t.height - 1]

EntryTaken(t, entry, leaf) ==
  [t EXCEPT !.pages[leaf].entries =
               RemoveAt(@, Min({i \in DOMAIN @ : @[i] = LeafEntry(entry)})),
            !.entries = @ - 1]
Reinserted(condensed) ==
  FoldLeft(LAMBDA t, orphan : Placed(t, orphan[2], orphan[1]), condensed.tree, condensed.orphans)

RTreeDelete(entry) ==
  LET path == FindLeaf(rtree, LeafEntry(entry))
  IN  /\ path # <<>>
      /\ rtree' = RootShrunk(Reinserted(Condensed(EntryTaken(rtree, entry, Last(path).id), path)))
      /\ Len(rtree'.pages) <= RTreePageLimit

-----------------------------------------------------------------------------
\* Sort-Tile-Recursive (bulk.py).
CeilDiv(a, b) == (a + b - 1) \div b
CeilSqrt(n) == Min({k \in 0..n : k * k >= n})

Batches(seq, size) ==
  [i \in 1..CeilDiv(Len(seq), size) |-> SubSeq(seq, (i - 1) * size + 1, Min({i * size, Len(seq)}))]

\* A last batch under the minimum is joined with the one before, and both halved.
WithoutShortTail(batches, minimum) ==
  LET last   == Len(batches)
      merged == batches[last - 1] \o batches[last]
      middle == Len(merged) \div 2
  IN  IF last < 2 \/ Len(batches[last]) >= minimum THEN batches
      ELSE SubSeq(batches, 1, last - 2)
             \o <<SubSeq(merged, 1, middle), SubSeq(merged, middle + 1, Len(merged))>>

CenterAlong(entry, d) == <<entry.bounds[1][d] + entry.bounds[2][d]>>

\* The entries in groups of up to the size, none under the minimum.
Tile(entries, size, minimum) ==
  LET byLatitude == SortedBy(entries, LAMBDA e : CenterAlong(e, 1))
      stripe  == CeilSqrt(CeilDiv(Len(entries), size)) * size
      stripes == WithoutShortTail(Batches(byLatitude, stripe), minimum)
  IN  FlattenSeq([i \in DOMAIN stripes |->
        WithoutShortTail(Batches(SortedBy(stripes[i], LAMBDA e : CenterAlong(e, 2)), size), minimum)])

BulkSize(capacity) ==
  Smaller(capacity, Larger(2 * MinimumFor(capacity), (capacity * BulkFillPercent) \div 100))

\* Every group becomes a node, and an entry of the level above.
LevelBuilt(b, groups, leaf) ==
  FoldLeft(LAMBDA built, group :
             LET node == [leaf |-> leaf, entries |-> group]
             IN  [tree  |-> NodeAdded(built.tree, node),
                  level |-> Append(built.level, BranchEntry(Cover(node), NextPage(built.tree)))],
           [tree |-> b, level |-> <<>>], groups)

BulkLoaded(t, load) ==
  LET bare   == [NodeReleased(t, t.root) EXCEPT !.entries = Len(load), !.height = 1]
      leaves == LevelBuilt(bare, Tile([i \in DOMAIN load |-> LeafEntry(load[i])],
                  BulkSize(RTreeLeafCapacity), MinimumFor(RTreeLeafCapacity)), TRUE)
      branches(b) == LevelBuilt([b.tree EXCEPT !.height = @ + 1],
                       Tile(b.level, BulkSize(RTreeBranchCapacity), MinimumFor(RTreeBranchCapacity)),
                       FALSE)
      after[n \in Nat] == IF n = 0 THEN leaves
                          ELSE LET b == after[n - 1]
                               IN  IF Len(b.level) = 1 THEN b ELSE branches(b)
      built  == after[Len(load)]
  IN  IF load = <<>> THEN [NodeAdded(bare, RLeaf(<<>>)) EXCEPT !.root = NextPage(bare)]
      ELSE [built.tree EXCEPT !.root = built.level[1].ref]

RTreeInit == \E load \in RTreeLoads : rtree = BulkLoaded(EmptyRTree, load)

-----------------------------------------------------------------------------
\* The searches: what is reached below the children that a test lets through.
Reached(t, Through(_), Matches(_)) ==
  LET below[id \in DOMAIN t.pages] ==
        LET node == t.pages[id]
        IN  IF node.leaf THEN SelectSeq(node.entries, Matches)
            ELSE FlattenSeq([i \in DOMAIN node.entries |->
                   IF Through(node.entries[i].bounds) THEN below[node.entries[i].ref] ELSE <<>>])
  IN  below[t.root]

RScan(t) == Reached(t, LAMBDA a : TRUE, LAMBDA e : TRUE)

SearchRectangle(t, a) ==
  Reached(t, LAMBDA b : Intersects(a, b), LAMBDA e : ContainsPoint(a, e.bounds[1]))

SearchRadius(t, center, radius) ==
  Reached(t, LAMBDA b : MinDistance(center, b) <= radius,
             LAMBDA e : Distance(center, e.bounds[1]) <= radius)

\* Mutant: at the same distance a node comes out after the points.
AfterEveryPage(center, entry) == <<MinDistance(center, entry.bounds), 99, entry.ref>>

NodeTurn(center, entry) == <<MinDistance(center, entry.bounds), -1, entry.ref>>
PointTurn(center, entry) == <<Distance(center, entry.bounds[1]), entry.ref, 0>>

\* nearest: points and nodes in one queue, each at its turn.
Nearest(t, center) ==
  LET steps == t.entries + t.nodes
      turn(item) == IF item.leaf THEN PointTurn(center, item.entry) ELSE NodeTurn(center, item.entry)
      after[n \in 0..steps] ==
        IF n = 0
        THEN [queue |-> {[leaf |-> FALSE, entry |-> BranchEntry(<<center, center>>, t.root)]},
              found |-> <<>>]
        ELSE LET s    == after[n - 1]
                 next == CHOOSE item \in s.queue : \A other \in s.queue \ {item} :
                           LexLess(turn(item), turn(other))
                 node == t.pages[next.entry.ref]
             IN  IF next.leaf
                 THEN [queue |-> s.queue \ {next}, found |-> Append(s.found, next.entry)]
                 ELSE [s EXCEPT !.queue = (@ \ {next}) \cup
                         {[leaf |-> node.leaf, entry |-> e] : e \in ToSet(node.entries)}]
  IN  after[steps].found

RTreeHas(entry) == LeafEntry(entry) \in ToSet(RScan(rtree))

\* An index is told of a row once, and never of the removal of one that it lacks.
RTreeNext ==
  \E entry \in RTreeEntry : (~RTreeHas(entry) /\ RTreeInsert(entry)) \/ RTreeDelete(entry)

RTreeSpec == RTreeInit /\ [][RTreeNext]_rtree

-----------------------------------------------------------------------------
RLevels ==
  LET level[n \in 1..rtree.height] ==
        IF n = 1 THEN <<rtree.root>>
        ELSE FlattenSeq([i \in DOMAIN level[n - 1] |->
               LET entries == rtree.pages[level[n - 1][i]].entries
               IN  [j \in DOMAIN entries |-> entries[j].ref]])
  IN  level

\* After a bulk load and any insertions and deletions (with their splits, dissolved
\* nodes and reinsertions at every level) the rectangle of every child is exactly
\* what the child covers, all leaves are at the height that the tree says, every
\* node but the root is between its minimum and its capacity, the counts of entries
\* and nodes are right, and every page is in the tree once or in the free list.
RTreeSound ==
  LET pages == FlattenSeq(RLevels)
      nodes == ToSet(pages)
  IN  /\ RTreeTypeOK
      /\ \A id \in nodes :
           LET node == rtree.pages[id]
           IN  /\ node.leaf <=> id \in ToSet(RLevels[rtree.height])
               /\ Len(node.entries) <= RCapacity(node)
               /\ id # rtree.root => Len(node.entries) >= MinimumEntries(node)
               /\ ~node.leaf => \A e \in ToSet(node.entries) :
                                  e.bounds = Cover(rtree.pages[e.ref])
      /\ ~rtree.pages[rtree.root].leaf => Len(rtree.pages[rtree.root].entries) >= 2
      /\ PagesAccounted(rtree, nodes)
      /\ Len(pages) = Cardinality(nodes) /\ rtree.nodes = Len(pages)
      /\ rtree.entries = Len(RScan(rtree))

\* Searching by rectangle and by radius gives every point of the scan that it
\* should, once, and the nearest come in order, points at the same distance in the
\* order of the addresses, as a sort of the table would leave them.
RTreeFindsAll ==
  LET scan    == RScan(rtree)
      Same(found, Matches(_)) ==
        LET expected == {e \in ToSet(scan) : Matches(e)}
        IN  ToSet(found) = expected /\ Len(found) = Cardinality(expected)
  IN  \A p \in RTreeQuery :
        /\ \A q \in RTreeQuery : (p[1] <= q[1] /\ p[2] <= q[2]) =>
             Same(SearchRectangle(rtree, <<p, q>>), LAMBDA e : ContainsPoint(<<p, q>>, e.bounds[1]))
        /\ \A radius \in {0, 9} :
             Same(SearchRadius(rtree, p, radius), LAMBDA e : Distance(p, e.bounds[1]) <= radius)
        /\ Nearest(rtree, p) = SortedBy(scan, LAMBDA e : PointTurn(p, e))

=============================================================================
