----------------------------- MODULE BPlusTree -----------------------------
(* index/bplustree: the tree of tree.py, one node in a page, and its two uses:
   the clustered index, whose leaves hold the rows, and the unclustered one,
   which makes its keys unique by joining the address of the row to the value.
   A key is <<value, address>>, with the address Unaddressed in a clustered
   index. The operators take the tree as it is at their point of an operation.
   The header, written when the tree is flushed or closed, is left out. *)
EXTENDS RecordPages

CONSTANTS TreeEntry,        \* what may be inserted: <<key, content>>
          TreeLoads,        \* what is in the tree at first: sequences of entries
          LeafCapacity, InternalCapacity, \* entries and separators of a page
          TreePageLimit     \* bound: pages the file may grow to

ASSUME TreeAssumption == LeafCapacity >= 3 /\ InternalCapacity >= 3

\* pages: the nodes; root, free, entries, height: _root, _free_pages, _entry_count,
\* _height.
VARIABLE tree

Unaddressed == 0
LowestAddress == 0
HighestAddress == 9

TreeKey == {entry[1] : entry \in TreeEntry \cup UNION {ToSet(load) : load \in TreeLoads}}

AtMost(a, b) == a[1] < b[1] \/ (a[1] = b[1] /\ a[2] <= b[2])
Before(a, b) == AtMost(a, b) /\ a # b

Leaf(keys, contents, next) ==
  [leaf |-> TRUE, keys |-> keys, contents |-> contents, children |-> <<>>, next |-> next]
Internal(keys, children) ==
  [leaf |-> FALSE, keys |-> keys, contents |-> <<>>, children |-> children, next |-> NoPage]

EmptyTree ==
  [pages |-> <<Leaf(<<>>, <<>>, NoPage)>>, root |-> 1, free |-> NoPage, entries |-> 0, height |-> 1]

TreeTypeOK ==
  /\ Len(tree.pages) <= TreePageLimit
  /\ tree.root \in DOMAIN tree.pages
  /\ tree.free \in DOMAIN tree.pages \cup {NoPage}
  /\ tree.entries \in Nat /\ tree.height \in Nat \ {0}

\* bisect_left and bisect_right, for positions from 1.
BisectLeft(keys, key) == Cardinality({i \in DOMAIN keys : Before(keys[i], key)}) + 1
BisectRight(keys, key) == Cardinality({i \in DOMAIN keys : AtMost(keys[i], key)}) + 1

ChildFor(node, key) == BisectRight(node.keys, key)

\* From the root to the leaf where the key belongs: each page, and the child taken.
Descend(t, key) ==
  LET down[id \in DOMAIN t.pages] ==
        LET node == t.pages[id]
            at   == ChildFor(node, key)
        IN  IF node.leaf THEN <<[id |-> id, at |-> 0]>>
            ELSE <<[id |-> id, at |-> at]>> \o down[node.children[at]]
  IN  down[t.root]

LeafPage(t, key) == Last(Descend(t, key)).id
LeafOf(t, key) == t.pages[LeafPage(t, key)]

LeafHas(leaf, key) ==
  LET at == BisectLeft(leaf.keys, key) IN at <= Len(leaf.keys) /\ leaf.keys[at] = key

\* search: what is stored under the key, none or one.
TreeSearch(t, key) ==
  LET leaf == LeafOf(t, key)
  IN  IF LeafHas(leaf, key) THEN {leaf.contents[BisectLeft(leaf.keys, key)]} ELSE {}

\* Entries from a leaf on, through the list of leaves, until one is past the end.
RangeFrom(t, id, low, high) ==
  LET leaves  == Chain(t.pages, id)
      entries == FoldLeft(LAMBDA seen, l :
                   seen \o [i \in DOMAIN t.pages[l].keys |->
                              <<t.pages[l].keys[i], t.pages[l].contents[i]>>], <<>>, leaves)
      past    == {i \in DOMAIN entries : Before(high, entries[i][1])}
      upTo    == IF past = {} THEN entries ELSE SubSeq(entries, 1, Min(past) - 1)
  IN  SelectSeq(upTo, LAMBDA entry : AtMost(low, entry[1]))

RangeScan(t, low, high) == RangeFrom(t, LeafPage(t, low), low, high)

TreeScan(t) ==
  LET leftmost[id \in DOMAIN t.pages] ==
        IF t.pages[id].leaf THEN id ELSE leftmost[t.pages[id].children[1]]
  IN  FoldLeft(LAMBDA seen, l :
        seen \o [i \in DOMAIN t.pages[l].keys |-> <<t.pages[l].keys[i], t.pages[l].contents[i]>>],
        <<>>, Chain(t.pages, leftmost[t.root]))

\* The addresses an unclustered index gives for a value.
UnclusteredFind(t, value) ==
  {entry[1][2] : entry \in ToSet(RangeScan(t, <<value, LowestAddress>>, <<value, HighestAddress>>))}

-----------------------------------------------------------------------------
\* Splits return the tree, the separator that goes up and the page at its right.
SplitLeaf(t, id, leaf) ==
  LET middle == (Len(leaf.keys) + 1) \div 2
      right  == NextPage(t)
      upper  == Leaf(SubSeq(leaf.keys, middle + 1, Len(leaf.keys)),
                     SubSeq(leaf.contents, middle + 1, Len(leaf.keys)), leaf.next)
      lower  == Leaf(SubSeq(leaf.keys, 1, middle), SubSeq(leaf.contents, 1, middle), right)
  IN  [tree |-> [WithPage(t, upper) EXCEPT !.pages[id] = lower],
       separator |-> upper.keys[1], right |-> right]

\* The key in the middle goes up and stays in neither half.
SplitInternal(t, id, node) ==
  LET middle == Len(node.keys) \div 2
      upper  == Internal(SubSeq(node.keys, middle + 2, Len(node.keys)),
                         SubSeq(node.children, middle + 2, Len(node.children)))
      lower  == Internal(SubSeq(node.keys, 1, middle), SubSeq(node.children, 1, middle + 1))
  IN  [tree |-> [WithPage(t, upper) EXCEPT !.pages[id] = lower],
       separator |-> node.keys[middle + 1], right |-> NextPage(t)]

Stored(t, id, node) == [tree |-> [t EXCEPT !.pages[id] = node], right |-> NoPage]

\* The separator enters a parent, which splits if it overflows.
GrowParent(grown, step) ==
  LET id   == step.id
      node == [grown.tree.pages[id] EXCEPT !.keys = InsertAt(@, step.at, grown.separator),
                                           !.children = InsertAt(@, step.at + 1, grown.right)]
  IN  CASE grown.right = NoPage                -> grown
        [] grown.right # NoPage /\ Len(node.keys) <= InternalCapacity -> Stored(grown.tree, id, node)
        [] OTHER                               -> SplitInternal(grown.tree, id, node)

ReplaceRoot(grown) ==
  [WithPage(grown.tree, Internal(<<grown.separator>>, <<grown.tree.root, grown.right>>))
     EXCEPT !.root = NextPage(grown.tree), !.height = @ + 1]

\* The tree with an entry that it does not have.
TreeInserted(t, key, content) ==
  LET path  == Descend(t, key)
      leaf  == LeafOf(t, key)
      at    == BisectLeft(leaf.keys, key)
      full  == [leaf EXCEPT !.keys = InsertAt(@, at, key), !.contents = InsertAt(@, at, content)]
      more  == [t EXCEPT !.entries = @ + 1]
      first == IF Len(full.keys) <= LeafCapacity
               THEN Stored(more, Last(path).id, full)
               ELSE SplitLeaf(more, Last(path).id, full)
      grown == FoldLeft(GrowParent, first, Reverse(Front(path)))
  IN  IF grown.right = NoPage THEN grown.tree ELSE ReplaceRoot(grown)

\* The tree as the entries inserted before leave it.
TreeInit ==
  \E load \in TreeLoads :
    tree = FoldLeft(LAMBDA t, entry : TreeInserted(t, entry[1], entry[2]), EmptyTree, load)

\* A key that is there is refused.
TreeInsert(key, content) ==
  /\ ~LeafHas(LeafOf(tree, key), key)
  /\ tree' = TreeInserted(tree, key, content)
  /\ Len(tree'.pages) <= TreePageLimit

-----------------------------------------------------------------------------
MinimumKeys(node) ==
  IF node.leaf THEN (LeafCapacity + 1) \div 2 ELSE InternalCapacity \div 2

Spare(t, id) == Len(t.pages[id].keys) > MinimumKeys(t.pages[id])

\* In the operators below, child c of the parent is the one that lacks keys.
\* The last entry of its left sibling comes to it, through the parent if internal.
BorrowFromLeft(t, id, c) ==
  LET parent == t.pages[id]
      left   == t.pages[parent.children[c - 1]]
      child  == t.pages[parent.children[c]]
      up     == IF child.leaf THEN Last(left.keys) ELSE parent.keys[c - 1]
      taken  == IF child.leaf
                THEN [child EXCEPT !.keys = <<up>> \o @, !.contents = <<Last(left.contents)>> \o @]
                ELSE [child EXCEPT !.keys = <<up>> \o @, !.children = <<Last(left.children)>> \o @]
      given  == IF child.leaf
                THEN [left EXCEPT !.keys = Front(@), !.contents = Front(@)]
                ELSE [left EXCEPT !.keys = Front(@), !.children = Front(@)]
  IN  [t EXCEPT !.pages[parent.children[c - 1]] = given,
                !.pages[parent.children[c]]     = taken,
                !.pages[id].keys[c - 1]         = Last(left.keys)]

\* The first entry of its right sibling.
BorrowFromRight(t, id, c) ==
  LET parent == t.pages[id]
      child  == t.pages[parent.children[c]]
      right  == t.pages[parent.children[c + 1]]
      taken  == IF child.leaf
                THEN [child EXCEPT !.keys = Append(@, right.keys[1]),
                                   !.contents = Append(@, right.contents[1])]
                ELSE [child EXCEPT !.keys = Append(@, parent.keys[c]),
                                   !.children = Append(@, right.children[1])]
      given  == IF child.leaf
                THEN [right EXCEPT !.keys = Tail(@), !.contents = Tail(@)]
                ELSE [right EXCEPT !.keys = Tail(@), !.children = Tail(@)]
  IN  [t EXCEPT !.pages[parent.children[c + 1]] = given,
                !.pages[parent.children[c]]     = taken,
                !.pages[id].keys[c] = IF child.leaf THEN right.keys[2] ELSE right.keys[1]]

\* Mutant: the merged leaf keeps its own link.
JoinedKeepingLink(left, right) ==
  Leaf(left.keys \o right.keys, left.contents \o right.contents, left.next)

JoinedLeaf(left, right) ==
  Leaf(left.keys \o right.keys, left.contents \o right.contents, right.next)

\* Children c and c + 1 become one, and the page of the second is released.
Merge(t, id, c) ==
  LET parent == t.pages[id]
      left   == t.pages[parent.children[c]]
      right  == t.pages[parent.children[c + 1]]
      both   == IF left.leaf
                THEN JoinedLeaf(left, right)
                ELSE Internal(Append(left.keys, parent.keys[c]) \o right.keys,
                              left.children \o right.children)
      merged == [t EXCEPT !.pages[parent.children[c]] = both,
                          !.pages[id].keys            = RemoveAt(@, c),
                          !.pages[id].children        = RemoveAt(@, c + 1)]
  IN  Released(merged, parent.children[c + 1])

FixChild(t, id, c) ==
  LET parent == t.pages[id]
      hasLeft  == c > 1
      hasRight == c < Len(parent.children)
  IN  CASE hasLeft /\ Spare(t, parent.children[c - 1])  -> BorrowFromLeft(t, id, c)
        [] /\ ~(hasLeft /\ Spare(t, parent.children[c - 1]))
           /\ hasRight /\ Spare(t, parent.children[c + 1]) -> BorrowFromRight(t, id, c)
        [] OTHER -> Merge(t, id, IF hasLeft THEN c - 1 ELSE c)

\* From the leaf up, while the node just changed lacks keys.
Repaired(t, path) ==
  LET after[n \in 1..Len(path)] ==
        IF n = Len(path) THEN t
        ELSE LET below == after[n + 1]
                 child == below.pages[path[n + 1].id]
             IN  IF Len(child.keys) >= MinimumKeys(child) THEN below
                 ELSE FixChild(below, path[n].id, path[n].at)
  IN  after[1]

\* A root left with one child gives its place to it.
ShrinkRoot(t) ==
  LET root == t.pages[t.root]
  IN  IF root.leaf \/ root.keys # <<>> THEN t
      ELSE Released([t EXCEPT !.root = root.children[1], !.height = @ - 1], t.root)

TreeDeleted(t, key) ==
  LET path == Descend(t, key)
      at   == BisectLeft(LeafOf(t, key).keys, key)
      less == [t EXCEPT !.pages[Last(path).id].keys = RemoveAt(@, at),
                        !.pages[Last(path).id].contents = RemoveAt(@, at),
                        !.entries = @ - 1]
  IN  ShrinkRoot(Repaired(less, path))

TreeDelete(key) ==
  /\ LeafHas(LeafOf(tree, key), key)
  /\ tree' = TreeDeleted(tree, key)

TreeNext ==
  \/ \E entry \in TreeEntry : TreeInsert(entry[1], entry[2])
  \/ \E key \in TreeKey : TreeDelete(key)

TreeSpec == TreeInit /\ [][TreeNext]_tree

-----------------------------------------------------------------------------
\* The pages of the tree, level by level from the root.
Levels ==
  LET level[n \in 1..tree.height] ==
        IF n = 1 THEN <<tree.root>>
        ELSE FlattenSeq([i \in DOMAIN level[n - 1] |-> tree.pages[level[n - 1][i]].children])
  IN  level

\* The keys below a node.
KeysUnder(id) ==
  LET under[n \in DOMAIN tree.pages] ==
        IF tree.pages[n].leaf THEN ToSet(tree.pages[n].keys)
        ELSE UNION {under[c] : c \in ToSet(tree.pages[n].children)}
  IN  under[id]

\* After any insertions and deletions every leaf is at the height the tree says,
\* every key of child c_i is in k_(i-1) <= key < k_i, no node but the root is less
\* than half full, the list of leaves goes through all of them in order, and every
\* page is in the tree once or in the free list.
TreeSound ==
  LET nodes  == ToSet(FlattenSeq(Levels))
      leaves == Levels[tree.height]
  IN  /\ TreeTypeOK
      /\ \A id \in nodes :
           LET node == tree.pages[id]
           IN  /\ node.leaf <=> id \in ToSet(leaves)
               /\ id # tree.root => Len(node.keys) >= MinimumKeys(node)
               /\ Len(node.keys) <= IF node.leaf THEN LeafCapacity ELSE InternalCapacity
               /\ \A i \in 1..Len(node.keys) - 1 : Before(node.keys[i], node.keys[i + 1])
               /\ ~node.leaf => /\ Len(node.children) = Len(node.keys) + 1
                                /\ node.keys # <<>>
               /\ \A i \in DOMAIN node.children : \A key \in KeysUnder(node.children[i]) :
                    /\ i > 1 => AtMost(node.keys[i - 1], key)
                    /\ i <= Len(node.keys) => Before(key, node.keys[i])
      /\ Chain(tree.pages, leaves[1]) = leaves
      /\ PagesAccounted(tree, nodes)
      /\ Cardinality(nodes) = Len(FlattenSeq(Levels))
      /\ tree.entries = Len(TreeScan(tree))

\* Searching by key, by range and, in an unclustered index, by value gives what
\* a scan of all the leaves gives.
TreeFindsAll ==
  LET scan == TreeScan(tree)
  IN  /\ \A key \in TreeKey :
           TreeSearch(tree, key) = {e[2] : e \in {e \in ToSet(scan) : e[1] = key}}
      /\ \A low, high \in TreeKey :
           RangeScan(tree, low, high)
             = SelectSeq(scan, LAMBDA e : AtMost(low, e[1]) /\ AtMost(e[1], high))
      /\ \A value \in {key[1] : key \in TreeKey} :
           UnclusteredFind(tree, value) = {e[1][2] : e \in {e \in ToSet(scan) : e[1][1] = value}}

=============================================================================
