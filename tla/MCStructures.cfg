SPECIFICATION Spec
VIEW UpToPageNumbers
CONSTANTS
  SlotsPerPage = 2
  HeapRecord = {a, b}
  HeapPageLimit = 3
  SeqKey = {1, 2, 3}
  SeqId = {a, b}
  MaxChainPages = 1
  WasteNum = 1
  WasteDen = 2
  RebuiltPerPage = 1
  SeqLimit = 5
  OverflowLimit = 2
  TreeSize = 10
  TreeEntry <- MCTreeEntry
  TreeLoads <- MCTreeLoads
  LeafCapacity = 3
  InternalCapacity = 3
  TreePageLimit = 13
  HashOf <- MCHashOf
  HashEntry <- MCHashEntry
  HashBits = 3
  MergeLimit = 1
  HashPageLimit = 9
  VarlenLength <- MCVarlenLength
  PageRoom = 6
  EntryRoom = 1
  LinkRoom = 1
  FullCategory = 3
  GroupPages = 2
  VarlenPageLimit = 5
  VarlenLimit = 3
  RTreeEntry <- MCRTreeEntry
  RTreeLoads <- MCRTreeLoads
  RTreeQuery <- MCRTreeQuery
  RTreeLeafCapacity = 4
  RTreeBranchCapacity = 4
  MinFillPercent = 40
  BulkFillPercent = 70
  RTreePageLimit = 12
INVARIANTS
  HeapSound
  SeqSound
  TreesSound
  HashSound
  VarlenSound
  SearchFindsAll
  StoredAsAsked
  ReadAsWritten
CHECK_DEADLOCK FALSE
