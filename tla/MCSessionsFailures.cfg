SPECIFICATION FairSpec
CONSTANTS
  Session = {s1, s2}
  Table = {1, 2}
  Key = {k1}
  Value = {v1}
  Absent = Absent
  Nobody = Nobody
  Kinds = {"write", "define"}
  MayFail = {"statement", "undo", "flush", "busy", "evict"}
  MaxChanges = 1
INVARIANT NoLockIsLeaked
PROPERTIES
  CommitIsOnDisk
  EveryStatementEnds
