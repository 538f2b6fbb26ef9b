SPECIFICATION Spec
CONSTANTS
  Id = {i1, i2}
  Thread = {h1, h2, h3}
  Slot = {p1, p2, p3, p4}
  NoSlot = NoSlot
SYMMETRY Symmetry
CHECK_DEADLOCK FALSE
INVARIANTS
  TypeOK
  NoOrphanTransaction
  ClosedAlone
  EngineClosesLast
