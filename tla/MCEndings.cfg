SPECIFICATION EndingsSpec
CONSTANTS
  Transaction = {t1, t2, t3}
  Resource = {r1, r2}
  Narrow = {r1}
  Id = {i1, i2}
  Thread = {h1, h2}
  Slot = {p1, p2}
  NoSlot = NoSlot
CHECK_DEADLOCK FALSE
PROPERTIES
  EveryWaitEnds
  ForgottenSessionsEnd
