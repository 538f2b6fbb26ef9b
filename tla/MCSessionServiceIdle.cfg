SPECIFICATION BusySpec
CONSTANTS
  Id = {i1, i2}
  Thread = {h1, h2}
  Slot = {p1, p2, p3}
  NoSlot = NoSlot
CHECK_DEADLOCK FALSE
PROPERTY IdleSessionsAreClosed
