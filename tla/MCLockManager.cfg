SPECIFICATION MCSpec
CONSTANTS
  a = a
  b = b
  t1 = t1
  t2 = t2
  t3 = t3
  t4 = t4
  Transaction = {t1, t2, t3, t4}
  Resource = {a, b}
  Place <- MCPlace
SYMMETRY Symmetry
INVARIANTS
  TypeOK
  CompatibleHolders
  NoUndetectedDeadlock
  VictimHoldsSomething
  TurnsOrderTheQueue
  NoLostWakeup
  StatementsNeverDeadlock
PROPERTIES
  NoOvertaking
  ImplementsLockTable
