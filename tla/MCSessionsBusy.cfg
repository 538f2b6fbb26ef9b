SPECIFICATION Spec
CONSTANTS
  Session = {s1, s2}
  Table = {1, 2}
  Key = {k1}
  Value = {v1}
  Absent = Absent
  Nobody = Nobody
  Kinds = {"read", "write", "define", "inspect"}
  MayFail = {"busy"}
  MaxChanges = 1
PROPERTY RollbackUndoesEverything
