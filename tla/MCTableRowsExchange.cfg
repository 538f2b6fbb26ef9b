SPECIFICATION CalmSpec
CONSTANTS
  Row <- MCRow
  Batches <- MCBatches
  Transforms <- MCTransforms
  RowLimit = 3
  RefLimit = 1
  LogLimit = 2
INVARIANT UndoRestoresRows
CHECK_DEADLOCK FALSE
