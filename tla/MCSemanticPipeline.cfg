SPECIFICATION Spec
CONSTANTS
  Notes = {n1}
  Workers = {w1, w2}
  Nil = Nil
  Chunks <- MCChunks
  EmbedSlots = 1
  SummarySlots = 1
  MaxAttempts = 2
  SweepMax = 1
  MaxSubmits = 3
  MaxSweeps = 1
INVARIANTS
  TypeOK
  LastBodyIndexed
  DeletedNotSearchable
PROPERTIES
  WorkEnds
CHECK_DEADLOCK FALSE
