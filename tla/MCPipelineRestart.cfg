SPECIFICATION Spec
CONSTANTS
  Pollers = {p1}
  Writers = {w1}
  Inserts = {i1, i2}
  NoInsert = NoInsert
  Size = 2
  MaxBatch = 2
  CommitInterval = 2
  QueryErrors = FALSE
  MaxRestarts = 1
INVARIANTS
  NoLoss
