SPECIFICATION FairSpec
CONSTANTS
  Pollers = {p1}
  Writers = {w1}
  Inserts = {i1, i2, i3}
  NoInsert = NoInsert
  Size = 2
  MaxBatch = 1
  CommitInterval = 2
  QueryErrors = FALSE
  MaxRestarts = 1
PROPERTIES
  QueueDrains
  StopEndsPipeline
