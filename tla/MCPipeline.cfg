SPECIFICATION Spec
CONSTANTS
  Pollers = {p1, p2}
  Writers = {w1, w2}
  Inserts = {i1, i2, i3}
  NoInsert = NoInsert
  Size = 1
  MaxBatch = 2
  CommitInterval = 2
  QueryErrors = TRUE
  MaxRestarts = 0
SYMMETRY ThreadSymmetry
INVARIANTS
  TypeOK
  SingleOwner
  TransactionBounded
  IdleCommitted
