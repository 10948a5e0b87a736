SPECIFICATION Spec
CONSTANTS
  Files <- MCFiles
  Intervals = {0, 2}
  Texts = {"a", "b", "f", "g", "h", "t", "u"}
  NoTable = "NULL"
  NoName = "none"
  TenGigabits = 4000
  InitialSpace = 2
INVARIANTS
  AppendsFit
  NoDuplicateRows
  TargetsCounted
  ReadsBlocks
  ReadsTable
