SPECIFICATION PrintingSpec
CONSTANTS
  Pollers = {p1, p2}
  Writers = {w1}
  Inserts = {i1, i2}
  NoInsert = NoInsert
  Size = 1
  MaxBatch = 2
  CommitInterval = 1
  NHosts = 1
  NoHost = NoHost
  MaxSignals = 1
  StatisticsCap = 0
  PromptScheduling = TRUE
  SpuriousWakeups = FALSE
SYMMETRY Symmetry
CHECK_DEADLOCK FALSE
INVARIANTS
  NothingHeld
  ActiveInEveryLife
  EveryQueryReported
PROPERTIES
  OneRoundPerInterval
