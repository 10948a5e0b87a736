SPECIFICATION Spec
CONSTANTS
  octets = octets
  packets = packets
  alarms = alarms
  NRows = 4
  Bits <- MixedBits
  Table <- MixedTables
  Speed <- MixedSpeeds
  Word = 2
  Wide = 4
  MaxErrors = 2
  MaxTables = 2
  Interval = 2
  MaxGrowth = 2
  MaxTime = 4
CHECK_DEADLOCK FALSE
INVARIANTS
  TypeOK
  DifferenceExact
  OneInsertPerTable
  DeadHostSkipped
PROPERTIES
  OneRoundPerInterval
