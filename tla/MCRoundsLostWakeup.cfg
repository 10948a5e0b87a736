SPECIFICATION FairSpec
CONSTANTS
  Pollers = {p1, p2}
  NHosts = 1
  NoHost = NoHost
  MaxSignals = 1
  StatisticsCap = 2
  PromptScheduling = TRUE
  SpuriousWakeups = FALSE
CHECK_DEADLOCK FALSE
PROPERTIES
  StopEndsThreads
