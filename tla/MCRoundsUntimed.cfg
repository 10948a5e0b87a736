SPECIFICATION Spec
CONSTANTS
  Pollers = {p1, p2}
  NHosts = 3
  NoHost = NoHost
  MaxSignals = 2
  StatisticsCap = 4
  PromptScheduling = FALSE
  SpuriousWakeups = TRUE
INVARIANTS
  ActiveCount
PROPERTIES
  AtMostOncePerRound
