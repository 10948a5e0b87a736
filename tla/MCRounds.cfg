SPECIFICATION FairSpec
CONSTANTS
  Pollers = {p1, p2, p3}
  NHosts = 2
  NoHost = NoHost
  MaxSignals = 1
  StatisticsCap = 3
  PromptScheduling = TRUE
  SpuriousWakeups = FALSE
CHECK_DEADLOCK FALSE
INVARIANTS
  TypeOK
  HostExclusive
PROPERTIES
  HostRoundsSpec
  ReportComplete
  NothingSwallowed
  HostsKeepBeingPolled
  StopSettles
