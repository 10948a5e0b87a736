SPECIFICATION FairSpec
CONSTANTS
  db = db
  h1 = h1
  h2 = h2
  o1 = o1
  o2 = o2
  Hosts = {h1, h2}
  Oids = {o1, o2}
  Files <- FilesUsed
  ConfFiles <- ConfFilesUsed
  Options <- OptionsUsed
  Numbers = {0, 8, 60, 300}
  Names = {db}
  Absent = Absent
  NoConfig = NoConfig
  NoTargets = NoTargets
  MaxPolls = 2
  MaxSignals = 2
INVARIANTS
  TypeOK
  ThreadsUseLiveObjects
  ConfigAsWritten
PROPERTIES
  CacheSurvivesReload
  StopWhileRunningEnds
