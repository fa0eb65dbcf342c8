CONSTANTS
  Conns = {p1}
  MqttTopics = {"data", "other", "$SYS/x"}
  SysTopics = {"$SYS/x"}
  Files <- MCFiles
  OsEnvs <- MCOsEnvs
  Addresses = {"a", "b"}
  MaxStarts = 2
  MaxOutages = 2
  MaxEvents = 1
SPECIFICATION FairSpec
CHECK_DEADLOCK FALSE
CONSTANT p1 = p1
INVARIANTS
  TypeOK
  HookedOnlyWhenReady
  ProducersFoundUnlessLost
PROPERTIES
  StartAndStopEnd
  ClientComesBack
