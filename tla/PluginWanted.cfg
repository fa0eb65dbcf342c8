CONSTANTS
  Conns = {p1}
  MqttTopics = {"data", "other", "$SYS/x"}
  SysTopics = {"$SYS/x"}
  Files <- NoFile
  OsEnvs <- MCOsEnvs
  Addresses = {"a", "b"}
  MaxStarts = 1
  MaxOutages = 0
  MaxEvents = 2
SPECIFICATION Spec
CHECK_DEADLOCK FALSE
CONSTANT p1 = p1
INVARIANT WantedIsForwarded
