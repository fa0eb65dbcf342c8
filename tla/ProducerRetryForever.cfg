CONSTANTS
  c1 = c1
  c2 = c2
  Size <- MCSize
  Callers = {c1, c2}
  MaxReqs = 2
  BufferLimit = 2
  OnWireLimit = 1
  MaxBatchSize = 2
  MaxRetries <- Forever
  Lingering = TRUE
  MaxLingerCount = 2
  MaxConns = 3
  MaxFaults = 2
  MaxRestarts = 0
  BrokerErrors = {"retriable", "retriable_appended"}
  MayStop = FALSE
SPECIFICATION FairSpec
CHECK_DEADLOCK FALSE
PROPERTIES
  EveryRequestLogged
