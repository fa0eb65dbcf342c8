CONSTANTS
  c1 = c1
  c2 = c2
  Size <- MCSize
  Callers = {c1, c2}
  MaxReqs = 2
  BufferLimit = 2
  OnWireLimit = 2
  MaxBatchSize = 1
  MaxRetries <- Forever
  Lingering = FALSE
  MaxLingerCount = 0
  MaxConns = 2
  MaxFaults = 2
  MaxRestarts = 0
  BrokerErrors = {"retriable"}
  MayStop = FALSE
SPECIFICATION Spec
SYMMETRY Symmetry
CHECK_DEADLOCK FALSE
INVARIANTS
  RetriesIndefinitely
