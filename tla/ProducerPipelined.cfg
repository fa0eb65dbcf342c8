CONSTANTS
  c1 = c1
  c2 = c2
  Size <- MCSize
  Callers = {c1, c2}
  MaxReqs = 4
  BufferLimit = 2
  OnWireLimit = 2
  MaxBatchSize = 2
  MaxRetries = 1
  Lingering = TRUE
  MaxLingerCount = 2
  MaxConns = 2
  MaxFaults = 1
  MaxRestarts = 0
  BrokerErrors = {"retriable"}
  MayStop = TRUE
SPECIFICATION Spec
SYMMETRY Symmetry
CHECK_DEADLOCK FALSE
INVARIANTS
  NoLostWakeup
  AcksPointIntoLog
  ClosedFormsAreTheLoops
