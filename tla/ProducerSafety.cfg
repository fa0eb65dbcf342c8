CONSTANTS
  c1 = c1
  c2 = c2
  Size <- MCSize
  Callers = {c1, c2}
  MaxReqs = 4
  BufferLimit = 1
  OnWireLimit = 1
  MaxBatchSize = 2
  MaxRetries = 1
  Lingering = FALSE
  MaxLingerCount = 0
  MaxConns = 2
  MaxFaults = 2
  MaxRestarts = 1
  BrokerErrors = {"retriable", "retriable_appended", "fatal"}
  MayStop = FALSE
SPECIFICATION Spec
SYMMETRY Symmetry
CHECK_DEADLOCK FALSE
INVARIANTS
  TypeOK
  NothingLostOrReordered
  AnsweredOnce
  BlockedOnlyWhenFull
  CountersAgree
  RetriesBounded
  AnswersMatchTheWire
  NoDuplicateWithoutFault
PROPERTIES
  ImplementsPipe
