CONSTANTS
  c1 = c1
  c2 = c2
  Callers = {c1, c2}
  Ops <- MCOps
  NumPartitions = 1
  AutoStart = TRUE
  MaxOps = 3
  MaxFaults = 1
SPECIFICATION FairSpec
CHECK_DEADLOCK FALSE
INVARIANTS
  TypeOK
  LiveProducersAreKnown
  FastCallerIsServed
PROPERTIES
  StopMeansGone
  EveryCallReturns
  ProducersComeBack
  AllEndsWithTheClient
