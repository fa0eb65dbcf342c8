CONSTANTS
  producer = producer
  client1 = client1
  Callers = {producer, client1}
  Modes <- MCModes
  MaxReqs = 2
  CorrIds = 2
  FirstIds = {1}
  Timeout = 2
  Minute = 1
  Lag = 1
  MaxJumps = 1
  JumpBy = 1
SPECIFICATION FairSpec
CHECK_DEADLOCK FALSE
INVARIANTS
  TypeOK
  AnswersMeetTheirRequests
  ForwardedInOrder
  AgesAreWatched
PROPERTIES
  ImplementsChannel
  EverythingSettles
