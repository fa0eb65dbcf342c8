CONSTANTS
  c1 = c1
  c2 = c2
  Callers = {c1}
  Ops <- MCOpsAlone
  NumPartitions = 1
  AutoStart = FALSE
  MaxOps = 3
  MaxFaults = 1
SPECIFICATION Spec
CHECK_DEADLOCK FALSE
INVARIANTS
  StartedIsSupervised
