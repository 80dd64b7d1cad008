SPECIFICATION FairSpec
CONSTANTS
  a1 = a1
  a2 = a2
  MaxTasks = 3
  Lanes = {a1, a2}
  Calls <- ControlToo
  ExclusiveChain = ExclusiveChain
  ReadLimit = 1
  WriteLimit = 1
  Serial = FALSE
INVARIANTS TypeOK PermitsExact OrderKept
PROPERTIES ImplementsOrderedDispatch CallsAnswered
CHECK_DEADLOCK FALSE
