SPECIFICATION EitherSpec
CONSTANTS
  Attempts = {1, 2, 3}
  Ghosts = {3}
  NoRecord = NoRecord
  MaxTicket = 2
  MayCrash = {1, 2}
  ProbeMayFail = TRUE
INVARIANTS TypeOK MutualExclusion CertainRecordKept
PROPERTIES LiveClaimsKept CertainAttemptsEnd
CHECK_DEADLOCK FALSE
