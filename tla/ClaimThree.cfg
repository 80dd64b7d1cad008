SPECIFICATION RaceSpec
CONSTANTS
  Attempts = {1, 2, 3, 4}
  Ghosts = {4}
  NoRecord = NoRecord
  MaxTicket = 4
  MayCrash = {}
  ProbeMayFail = FALSE
INVARIANT MutualExclusion
CHECK_DEADLOCK FALSE
