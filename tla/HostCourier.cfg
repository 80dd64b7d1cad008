SPECIFICATION FairSpec
CONSTANTS
  Messages = {m1, m2}
  Notices = {}
  Requests = {}
  EventDrivers = {TRUE, FALSE}
  MaxHeld = 2
  BatchSize = 1
  Attempts = 2
  MaxTurn = 7
  Limit <- CourierLimit
INVARIANTS TypeOK HandedOnce NothingLostSilently
PROPERTY CourierProgress
CHECK_DEADLOCK FALSE
