SPECIFICATION Spec
CONSTANTS
  Messages = {m1, m2}
  Notices = {n1}
  Requests = {}
  EventDrivers = {FALSE}
  MaxHeld = 2
  BatchSize = 1
  Attempts = 2
  MaxTurn = 5
  Limit <- NeverAtAll
INVARIANT NothingLostSilently
CHECK_DEADLOCK FALSE
