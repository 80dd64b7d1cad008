SPECIFICATION Spec
CONSTANTS
  Messages = {m1, m2}
  Notices = {}
  Requests = {r1, r2}
  EventDrivers = {TRUE, FALSE}
  MaxHeld = 2
  BatchSize = 1
  Attempts = 3
  MaxTurn = 4
  Limit <- ControlLimit
INVARIANT TurnsKnown
PROPERTIES SteeringKept HoldsKept
CHECK_DEADLOCK FALSE
SYMMETRY Interchangeable
