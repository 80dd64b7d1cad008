SPECIFICATION Spec
CONSTANTS
  m1 = m1
  m2 = m2
  r1 = r1
  p1 = p1
  p2 = p2
  b1 = b1
  b2 = b2
  Ids = {m1, m2}
  Recipients = {r1}
  To <- MCTo
  LocalAgents = {r1}
  IdleAgents = {r1}
  Placements <- MCPlacements
  Rosters <- MCRosters
  Procs = {p1, p2}
  Brokers = {b1, b2}
  HandoffBrokers = {b1}
  DeliveryRetention = 1
  DeadLetterRetention = 1
  Nobody = Nobody
  NoClaim = NoClaim
  MaxSequence = 3
  MaxIncidents = 1
INVARIANTS TypeOK FileKept
PROPERTIES ImplementsMailboxes OperationsEnd
