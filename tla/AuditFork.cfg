SPECIFICATION Spec
CONSTANTS
  Components = {"ledger"}
  MaxRecords = 3
  Named <- FirstTwo
  MaxBatch = 2
  UseWorker = TRUE
  MaxMeters = 1
  MaxCloses = 2
  MaxCalls = 4
  p1 = p1
  p2 = p2
  Procs = {p1, p2}
  Pollers = {p1}
  Earlier = 1
  MaxEvents = 4
  MaxTogether = 1
  Window = 1
  Slack = 1
  AnchorEvery = 2
  MaxFaults = 1
  Nobody = Nobody
INVARIANT AnchorProven
CHECK_DEADLOCK FALSE
