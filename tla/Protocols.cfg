SPECIFICATION Spec
CONSTANTS
  n1 = n1
  n2 = n2
  t1 = t1
  r1 = r1
  r2 = r2
  p1 = p1
  p2 = p2
  s1 = s1
  s2 = s2
  v1 = v1
  v2 = v2
  c1 = c1
  c2 = c2
  g1 = g1
  a1 = a1
  Nodes = {n1, n2}
  Tasks = {t1}
  Assignments <- MCAssignments
  Budgets = {2, NoBudget}
  NoBudget = NoBudget
  MaxStamp = 1
  MaxFailures = 1
  MaxEvents = 3
  MaxHolds = 2
  Records = {r1, r2}
  Misdiscarded = {r2}
  Procs = {p1, p2}
  NoFile = NoFile
  NoRecord = NoRecord
  MaxFilings = 3
  Scopes = {s1, s2}
  Bytes = {v1, v2}
  Files <- MCFiles
  Patches <- MCPatches
  Absent = Absent
  NotEstablished = NotEstablished
  MaxLength = 3
  MaxReads = 2
  None = None
  Calls = {c1, c2}
  Arguments = {v1, v2}
  Approvable = {v1}
  Grants = {g1}
  Authorizations = {a1}
  Requests <- MCRequests
  Policies <- MCPolicies
  NoRow = NoRow
  MaxTime = 1
  MaxChanges = 1
CHECK_DEADLOCK FALSE
INVARIANTS TypeOK TurnsOnRecord EventsInOrder
PROPERTIES SpoolKept ObservationsKept EverythingSettles ApprovalsHold
