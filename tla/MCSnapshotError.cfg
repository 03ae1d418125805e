\* A snapshot names an unknown product.
SPECIFICATION Spec
CONSTANTS
  ClientOrderIds = {}
  w1 = w1
  w2 = w2
  p1 = p1
  p2 = p2
  Versions = {v1}
  LinesOk = {v1}
  Complete = {v1}
  Null = Null
  Undefined = Undefined
  Orders = {o1}
  Clients = {c1}
  Workers = {w1}
  Processes = {p1}
  ProcessOf <- OneRun
  Connected = {p1}
  ReferencesOf <- OneReference
  OnecStatuses = {"CONFIRMED"}
  MaxClientRevision = 1
  MaxRequests = 3
  MaxFaults = 0
  EnabledOps = {"create", "submit", "snapshot"}
INVARIANTS RejectedSnapshotKeepsLines
CHECK_DEADLOCK FALSE
