\* Two updates of one order overlap.
SPECIFICATION Spec
CONSTANTS
  ClientOrderIds = {}
  w1 = w1
  w2 = w2
  p1 = p1
  p2 = p2
  Versions = {v1, v2}
  LinesOk = {v1, v2}
  Complete = {v1}
  Null = Null
  Undefined = Undefined
  Orders = {o1}
  Clients = {c1, c2}
  Workers = {}
  Processes = {p1}
  ProcessOf <- NoRuns
  Connected = {p1}
  ReferencesOf <- OneReference
  OnecStatuses = {"CONFIRMED"}
  MaxClientRevision = 1
  MaxRequests = 3
  MaxFaults = 0
  EnabledOps = {"create", "update"}
PROPERTIES RevisionNamesLines
CHECK_DEADLOCK FALSE
