\* Every queued order leaves the queue.
SPECIFICATION FairSpec
CONSTANTS
  ClientOrderIds = {}
  w1 = w1
  w2 = w2
  p1 = p1
  p2 = p2
  Versions = {v1}
  LinesOk = {v1}
  Complete = {v1}
  Null = Null
  Undefined = Undefined
  Orders = {o1}
  Clients = {c1}
  Workers = {w1, w2}
  Processes = {p1, p2}
  ProcessOf <- TwoProcesses
  Connected = {p1, p2}
  ReferencesOf <- OneReference
  OnecStatuses = {"CONFIRMED"}
  MaxClientRevision = 1
  MaxRequests = 4
  MaxFaults = 1
  EnabledOps = {"create", "update", "submit", "cancel"}
PROPERTIES QueueDrains
CHECK_DEADLOCK FALSE
