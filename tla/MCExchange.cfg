\* Two processes export one order while its manager changes it and 1C pulls, acknowledges and reports.
SPECIFICATION Spec
CONSTANTS
  ClientOrderIds = {}
  w1 = w1
  w2 = w2
  p1 = p1
  p2 = p2
  Versions = {v1}
  LinesOk = {v1}
  Complete = {v1}
  Null = Null
  Undefined = Undefined
  Orders = {o1}
  Clients = {c1}
  Workers = {w1, w2}
  Processes = {p1, p2}
  ProcessOf <- TwoProcesses
  Connected = {p1, p2}
  ReferencesOf <- OneReference
  OnecStatuses = {"CONFIRMED"}
  MaxClientRevision = 1
  MaxRequests = 4
  MaxFaults = 1
  EnabledOps = {"create", "update", "submit", "cancel", "restore", "delete", "pull", "ack", "ackError", "status", "snapshot", "reconcile"}
SYMMETRY SwapProcesses
INVARIANTS TypeOK SentMeansSaved PushExclusive PullSkipsPushedOrders
CHECK_DEADLOCK FALSE
