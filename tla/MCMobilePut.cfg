\* Mobile PUTs and their retries against the other handlers, exported by the worker of a process without Redis.
SPECIFICATION Spec
CONSTANTS
  ClientOrderIds = {k1}
  w1 = w1
  w2 = w2
  p1 = p1
  p2 = p2
  Versions = {v1, v2}
  LinesOk = {v1, v2}
  Complete = {v1}
  Null = Null
  Undefined = Undefined
  Orders = {o1, o2}
  Clients = {c1, c2}
  Workers = {w1}
  Processes = {p1}
  ProcessOf <- OneRun
  Connected = {}
  ReferencesOf <- OneReference
  OnecStatuses = {"CONFIRMED"}
  MaxClientRevision = 2
  MaxRequests = 3
  MaxFaults = 1
  EnabledOps = {"put", "copy", "update", "unqueue", "retry", "delete"}
SYMMETRY MCSymmetry
INVARIANT CreateNeverCollides
PROPERTY ClientVersionNeverRolledBack
CHECK_DEADLOCK FALSE
