\* The catalogue of 1C: promotes, races of one session, a client that follows.
SPECIFICATION MCSpec
CONSTANTS
  Batches <- BatchesDef
  Items <- ItemsDef
  Ordered = {"c"}
  Selections <- SelectionsDef
  Sessions = {"s1", "s2"}
  Requests = {"r1", "r2"}
  None = None
  MaxBatches = 2
  MaxCompletes = 2
  MaxCrashes = 1
  ProductOrder <- ProductsDef
  PageSize = 1
  MaxReads = 3
  MaxPrunes = 1
INVARIANTS ClosedSessionIsNotBlocked CaughtUpClientIsRight
PROPERTY PromoteIsExact
CHECK_DEADLOCK FALSE
