\* A report to 1C fails after its call has given the row back.
SPECIFICATION Spec
CONSTANTS
  t1 = t1
  t2 = t2
  r1 = r1
  Null = Null
  Tokens = {t1}
  RealizationOf <- OneVersion
  Syncs = {s1}
  Calls = {p1, p2}
  EligibleSets <- Reachable
  MaxChanges = 2
  MaxSyncs = 1
  MaxFaults = 1
INVARIANTS RetryNeverDuplicates
CHECK_DEADLOCK FALSE
