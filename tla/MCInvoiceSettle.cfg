\* Every version settles.
SPECIFICATION FairSpec
CONSTANTS
  t1 = t1
  t2 = t2
  r1 = r1
  Null = Null
  Tokens = {t1, t2}
  RealizationOf <- TwoVersions
  Syncs = {s1}
  Calls = {p1}
  EligibleSets <- AnyReach
  MaxChanges = 2
  MaxSyncs = 2
  MaxFaults = 1
INVARIANTS SentMeansAccepted
PROPERTIES InvoicesSettle
CHECK_DEADLOCK FALSE
