\* The parts of the server, one at a time.
SPECIFICATION MCSpec
CONSTANTS
  Null = Null
  t1 = t1
  t2 = t2
  realization = realization
  Tokens = {t1, t2}
  RealizationOf <- MCRealizationOf
  Syncs = {s1}
  Calls = {x1, x2}
  EligibleSets <- MCEligibleSets
  MaxChanges = 2
  MaxSyncs = 1
  MaxFaults = 1
  x1 = x1
  x2 = x2
  NoRole = NoRole
  userRole = userRole
  manager = manager
  read = read
  write = write
  Role = {userRole, manager, third}
  System = {userRole, manager}
  UserRole = userRole
  Permission = {read, write}
  Seeded <- MCSeeded
  Bodies = {{write}, {read, write}}
  Person = {u1}
  Group = {core, extra}
  Core = core
  AdminCalls = {x1, x2}
  MaxAdminRequests = 3
  NoDept = NoDept
  clerk = clerk
  staff = staff
  sales = sales
  stock = stock
  Depts = {sales, stock}
  JobRoles = {clerk, staff}
  JobParent <- MCJobParent
  Situations <- MCSituations
  RuleBodies <- MCRuleBodies
  Editors = {x1, x2}
  MaxEdits = 2
  NoRelease = NoRelease
  Releases = {r1, r2}
  Versions = {1, 2}
  Apks = {f1, f2}
  Loads = {x1, x2}
  Operators = {x1, x2}
  MaxOrders = 2
  NoUpdate = NoUpdate
  Updates = {o1, o2}
  Phones = {ph1}
  Identified = {ph1}
  Hashes <- MCHashes
  Rollouts = {50, 100}
  AskedNumbers = {0, 1}
  Publishers = {x1, x2}
  MaxPublished = 3
  c1 = c1
  c2 = c2
  a0 = a0
  a1 = a1
  k1 = k1
  k2 = k2
  w1 = w1
  w2 = w2
  p1 = p1
  p2 = p2
  d1 = d1
  d2 = d2
  NoRef = NoRef
  Absent = Absent
  Counterparties = {c1, c2}
  Agreements = {a0, a1}
  Contracts = {k1, k2}
  Warehouses = {w1, w2}
  PriceTypes = {p1, p2}
  Addresses = {d1, d2}
  AgreementTerms <- MCAgreementTerms
  OwnerOf <- MCOwnerOf
  ContextBodies <- MCContextBodies
  OrderBodies <- MCOrderBodies
  ManagerBodies <- MCManagerBodies
  Specials <- MCSpecials
  Listed <- MCListed
  Closable = {c1, a1}
  Sessions = {x1, x2}
  Today = 2
  MaxClosings = 1
  MaxRequests = 3
  OrderIds = {order1, order2}
  Requests <- MCLineRequests
  GeneralPcts = {NoRef, 10}
  OrderPt = p1
  MaxSaves = 3
  Readers = {x1, x2}
  Ttl = 2
  StaleFor = 4
  CircuitTtl = 1
  FallbackTtl = 4
  Cooldown = 1
  MaxTime = 6
  Nothing = Nothing
  MaxPinned = 2
  MaxSent = 1
  MaxDocuments = 4
  Limits = {1, 2, 3}
  ScanFactor = 5
  ScanLimit = 300
  Workers = {w1}
  MaxHours = 1
  MaxRate = 1
  DepartmentRates = {0, 1}
  PaymentRequired = TRUE
  Callers = {x1, x2}
  None = None
  MaxCalls = 3
  Points = {1, 2, 3}
  WithId = {1, 2}
  Batches <- MCBatches
  RecordedAt <- MCRecordedAt
  Place <- MCPlace
  IsStop <- MCIsStop
  Accurate <- MCAccurate
  Times = {2}
  Alive = 3
  Moving = 2
  Installs = {i1}
  Devices = {x1, x2}
  MaxRoutes = 2
  MaxTokens = 2
  MaxUploads = 3
SYMMETRY MCSymmetry
INVARIANTS
  DocumentSentOnce AccessIsDecided
   ActiveUpdatesAreServed TermsStayTogether QueuedOrdersArePriced
  AnswersAreRecent ScrollShowsAll AuditMatchesEntries TrackIsSound
PROPERTIES RolesAreSound PhoneSettles
CHECK_DEADLOCK FALSE
