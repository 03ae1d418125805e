\* Who is signed in and verified, reminders come and caches catch up.
SPECIFICATION MCSpec
CONSTANTS
  u1 = u1
  u2 = u2
  tg = tg
  tg2 = tg2
  max = max
  p1 = p1
  p2 = p2
  Null = Null
  Users = {u1, u2}
  Accounts = {tg, tg2, max}
  ProviderOf <- MCProviderOf
  Phones = {p1, p2}
  QrSessions = {q1}
  PhoneSessions = {1}
  Requests = {r1, r2}
  InitialUsers <- MCInitialUsers
  MaxRequests = 3
  MaxFaults = 1
  author = author
  manager = manager
  d1 = d1
  d2 = d2
  NoValue = NoValue
  Members = {author, manager}
  Departments = {d1, d2}
  Admins = {}
  ManagerOf <- MCManagerOf
  EmployeeOf <- MCEmployeeOf
  Deadlines = {t1}
  Slots = {s1, s2}
  MaxAppeals = 1
  MaxServed = 3
  MaxFailures = 1
  Ids = {code1}
  Owner = owner
  Admin = admin
  Editors = {e1, e2}
  Viewers = {b1}
  NoRow = NoRow
  MaxEdits = 2
INVARIANTS SignedInByScanner PhoneVerifiedByContact UnreadMessageHasReminder
PROPERTIES MaxAccountsKeepTheirUser ReminderComes CachesCatchUp
CHECK_DEADLOCK FALSE
