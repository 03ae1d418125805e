\* Who a user is: tokens, credentials and profiles, one at a time.
SPECIFICATION MCSpec
CONSTANTS
  Null = Null
  Users = {u1, u2}
  Installs = {i1}
  Sessions = {s1}
  Tokens = {t1, t2, t3}
  Requests = {r1, r2}
  NoEmail = NoEmail
  Emails = {u1, u2}
  MaxTries = 2
  MaxFailed = 2
  Window = 2
  Clients = {r1, r2}
  MaxTickets = 2
  MaxEntries = 4
  None = None
  d1 = d1
  d2 = d2
  cp1 = cp1
  cp2 = cp2
  a1 = a1
  a2 = a2
  k1 = k1
  k2 = k2
  w1 = w1
  w2 = w2
  ad1 = ad1
  People = {person1}
  Departments = {d1, d2}
  Counterparties = {cp1, cp2}
  Agreements = {a1, a2}
  Contracts = {k1, k2}
  Addresses = {ad1}
  Warehouses = {w1, w2}
  AgreementOf <- MCAgreementOf
  ContractOwner <- MCContractOwner
  AddressOwner <- MCAddressOwner
  ClientRequests <- MCClientRequests
  Handlers = {r1, r2}
  MaxCalls = 3
SYMMETRY MCSymmetry
INVARIANTS
  SessionOfItsUser OneLivePerFamily UsedHasSuccessor RivalsAreNotDenied
  EmailIsProved GuessesAreLimited ProfilesAgree
PROPERTIES LogoutWins FamilySpec
CHECK_DEADLOCK FALSE
