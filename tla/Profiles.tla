------------------------------ MODULE Profiles ------------------------------
(***************************************************************************)
(* The profiles of a user (routes/users.ts): client, supplier and employee *)
(* profiles and their statuses, the profile the user works in, the primary *)
(* and the active department of an employee, the moderation of employees   *)
(* and the administrators' edits of all of these.                          *)
(*                                                                         *)
(* A handler reads rows and later writes others by the user's id; only the *)
(* moderation does so in a transaction, and there too two requests may     *)
(* read the same rows.  Requests that are refused change nothing unless a  *)
(* step says so.                                                           *)
(***************************************************************************)
EXTENDS Naturals, FiniteSets

CONSTANTS
  None,
  People,          \* users
  Departments,     \* rows of Department
  Counterparties, Agreements, Contracts, Addresses, Warehouses,
  AgreementOf,     \* [Agreements -> [counterparty, contract, warehouse]], None where empty
  ContractOwner,   \* [Contracts -> Counterparties]
  AddressOwner,    \* [Addresses -> Counterparties \cup {None}]
  ClientRequests,  \* bodies of POST /profiles/client
  Handlers,           \* requests served at the same time
  MaxCalls         \* bound on the requests

VARIABLES
  profile,     \* status of each profile of a user, None where there is no profile
  working,     \* User.currentProfileType
  roleOf,      \* the user's role: "user", "employee" or another one
  primary,     \* EmployeeProfile.departmentId
  active,      \* EmployeeProfile.activeDepartmentId
  manager,     \* DepartmentRole rows: <<user, department>>
  terms,       \* the references of the client profile
  spare,       \* addresses that belong to no profile
  handling,        \* the requests in progress
  calls,
  decided,     \* history: the last moderation, until somebody edits status or role
  overlapped   \* history: a request wrote by rows another had changed since

profiles == <<profile, working, roleOf, primary, active, manager, terms, spare,
              handling, calls, decided, overlapped>>

ProfileTypes == {"CLIENT", "SUPPLIER", "EMPLOYEE"}
Statuses == {"PENDING", "ACTIVE", "BLOCKED"}
Free == [pc |-> "idle"]
NoTerms == [counterparty |-> None, agreement |-> None, contract |-> None,
            warehouse |-> None, address |-> None]

Maybe(S) == S \cup {None}
Terms ==
  [counterparty: Maybe(Counterparties), agreement: Maybe(Agreements), contract: Maybe(Contracts),
   warehouse: Maybe(Warehouses), address: Maybe(Addresses)]

ASSUME ReferencesAssumption ==
  /\ AgreementOf \in [Agreements -> [counterparty: Maybe(Counterparties), contract: Maybe(Contracts),
                                     warehouse: Maybe(Warehouses)]]
  /\ ContractOwner \in [Contracts -> Counterparties]
  /\ AddressOwner \in [Addresses -> Maybe(Counterparties)]
  /\ ClientRequests \subseteq Terms
ASSUME NoneAssumption ==
  /\ None \notin Departments \cup Counterparties \cup Agreements \cup Contracts \cup Addresses \cup Warehouses
  /\ None \notin ProfileTypes \cup Statuses \cup {"APPROVE", "REJECT"}

ProfilesInit ==
  /\ profile = [u \in People |-> [t \in ProfileTypes |-> None]]
  /\ working = [u \in People |-> None] /\ roleOf = [u \in People |-> "user"]
  /\ primary = [u \in People |-> None] /\ active = [u \in People |-> None]
  /\ manager = {} /\ terms = [u \in People |-> NoTerms] /\ spare = 0
  /\ handling = [c \in Handlers |-> Free] /\ calls = 0
  /\ decided = [u \in People |-> None] /\ overlapped = FALSE

IsEmployee(u) == profile[u]["EMPLOYEE"] # None

\* What a handler that writes the employee's rows may have read.
ProfileRows(u) == <<profile[u], working[u], roleOf[u], primary[u], active[u],
             {d \in Departments : <<u, d>> \in manager}>>

Handle(c, record) ==
  /\ handling[c] = Free /\ calls < MaxCalls /\ calls' = calls + 1
  /\ handling' = [handling EXCEPT ![c] = record]
MoveTo(c, pc) == handling' = [handling EXCEPT ![c].pc = pc]
End(c) == handling' = [handling EXCEPT ![c] = Free]
Overlaps(c) == overlapped' = (overlapped \/ ProfileRows(handling[c].u) # handling[c].rows)
Direct == calls < MaxCalls /\ calls' = calls + 1 /\ UNCHANGED handling

\* The references of a client profile: what was asked for, completed from the agreement (the
\* price type follows the rule of the warehouse).
AgreementTerms(q) ==
  IF q.agreement = None THEN [counterparty |-> None, contract |-> None, warehouse |-> None]
  ELSE AgreementOf[q.agreement]
\* The counterparties a request names, one way or another.
NamedOwners(q) ==
  {q.counterparty, AgreementTerms(q).counterparty,
   IF q.contract = None THEN None ELSE ContractOwner[q.contract],
   IF q.address = None THEN None ELSE AddressOwner[q.address]} \ {None}
Fits(asked, agreed) == asked = None \/ agreed = None \/ asked = agreed
TermsRefused(q) ==
  \/ Cardinality(NamedOwners(q)) > 1
  \/ ~Fits(q.contract, AgreementTerms(q).contract)
  \/ ~Fits(q.warehouse, AgreementTerms(q).warehouse)
Else(x, y) == IF x # None THEN x ELSE y
ResolvedTerms(q) ==
  [q EXCEPT !.counterparty = IF NamedOwners(q) = {} THEN None ELSE CHOOSE o \in NamedOwners(q) : TRUE,
            !.contract = Else(@, AgreementTerms(q).contract),
            !.warehouse = Else(@, AgreementTerms(q).warehouse)]

\* POST /profiles/client, /profiles/supplier: no profile yet; the address row is created at once.
BeginProfile(c, u, t, q, addressed) ==
  /\ profile[u][t] = None
  /\ Handle(c, [pc |-> "create", u |-> u, t |-> t, q |-> q, d |-> None, addressed |-> addressed])
  /\ spare' = IF addressed THEN spare + 1 ELSE spare
  /\ UNCHANGED <<profile, working, roleOf, primary, active, manager, terms, decided, overlapped>>

\* POST /profiles/employee asks for a department instead.
BeginEmployee(c, u, d) ==
  /\ ~IsEmployee(u)
  /\ Handle(c, [pc |-> "create", u |-> u, t |-> "EMPLOYEE", q |-> NoTerms, d |-> d, addressed |-> FALSE])
  /\ UNCHANGED <<profile, working, roleOf, primary, active, manager, terms, spare, decided, overlapped>>

\* The row is created, or refused: by the checks of the references or as a second one of the user.
CreateProfile(c) ==
  LET x == handling[c] IN
  /\ x.pc = "create"
  /\ IF profile[x.u][x.t] # None \/ TermsRefused(x.q)
     THEN End(c) /\ UNCHANGED <<profile, primary, active, terms, spare>>
     ELSE /\ profile' = [profile EXCEPT ![x.u][x.t] = "PENDING"]
          /\ primary' = IF x.t = "EMPLOYEE" THEN [primary EXCEPT ![x.u] = x.d] ELSE primary
          /\ active' = IF x.t = "EMPLOYEE" THEN [active EXCEPT ![x.u] = x.d] ELSE active
          /\ terms' = IF x.t = "CLIENT" THEN [terms EXCEPT ![x.u] = ResolvedTerms(x.q)] ELSE terms
          /\ spare' = IF x.addressed THEN spare - 1 ELSE spare
          /\ MoveTo(c, "created")
  /\ UNCHANGED <<working, roleOf, manager, calls, decided, overlapped>>

\* The second statement makes the new profile the one the user works in.
EnterProfile(c) ==
  /\ handling[c].pc = "created"
  /\ working' = [working EXCEPT ![handling[c].u] = handling[c].t]
  /\ End(c)
  /\ UNCHANGED <<profile, roleOf, primary, active, manager, terms, spare, calls, decided, overlapped>>

\* PATCH /me/current-profile: any profile the user has, whatever its status.
ChooseProfile(u, t) ==
  /\ Direct
  /\ t # None => profile[u][t] # None
  /\ working' = [working EXCEPT ![u] = t]
  /\ UNCHANGED <<profile, roleOf, primary, active, manager, terms, spare, decided, overlapped>>

\* PUT /me/department, PUT /:userId/department, PATCH /:userId: both columns at once.
SetDepartment(u, d) ==
  /\ Direct /\ IsEmployee(u)
  /\ primary' = [primary EXCEPT ![u] = d] /\ active' = [active EXCEPT ![u] = d]
  /\ UNCHANGED <<profile, working, roleOf, manager, terms, spare, decided, overlapped>>

CanUseDepartmentAsActive(u, d) == primary[u] = d \/ <<u, d>> \in manager

\* PUT /me/active-department and its administrator's twin: check, then write by id.
ReadActiveDepartment(c, u, d) ==
  /\ IsEmployee(u) /\ (d = None \/ CanUseDepartmentAsActive(u, d))
  /\ Handle(c, [pc |-> "activate", u |-> u, d |-> d, rows |-> ProfileRows(u)])
  /\ UNCHANGED <<profile, working, roleOf, primary, active, manager, terms, spare, decided, overlapped>>

WriteActiveDepartment(c) ==
  /\ handling[c].pc = "activate"
  /\ active' = [active EXCEPT ![handling[c].u] = handling[c].d]
  /\ Overlaps(c) /\ End(c)
  /\ UNCHANGED <<profile, working, roleOf, primary, manager, terms, spare, calls, decided>>

\* POST /:userId/department/:departmentId/manager
AssignManager(u, d) ==
  /\ Direct /\ manager' = manager \cup {<<u, d>>}
  /\ UNCHANGED <<profile, working, roleOf, primary, active, terms, spare, decided, overlapped>>

\* DELETE /departments/:departmentId clears the references statement by statement; then it
\* sets a column of the appeals to null that may not be null, which is refused.
BeginDelete(c, d) ==
  /\ Handle(c, [pc |-> "primary", d |-> d])
  /\ UNCHANGED <<profile, working, roleOf, primary, active, manager, terms, spare, decided, overlapped>>

ClearPrimary(c) ==
  LET hit == {u \in People : primary[u] = handling[c].d} IN
  /\ handling[c].pc = "primary"
  /\ primary' = [u \in People |-> IF u \in hit THEN None ELSE primary[u]]
  /\ active' = [u \in People |-> IF u \in hit THEN None ELSE active[u]]
  /\ MoveTo(c, "active")
  /\ UNCHANGED <<profile, working, roleOf, manager, terms, spare, calls, decided, overlapped>>

ClearActive(c) ==
  /\ handling[c].pc = "active"
  /\ active' = [u \in People |-> IF active[u] = handling[c].d THEN None ELSE active[u]]
  /\ handling' = [handling EXCEPT ![c] = [pc |-> "managers", d |-> handling[c].d, rows |-> active']]
  /\ UNCHANGED <<profile, working, roleOf, primary, manager, terms, spare, calls, decided, overlapped>>

ClearManagers(c) ==
  /\ handling[c].pc = "managers"
  /\ manager' = {m \in manager : m[2] # handling[c].d}
  /\ overlapped' = (overlapped \/ active # handling[c].rows)
  /\ End(c)
  /\ UNCHANGED <<profile, working, roleOf, primary, active, terms, spare, calls, decided>>

\* POST /:userId/employee-moderation
ReadModeration(c, u, verdict) ==
  /\ IsEmployee(u)
  /\ Handle(c, [pc |-> "moderate", u |-> u, verdict |-> verdict, rows |-> ProfileRows(u),
               role |-> roleOf[u], working |-> working[u]])
  /\ UNCHANGED <<profile, working, roleOf, primary, active, manager, terms, spare, decided, overlapped>>

\* The role follows only where the row read says it must.
ModeratedRole(now, read, verdict) ==
  CASE verdict = "APPROVE" /\ read = "user" -> "employee"
    [] verdict = "REJECT" /\ read = "employee" -> "user"
    [] OTHER -> now

\* Mutant of WriteModeration: a rejected employee keeps the role.
MutRoleKept(c) ==
  LET x == handling[c] IN
  /\ x.pc = "moderate"
  /\ profile' = [profile EXCEPT ![x.u]["EMPLOYEE"] = IF x.verdict = "APPROVE" THEN "ACTIVE" ELSE "BLOCKED"]
  /\ roleOf' = [roleOf EXCEPT ![x.u] = IF x.verdict = "APPROVE" THEN ModeratedRole(@, x.role, x.verdict) ELSE @]
  /\ decided' = [decided EXCEPT ![x.u] = x.verdict]
  /\ Overlaps(c) /\ End(c)
  /\ UNCHANGED <<primary, active, manager, terms, spare, calls, working>>

WriteModeration(c) ==
  LET x == handling[c] IN
  /\ x.pc = "moderate"
  /\ profile' = [profile EXCEPT ![x.u]["EMPLOYEE"] = IF x.verdict = "APPROVE" THEN "ACTIVE" ELSE "BLOCKED"]
  /\ roleOf' = [roleOf EXCEPT ![x.u] = ModeratedRole(@, x.role, x.verdict)]
  /\ working' = IF x.verdict = "REJECT" /\ x.working = "EMPLOYEE"
                THEN [working EXCEPT ![x.u] = None] ELSE working
  /\ decided' = [decided EXCEPT ![x.u] = x.verdict]
  /\ Overlaps(c) /\ End(c)
  /\ UNCHANGED <<primary, active, manager, terms, spare, calls>>

\* PATCH /:userId/profiles/:type: the status alone; role and current profile stay.
EditStatus(u, t, status) ==
  /\ Direct /\ profile[u][t] # None
  /\ profile' = [profile EXCEPT ![u][t] = status]
  /\ decided' = IF t = "EMPLOYEE" THEN [decided EXCEPT ![u] = None] ELSE decided
  /\ UNCHANGED <<working, roleOf, primary, active, manager, terms, spare, overlapped>>

\* POST /:userId/role
AssignRole(u, r) ==
  /\ Direct
  /\ roleOf' = [roleOf EXCEPT ![u] = r] /\ decided' = [decided EXCEPT ![u] = None]
  /\ UNCHANGED <<profile, working, primary, active, manager, terms, spare, overlapped>>

\* A statement fails or the process stops: the rest of the handler does not happen.
FailCall(c) ==
  /\ handling[c] # Free /\ End(c)
  /\ UNCHANGED <<profile, working, roleOf, primary, active, manager, terms, spare, calls, decided, overlapped>>

ProfilesNext ==
  \/ \E c \in Handlers, u \in People :
       \/ \E q \in ClientRequests, a \in BOOLEAN : BeginProfile(c, u, "CLIENT", q, a)
       \/ \E a \in BOOLEAN : BeginProfile(c, u, "SUPPLIER", NoTerms, a)
       \/ \E d \in Departments : BeginEmployee(c, u, d)
       \/ \E d \in Departments \cup {None} : ReadActiveDepartment(c, u, d)
       \/ \E v \in {"APPROVE", "REJECT"} : ReadModeration(c, u, v)
  \/ \E c \in Handlers :
       \/ CreateProfile(c) \/ EnterProfile(c) \/ WriteActiveDepartment(c) \/ WriteModeration(c)
       \/ \E d \in Departments : BeginDelete(c, d)
       \/ ClearPrimary(c) \/ ClearActive(c) \/ ClearManagers(c) \/ FailCall(c)
  \/ \E u \in People :
       \/ \E t \in ProfileTypes \cup {None} : ChooseProfile(u, t)
       \/ \E d \in Departments \cup {None} : SetDepartment(u, d)
       \/ \E d \in Departments : AssignManager(u, d)
       \/ \E t \in ProfileTypes, s \in Statuses : EditStatus(u, t, s)
       \/ \E r \in {"user", "employee", "admin"} : AssignRole(u, r)

ProfilesSpec == ProfilesInit /\ [][ProfilesNext]_profiles

(***************************************************************************)
(* Properties                                                              *)
(***************************************************************************)

\* The profile a user works in exists, although it is set by a statement after the one that
\* creates it, by the user at any time and reset by the moderation (users.ts, POST /profiles/*,
\* PATCH /me/current-profile, POST /:userId/employee-moderation).
CurrentProfileExists == \A u \in People : working[u] # None => profile[u][working[u]] # None

\* An employee works in the primary department or in one where the employee has a role, as the
\* answer to a refused PUT /active-department says, through every change of department, role
\* and every half-done deletion of a department; requests that overlap can break it.
WorksWhereAllowed ==
  overlapped \/ \A u \in People : active[u] # None => CanUseDepartmentAsActive(u, active[u])

\* What the last moderation decided is what the status and the role say: a rejected employee
\* is blocked and has no employee's role, an approved one is active and more than a plain user,
\* unless somebody edited them since or two moderations overlapped.
ModerationDecides ==
  overlapped \/ \A u \in People :
    /\ decided[u] = "REJECT" => profile[u]["EMPLOYEE"] = "BLOCKED" /\ roleOf[u] # "employee"
    /\ decided[u] = "APPROVE" => profile[u]["EMPLOYEE"] = "ACTIVE" /\ roleOf[u] # "user"

\* The references of a client profile belong together: one counterparty owns the agreement, the
\* contract and the delivery address, and nothing contradicts the agreement, whichever of them
\* the request named (POST /profiles/client).  Whose contract an agreement refers to is taken
\* over unchecked.
ClientTermsAgree ==
  \A u \in People :
    LET x == terms[u] IN
    /\ x.contract # None /\ (x.agreement = None \/ AgreementOf[x.agreement].contract # x.contract) =>
         x.counterparty = ContractOwner[x.contract]
    /\ x.address # None /\ AddressOwner[x.address] # None => x.counterparty = AddressOwner[x.address]
    /\ x.agreement # None =>
         \A f \in {"counterparty", "contract", "warehouse"} :
           AgreementOf[x.agreement][f] # None => x[f] = AgreementOf[x.agreement][f]

\* The rows of a user agree with each other in all four ways, whatever handlers of several
\* requests interleave, fail half-way or are repeated (routes/users.ts).
ProfilesAgree == CurrentProfileExists /\ WorksWhereAllowed /\ ModerationDecides /\ ClientTermsAgree
=============================================================================
