------------------------------- MODULE Roles --------------------------------
(***************************************************************************)
(* Roles, their hierarchy and their permissions (routes/users.ts), and the *)
(* check of a request's permissions (middleware/auth.ts).  Nothing here is *)
(* done in a transaction except the deletion of a permission group: every  *)
(* statement of a handler is a step, and a handler may stop after any.     *)
(* Foreign keys are kept by the database: a statement that would leave a   *)
(* row without its role fails and ends the handler.                        *)
(***************************************************************************)
EXTENDS Naturals, FiniteSets

CONSTANTS
  NoRole,
  Role,            \* names of roles
  System,          \* the roles that may not be deleted, UserRole among them
  UserRole,        \* "user"
  Permission,
  Seeded,          \* the permissions the system roles start with: <<role, permission>>
  Bodies,          \* sets of permissions a request may name
  Person,
  Group, Core,     \* permission groups, the group "core" among them
  AdminCalls,      \* administrators' requests served at the same time
  MaxAdminRequests \* bound on the requests

ASSUME RolesAssumption ==
  /\ IsFiniteSet(Role) /\ NoRole \notin Role
  /\ UserRole \in System /\ System \subseteq Role
  /\ \A g \in Seeded : g[1] \in System

VARIABLES
  parent,      \* the parent of each role that exists
  granted,     \* RolePermissions: <<role, permission>>
  holds,       \* User.roleId
  deptRole,    \* DepartmentRole: <<user, role>>
  groupOf,     \* Permission.groupId
  groups,      \* the permission groups that exist
  admin,       \* the requests in progress
  adminRequests,
  crossed      \* history: a request changed what another in progress had read or written

roles == <<parent, granted, holds, deptRole, groupOf, groups, admin, adminRequests, crossed>>

Still == [pc |-> "idle"]
Exists == DOMAIN parent

RolesInit ==
  /\ parent = [r \in System |-> NoRole]
  /\ granted = Seeded /\ holds = [u \in Person |-> UserRole] /\ deptRole = {}
  /\ groupOf = [p \in Permission |-> Core] /\ groups = {Core}
  /\ admin = [a \in AdminCalls |-> Still] /\ adminRequests = 0 /\ crossed = FALSE

\* collectRoleChain: the role and its ancestors, each once even where they form a circle.
Ancestors(tree, r) ==
  LET up[n \in 0..Cardinality(Role)] ==
        IF n = 0 THEN {r}
        ELSE up[n - 1] \cup ({tree[q] : q \in up[n - 1] \cap DOMAIN tree} \ {NoRole})
  IN  up
Chain(r) == Ancestors(parent, r)[Cardinality(Role)]

\* computeUserPermissions
PermissionsOf(u) ==
  LET seed == {holds[u]} \cup {d[2] : d \in {x \in deptRole : x[1] = u}}
      all == UNION {Chain(r) : r \in seed}
  IN {g[2] : g \in {x \in granted : x[1] \in all}}

AdminRequest(a, record) ==
  /\ admin[a] = Still /\ adminRequests < MaxAdminRequests /\ adminRequests' = adminRequests + 1
  /\ admin' = [admin EXCEPT ![a] = record]
Finished(a) == admin' = [admin EXCEPT ![a] = Still]
Others(a) == {admin[b] : b \in AdminCalls \ {a}} \ {Still}
\* Another request on roles is in progress.
Crosses(a) == crossed' = (crossed \/ Others(a) # {})

\* POST /roles: the row, then its permissions one by one.
CreateRole(a, r, p, perms) ==
  /\ r \notin Exists /\ p \in Exists \cup {NoRole}
  /\ AdminRequest(a, [pc |-> "grant", role |-> r, todo |-> perms, all |-> perms])
  /\ parent' = [q \in Exists \cup {r} |-> IF q = r THEN p ELSE parent[q]]
  /\ Crosses(a) /\ UNCHANGED <<granted, holds, deptRole, groupOf, groups>>

\* PATCH /roles/:roleId/permissions: all of them are deleted, then the new ones created.
SetPermissions(a, r, perms) ==
  /\ AdminRequest(a, [pc |-> "grant", role |-> r, todo |-> perms, all |-> perms])
  /\ granted' = {g \in granted : g[1] # r}
  /\ Crosses(a) /\ UNCHANGED <<parent, holds, deptRole, groupOf, groups>>

\* A row that exists, or whose role does not, fails the statement.
Grant(a) ==
  LET x == admin[a] IN
  /\ x.pc = "grant" /\ x.todo # {}
  /\ \E p \in x.todo :
       IF x.role \in Exists /\ <<x.role, p>> \notin granted
       THEN /\ granted' = granted \cup {<<x.role, p>>}
            /\ admin' = [admin EXCEPT ![a].todo = @ \ {p}]
       ELSE Finished(a) /\ UNCHANGED granted
  /\ UNCHANGED <<parent, holds, deptRole, groupOf, groups, adminRequests, crossed>>

Granted(a) ==
  /\ admin[a].pc = "grant" /\ admin[a].todo = {} /\ Finished(a)
  /\ UNCHANGED <<parent, granted, holds, deptRole, groupOf, groups, adminRequests, crossed>>

\* PATCH /roles/:roleId: wouldCreateRoleCycle climbs from the new parent, a query per role.
ReadParent(a, r, p) ==
  /\ r \in Exists /\ p \in (Exists \ {r}) \cup {NoRole}
  /\ AdminRequest(a, [pc |-> "climb", role |-> r, to |-> p, at |-> p, seen |-> {}])
  /\ Crosses(a) /\ UNCHANGED <<parent, granted, holds, deptRole, groupOf, groups>>

\* Mutant of Climb: only the new parent itself is compared with the role.
MutOneHop(a) ==
  LET x == admin[a] IN
  /\ x.pc = "climb" /\ x.at # NoRole
  /\ IF x.at = x.role THEN Finished(a) ELSE admin' = [admin EXCEPT ![a].at = NoRole]
  /\ UNCHANGED <<parent, granted, holds, deptRole, groupOf, groups, adminRequests, crossed>>

Climb(a) ==
  LET x == admin[a] IN
  /\ x.pc = "climb" /\ x.at # NoRole
  /\ IF x.at = x.role \/ x.at \in x.seen
     THEN Finished(a)
     ELSE admin' = [admin EXCEPT ![a].seen = @ \cup {x.at},
                                 ![a].at = IF x.at \in Exists THEN parent[x.at] ELSE NoRole]
  /\ UNCHANGED <<parent, granted, holds, deptRole, groupOf, groups, adminRequests, crossed>>

WriteParent(a) ==
  LET x == admin[a] IN
  /\ x.pc = "climb" /\ x.at = NoRole
  /\ parent' = IF x.role \in Exists /\ x.to \in Exists \cup {NoRole}
               THEN [parent EXCEPT ![x.role] = x.to] ELSE parent
  /\ Finished(a) /\ UNCHANGED <<granted, holds, deptRole, groupOf, groups, adminRequests, crossed>>

\* DELETE /roles/:roleId: its users, its children, its permissions and the row, in turn.
BeginRemoval(a, r) ==
  /\ r \in Exists \ System
  /\ AdminRequest(a, [pc |-> "users", role |-> r])
  /\ Crosses(a) /\ UNCHANGED <<parent, granted, holds, deptRole, groupOf, groups>>

MoveUsers(a) ==
  /\ admin[a].pc = "users"
  /\ holds' = [u \in Person |-> IF holds[u] = admin[a].role THEN UserRole ELSE holds[u]]
  /\ admin' = [admin EXCEPT ![a].pc = "children"]
  /\ UNCHANGED <<parent, granted, deptRole, groupOf, groups, adminRequests, crossed>>

OrphanChildren(a) ==
  /\ admin[a].pc = "children"
  /\ parent' = [r \in Exists |-> IF parent[r] = admin[a].role THEN NoRole ELSE parent[r]]
  /\ admin' = [admin EXCEPT ![a].pc = "permissions"]
  /\ UNCHANGED <<granted, holds, deptRole, groupOf, groups, adminRequests, crossed>>

\* Department roles and permissions of the role.
RemoveGrants(a) ==
  /\ admin[a].pc = "permissions"
  /\ granted' = {g \in granted : g[1] # admin[a].role}
  /\ deptRole' = {d \in deptRole : d[2] # admin[a].role}
  /\ admin' = [admin EXCEPT ![a].pc = "row"]
  /\ UNCHANGED <<parent, holds, groupOf, groups, adminRequests, crossed>>

\* Users and permissions hold the row back; children lose their parent with it.
RemoveRole(a) ==
  LET r == admin[a].role IN
  /\ admin[a].pc = "row"
  /\ IF r \in Exists /\ (\A u \in Person : holds[u] # r) /\ (\A g \in granted : g[1] # r)
     THEN parent' = [q \in Exists \ {r} |-> IF parent[q] = r THEN NoRole ELSE parent[q]]
     ELSE UNCHANGED parent
  /\ Finished(a) /\ UNCHANGED <<granted, holds, deptRole, groupOf, groups, adminRequests, crossed>>

\* POST /:userId/role
GiveRole(u, r) ==
  /\ adminRequests < MaxAdminRequests /\ adminRequests' = adminRequests + 1
  /\ r \in Exists /\ holds' = [holds EXCEPT ![u] = r]
  /\ UNCHANGED <<parent, granted, deptRole, groupOf, groups, admin, crossed>>

\* POST /:userId/department/:departmentId/manager gives a system role.
GiveDepartmentRole(u, r) ==
  /\ adminRequests < MaxAdminRequests /\ adminRequests' = adminRequests + 1
  /\ r \in System \ {UserRole} /\ deptRole' = deptRole \cup {<<u, r>>}
  /\ UNCHANGED <<parent, granted, holds, groupOf, groups, admin, crossed>>

\* POST /permission-groups, PATCH /permissions/:permissionId/group
CreateGroup(g) ==
  /\ adminRequests < MaxAdminRequests /\ adminRequests' = adminRequests + 1
  /\ g \notin groups /\ groups' = groups \cup {g}
  /\ UNCHANGED <<parent, granted, holds, deptRole, groupOf, admin, crossed>>
MoveToGroup(p, g) ==
  /\ adminRequests < MaxAdminRequests /\ adminRequests' = adminRequests + 1
  /\ g \in groups /\ groupOf' = [groupOf EXCEPT ![p] = g]
  /\ UNCHANGED <<parent, granted, holds, deptRole, groups, admin, crossed>>
\* DELETE /permission-groups/:groupId hands its permissions to "core" in the transaction.
DeleteGroup(g) ==
  /\ adminRequests < MaxAdminRequests /\ adminRequests' = adminRequests + 1
  /\ g \in groups \ {Core} /\ groups' = groups \ {g}
  /\ groupOf' = [p \in Permission |-> IF groupOf[p] = g THEN Core ELSE groupOf[p]]
  /\ UNCHANGED <<parent, granted, holds, deptRole, admin, crossed>>

FailRequest(a) ==
  /\ admin[a] # Still /\ Finished(a)
  /\ UNCHANGED <<parent, granted, holds, deptRole, groupOf, groups, adminRequests, crossed>>

RemovalStep(a) == MoveUsers(a) \/ OrphanChildren(a) \/ RemoveGrants(a) \/ RemoveRole(a)

RolesNext ==
  \/ \E a \in AdminCalls :
       \/ \E r \in Role, p \in Role \cup {NoRole}, s \in Bodies : CreateRole(a, r, p, s)
       \/ \E r \in Role, s \in Bodies : SetPermissions(a, r, s)
       \/ \E r \in Role, p \in Role \cup {NoRole} : ReadParent(a, r, p)
       \/ \E r \in Role : BeginRemoval(a, r)
       \/ Grant(a) \/ Granted(a) \/ Climb(a) \/ WriteParent(a)
       \/ RemovalStep(a) \/ FailRequest(a)
  \/ \E u \in Person, r \in Role : GiveRole(u, r) \/ GiveDepartmentRole(u, r)
  \/ \E g \in Group : CreateGroup(g) \/ DeleteGroup(g) \/ \E p \in Permission : MoveToGroup(p, g)

RolesSpec == RolesInit /\ [][RolesNext]_roles

(***************************************************************************)
(* Properties                                                              *)
(***************************************************************************)

\* No role is its own ancestor, as PATCH /roles/:roleId promises, although it climbs by
\* separate queries while roles are created and deleted; requests on roles that overlap can
\* close a circle.
HierarchyIsAcyclic ==
  crossed \/ \A r \in Exists : parent[r] # NoRole => r \notin Chain(parent[r])

\* The deletion of a role gives nobody a permission that the role "user" has not, at none of
\* its steps and wherever it stops or meets other requests (DELETE /roles/:roleId).
RemovalGivesNothing ==
  [][(\E a \in AdminCalls : RemovalStep(a)) =>
       \A u \in Person :
         PermissionsOf(u)' \subseteq PermissionsOf(u) \cup
           {g[2] : g \in {x \in granted : x[1] \in Chain(UserRole)}}]_roles

\* A role never has a permission beyond what the request that set its permissions named, and
\* has all of them once the request is through (PATCH /roles/:roleId/permissions); overlapping
\* requests mix theirs.
GrantsAreTheRequests ==
  crossed \/ \A a \in AdminCalls :
    admin[a].pc = "grant" =>
      {g[2] : g \in {x \in granted : x[1] = admin[a].role}} = admin[a].all \ admin[a].todo

\* The hierarchy and the grants are what administrators asked for, through every interleaving
\* of the statements of requests that do not cross, and no deletion adds to what users may do.
RolesAreSound == [](HierarchyIsAcyclic /\ GrantsAreTheRequests) /\ RemovalGivesNothing
=============================================================================
