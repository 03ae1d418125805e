--------------------------- MODULE ServiceAccess ----------------------------
(***************************************************************************)
(* Who may use a service (services/serviceAccess.ts) and the rules that    *)
(* administrators keep for it (routes/services.ts), for one service and    *)
(* one user.                                                               *)
(*                                                                         *)
(* A rule has a target (the user, a role, a department, or a role within   *)
(* a department) and two flags, visible and enabled, each of which may be  *)
(* left unset.  A flag of the service is decided by itself: the layers     *)
(* user, department role, department and role are asked in this order, and *)
(* within the layers that follow the role hierarchy the nearest role.      *)
(***************************************************************************)
EXTENDS Naturals, FiniteSets

CONSTANTS
  NoDept,
  Depts, JobRoles,
  JobParent,       \* [JobRoles -> JobRoles \cup {NoDept}]: Role.parentRoleId
  Situations,      \* [role, primary, active, managed, employee, admin]: what is known of a user
  RuleBodies,      \* [Targets -> Flags]: bodies of PUT access-rules
  Editors,         \* changes of the service in progress at the same time
  MaxEdits         \* bound on the changes

VARIABLES
  person,      \* the situation of the user
  service,     \* [active, visible, enabled]: Service.isActive, defaultVisible, defaultEnabled
  rule,        \* [Targets -> Flags]
  editor,      \* the changes of the service in progress
  edits,
  mixed        \* history: two changes of the service overlapped

services == <<person, service, rule, editor, edits, mixed>>

RuleFields == {"visible", "enabled"}
Unset == "unset"
Flags == [RuleFields -> {"yes", "no", Unset}]
NoFlags == [f \in RuleFields |-> Unset]
NoJob == [visible |-> Unset, enabled |-> Unset, seen |-> FALSE]
Targets == {<<"user">>} \cup ({"role"} \X JobRoles) \cup ({"dept"} \X Depts) \cup ({"deptRole"} \X Depts \X JobRoles)

ASSUME ServicesAssumption ==
  /\ IsFiniteSet(JobRoles) /\ NoDept \notin JobRoles \cup Depts
  /\ JobParent \in [JobRoles -> JobRoles \cup {NoDept}]
  /\ RuleBodies \subseteq [Targets -> Flags]
  /\ \A p \in Situations :
       /\ p.role \in JobRoles /\ p.active \in Depts \cup {NoDept} /\ p.primary \in Depts \cup {NoDept}
       /\ p.managed \subseteq Depts \X JobRoles

(***************************************************************************)
(* The rules                                                               *)
(***************************************************************************)
\* validateVisibilityEnabledPair
PairIsValid(flags) == flags # NoFlags /\ ~(flags.visible = "no" /\ flags.enabled = "yes")
\* normalizeRuleItems, normalizeDepartmentRoleRuleItems: a target is named once, with a valid pair.
BodyIsValid(body) == \A t \in Targets : body[t] = NoFlags \/ PairIsValid(body[t])

Edited == edits < MaxEdits /\ edits' = edits + 1

\* PUT /:serviceId/access-rules: the rules of all four kinds are replaced.
ReplaceRules(body) ==
  /\ Edited /\ BodyIsValid(body) /\ rule' = body
  /\ UNCHANGED <<person, service, editor, mixed>>

\* PUT /departments/:departmentId/access-catalog: the rule of the department, or of a role in it.
ReplaceCatalogRule(t, flags) ==
  /\ Edited /\ (flags = NoFlags \/ PairIsValid(flags))
  /\ rule' = [rule EXCEPT ![t] = flags]
  /\ UNCHANGED <<person, service, editor, mixed>>

\* PUT user-access, role-access, department-access, department-role-access: an upsert; a flag
\* that is not given keeps its stored value.
Merge(stored, given) == [f \in RuleFields |-> IF given[f] = Unset THEN stored[f] ELSE given[f]]
SaveRule(t, flags) ==
  /\ Edited /\ PairIsValid(flags) /\ rule' = [rule EXCEPT ![t] = Merge(@, flags)]
  /\ UNCHANGED <<person, service, editor, mixed>>
SaveUserRule(flags) == SaveRule(<<"user">>, flags)
SaveRoleRule(r, flags) == SaveRule(<<"role", r>>, flags)
SaveDeptRule(d, flags) == SaveRule(<<"dept", d>>, flags)
SaveDeptRoleRule(d, r, flags) == SaveRule(<<"deptRole", d, r>>, flags)

DeleteRule(t) ==
  /\ Edited /\ rule[t] # NoFlags /\ rule' = [rule EXCEPT ![t] = NoFlags]
  /\ UNCHANGED <<person, service, editor, mixed>>
DeleteUserRule == DeleteRule(<<"user">>)
DeleteRoleRule(r) == DeleteRule(<<"role", r>>)
DeleteDeptRule(d) == DeleteRule(<<"dept", d>>)
DeleteDeptRoleRule(d, r) == DeleteRule(<<"deptRole", d, r>>)

Default(f) == IF service[f] THEN "yes" ELSE "no"

\* PATCH /:serviceId: the pair of defaults is checked against the row that was read.
ReadDefaults(e, given) ==
  /\ Edited /\ editor[e] = NoJob
  /\ editor' = [editor EXCEPT ![e] = [visible |-> given.visible, enabled |-> given.enabled, seen |-> TRUE]]
  /\ PairIsValid(Merge([f \in RuleFields |-> Default(f)], given))
  /\ mixed' = (mixed \/ \E o \in Editors \ {e} : editor[o] # NoJob)
  /\ UNCHANGED <<person, service, rule>>

WriteDefaults(e) ==
  LET stored(f) == IF editor[e][f] = Unset THEN service[f] ELSE editor[e][f] = "yes" IN
  /\ editor[e] # NoJob
  /\ service' = [service EXCEPT !.visible = stored("visible"), !.enabled = stored("enabled")]
  /\ editor' = [editor EXCEPT ![e] = NoJob]
  /\ UNCHANGED <<person, rule, edits, mixed>>
SwitchService ==
  /\ Edited /\ service' = [service EXCEPT !.active = ~@]
  /\ UNCHANGED <<person, rule, editor, mixed>>

(***************************************************************************)
(* The decision                                                            *)
(***************************************************************************)
\* collectRoleChain: a role and its ancestors, with their distance.
Generations(r) ==
  LET up[n \in 0..Cardinality(JobRoles)] ==
        IF n = 0 THEN r ELSE IF up[n - 1] = NoDept THEN NoDept ELSE JobParent[up[n - 1]]
  IN  up
RoleChain ==
  [r \in JobRoles |->
     LET up == Generations(r)
     IN {<<up[n], n>> : n \in {k \in DOMAIN up : up[k] # NoDept /\ \A j \in 0..(k - 1) : up[j] # up[k]}}]

\* resolveUserAccessContext: the active department, and the primary one where there is none.
ActiveDept == IF person.active # NoDept THEN person.active ELSE person.primary
EffectiveDepts == IF ActiveDept # NoDept THEN {ActiveDept} ELSE {m[1] : m \in person.managed}
RelevantManaged == {m \in person.managed : ActiveDept # NoDept => m[1] = ActiveDept}
Assignments ==
  {[role |-> x[1], distance |-> x[2], dept |-> NoDept] : x \in RoleChain[person.role]} \cup
  UNION {{[role |-> x[1], distance |-> x[2], dept |-> m[1]] : x \in RoleChain[m[2]]} : m \in RelevantManaged}
Nearest(S) == CHOOSE n \in S : \A k \in S : n <= k

\* mapMatchedDepartmentRoleRules: the primary role counts in every effective department, a
\* department role in its own.
Matching(d, r) ==
  {a \in Assignments : a.role = r /\ IF a.dept = NoDept THEN d \in EffectiveDepts ELSE a.dept = d}

\* The rules of a layer that apply: <<flags, distance>>.
UserLayer == {<<rule[<<"user">>], 0>>}
DeptLayer == {<<rule[<<"dept", d>>], 0>> : d \in EffectiveDepts}
RoleLayer ==
  {<<rule[<<"role", r>>], Nearest({a.distance : a \in {b \in Assignments : b.role = r}})>> :
     r \in {a.role : a \in Assignments}}
DeptRoleLayer ==
  {<<rule[<<"deptRole", x[1], x[2]>>], Nearest({a.distance : a \in Matching(x[1], x[2])})>> :
     x \in {y \in EffectiveDepts \X JobRoles : Matching(y[1], y[2]) # {}}}

\* evaluateUserField, evaluateDepartmentField: one "no" is enough.
Explicit(layer, f) == {x \in layer : x[1][f] # Unset}
Evaluate(S, f) == IF S = {} THEN Unset ELSE IF \E x \in S : x[1][f] = "no" THEN "no" ELSE "yes"

\* Mutant of EvaluateNearest: the rule of the farthest role decides.
MutFarthest(layer, f) ==
  LET S == Explicit(layer, f) IN
  Evaluate({x \in S : \A y \in S : y[2] <= x[2]}, f)

\* evaluateRoleField, evaluateDepartmentRoleField: only the nearest rules count.
EvaluateNearest(layer, f) ==
  LET S == Explicit(layer, f) IN
  Evaluate({x \in S : x[2] = Nearest({y[2] : y \in S})}, f)

\* resolveFinalField
ResolveFinalField(f) ==
  LET decisions == <<Evaluate(Explicit(UserLayer, f), f), EvaluateNearest(DeptRoleLayer, f),
                     Evaluate(Explicit(DeptLayer, f), f), EvaluateNearest(RoleLayer, f)>>
      first == {i \in 1..4 : decisions[i] # Unset}
  IN IF first = {} THEN service.active /\ service[f] ELSE decisions[Nearest(first)] = "yes"

\* applyRuleFlags, explainServiceAccessForUser: administrators see and use everything.
VisibleToUser == person.admin \/ (person.employee /\ ResolveFinalField("visible"))
EnabledForUser == person.admin \/ (VisibleToUser /\ ResolveFinalField("enabled"))
\* authorizeServiceAccess lets the request pass; listServicesForUser shows the service.
GatePasses == VisibleToUser /\ EnabledForUser
ListedForUser == service.active /\ VisibleToUser

ServicesInit ==
  /\ person \in Situations
  /\ service \in [active : {TRUE}, visible : BOOLEAN, enabled : BOOLEAN] /\ (service.enabled => service.visible)
  /\ rule \in RuleBodies
  /\ editor = [e \in Editors |-> NoJob] /\ edits = 0 /\ mixed = FALSE

ServicesNext ==
  \/ \E body \in RuleBodies : ReplaceRules(body)
  \/ \E flags \in Flags :
       \/ SaveUserRule(flags)
       \/ \E r \in JobRoles : SaveRoleRule(r, flags)
       \/ \E d \in Depts : SaveDeptRule(d, flags) \/ ReplaceCatalogRule(<<"dept", d>>, flags)
       \/ \E d \in Depts, r \in JobRoles :
            SaveDeptRoleRule(d, r, flags) \/ ReplaceCatalogRule(<<"deptRole", d, r>>, flags)
  \/ DeleteUserRule
  \/ \E r \in JobRoles : DeleteRoleRule(r) \/ \E d \in Depts : DeleteDeptRoleRule(d, r)
  \/ \E d \in Depts : DeleteDeptRule(d)
  \/ \E e \in Editors : WriteDefaults(e) \/ \E given \in Flags \ {NoFlags} : ReadDefaults(e, given)
  \/ SwitchService

ServicesSpec == ServicesInit /\ [][ServicesNext]_services

(***************************************************************************)
(* Properties                                                              *)
(***************************************************************************)

\* The targets that concern the user, <<layer, distance, target>>; layer 1 is the most specific.
OwnRoles(d) == {<<x[1], x[2]>> : x \in RoleChain[person.role] \cup
                  UNION {RoleChain[m[2]] : m \in {k \in person.managed : k[1] = d}}}
Ranked ==
  {<<1, 0, <<"user">>>>} \cup
  (UNION {{<<2, x[2], <<"deptRole", d, x[1]>>>> : x \in OwnRoles(d)} : d \in EffectiveDepts}) \cup
  {<<3, 0, <<"dept", d>>>> : d \in EffectiveDepts} \cup
  {<<4, x[2], <<"role", x[1]>>>> : x \in RoleChain[person.role] \cup UNION {OwnRoles(d) : d \in EffectiveDepts}}
Before(x, y) == x[1] < y[1] \/ (x[1] = y[1] /\ x[2] < y[2])

\* What the rules say of a flag: the most specific of those that say anything, else the default.
Said(f) == {x \in Ranked : rule[x[3]][f] # Unset}
MostSpecific(f) == {x \in Said(f) : \A y \in Said(f) : ~Before(y, x)}
Decided(f) ==
  IF Said(f) = {} THEN service.active /\ service[f] ELSE \A x \in MostSpecific(f) : rule[x[3]][f] = "yes"

\* The most specific rules decide each flag, and among equals a refusal wins; a rule that names
\* somebody else, another department or a role the user does not have never matters, and a
\* service that was switched off is listed for nobody.  The gate of the routes
\* (middleware/serviceAccess.ts) and the list of services agree on it.
MostSpecificDecides ==
  /\ GatePasses <=> person.admin \/ (person.employee /\ Decided("visible") /\ Decided("enabled"))
  /\ ListedForUser <=> service.active /\ (person.admin \/ (person.employee /\ Decided("visible")))

\* The stored defaults never say that a hidden service may be used, unless two PATCH requests
\* overlapped: each is checked against the row it read.
DefaultsAreConsistent == mixed \/ (service.enabled => service.visible)

\* What a user may do is decided by the rules, in every situation, and the defaults the rules
\* fall back to make sense themselves.
AccessIsDecided == MostSpecificDecides /\ DefaultsAreConsistent
=============================================================================
