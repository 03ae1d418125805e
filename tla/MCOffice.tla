------------------------------ MODULE MCOffice ------------------------------
(***************************************************************************)
(* The parts of the server whose safety is checked side by side.  No       *)
(* handler of one part writes the rows of another, so one of them runs in  *)
(* each behaviour and the others stay where they started.                  *)
(***************************************************************************)
EXTENDS InvoiceDelivery, Roles, ServiceAccess, AppReleases, OtaUpdates, Marketplace,
        OrderLines, LiveReads, OrderList, AppealLabor, Tracking, TLC

VARIABLE part   \* the part that runs

Parts == {"invoices", "roles", "services", "releases", "ota", "market", "lines",
          "reads", "list", "labor", "tracking"}

----------------------------------------------------------------------------
(* Invoices: one realization in two versions, a manager on both channels.  *)

CONSTANTS t1, t2, realization

MCRealizationOf == (t1 :> realization) @@ (t2 :> realization)
MCEligibleSets == {Channels}

----------------------------------------------------------------------------
(* Roles: two of the system, a third an administrator makes.               *)

CONSTANTS userRole, manager, read, write, x1, x2

MCSeeded == {<<userRole, read>>, <<manager, read>>, <<manager, write>>}

----------------------------------------------------------------------------
(* Service access: a clerk is one of the staff.                            *)

CONSTANTS clerk, staff, sales, stock

MCJobParent == [r \in JobRoles |-> IF r = clerk THEN staff ELSE NoDept]
Situation(r, p, a, m, e) ==
  [role |-> r, primary |-> p, active |-> a, managed |-> m, employee |-> e, admin |-> FALSE]
MCSituations ==
  { Situation(clerk, sales, NoDept, {}, TRUE),
    Situation(clerk, sales, stock, {<<sales, staff>>, <<stock, staff>>}, TRUE),
    Situation(staff, NoDept, NoDept, {<<sales, clerk>>, <<stock, staff>>}, TRUE),
    Situation(staff, sales, NoDept, {}, FALSE),
    [Situation(staff, NoDept, NoDept, {}, FALSE) EXCEPT !.admin = TRUE] }
Say(v, e) == [visible |-> v, enabled |-> e]
NoRules == [t \in Targets |-> NoFlags]
MCRuleBodies ==
  { NoRules,
    [t \in Targets |-> IF t = <<"role", staff>> THEN Say("no", Unset)
                       ELSE IF t = <<"role", clerk>> THEN Say(Unset, "yes") ELSE NoFlags],
    [t \in Targets |-> IF t[1] = "dept" THEN Say("yes", "no")
                       ELSE IF t = <<"deptRole", stock, staff>> THEN Say("yes", "yes") ELSE NoFlags] }
ServicesAtRest == person = Situation(staff, sales, NoDept, {}, FALSE) /\ rule = NoRules

----------------------------------------------------------------------------
(* OTA: a phone's hash for each update; an update never has its own.       *)

MCHashes ==
  {[x \in (Phones \cup Updates) \X Updates |-> IF x[1] \in Phones THEN h[x[2]] ELSE x[1] # x[2]] :
     h \in [Updates -> BOOLEAN]}

----------------------------------------------------------------------------
(* Marketplace and order lines.                                            *)

CONSTANTS c1, c2, a0, a1, k1, k2, w1, w2, p1, p2, d1, d2

MCAgreementTerms ==
  (a0 :> [cp |-> NoRef, con |-> k1, wh |-> NoRef, pt |-> p2]) @@
  (a1 :> [cp |-> c1, con |-> k1, wh |-> w1, pt |-> p1])
MCOwnerOf == (k1 :> c1) @@ (k2 :> c2) @@ (d1 :> c1) @@ (d2 :> c2)
Empty == [f \in Fields |-> Absent]
One(f) == {[Empty EXCEPT ![f] = v] : v \in Kinds[f] \cup {NoRef}}
MCContextBodies ==
  One("cp") \cup One("agr") \cup One("addr")
  \cup {[Empty EXCEPT !.cp = c2, !.agr = a] : a \in Agreements}
  \cup {[Empty EXCEPT !.con = k2], [Empty EXCEPT !.pt = p2], [Empty EXCEPT !.wh = w2]}
MCOrderBodies ==
  {b @@ [qty |-> 1] : b \in {Empty, [Empty EXCEPT !.agr = a1], [Empty EXCEPT !.addr = d2]}}
MCManagerBodies ==
  {[cp |-> c, agr |-> a1, con |-> k, wh |-> NoRef, pt |-> p2, addr |-> a] :
     c \in Counterparties, k \in {NoRef, k1}, a \in {NoRef, d1}}
MCSpecials ==
  {[agr |-> a, cp |-> c, pt |-> NoRef, start |-> s, end |-> 0, minQty |-> 0] :
     <<a, c, s>> \in {<<NoRef, c1, 1>>, <<NoRef, c2, 0>>, <<a1, NoRef, 1>>}}
MCListed == {[pt |-> p1, start |-> 0, end |-> 0, price |-> 2, minQty |-> 1],
             [pt |-> p1, start |-> 1, end |-> 0, price |-> 4, minQty |-> 2]}

LineBody(m, f, pc, q, c) == [manual |-> m, fixed |-> f, pct |-> pc, qty |-> q, cancelled |-> c]
Plain == LineBody(NoRef, NoRef, NoRef, 1, FALSE)
Reduced == LineBody(NoRef, NoRef, 50, 2, FALSE)
Manual == LineBody(3, NoRef, NoRef, 1, FALSE)
Dropped == LineBody(3, NoRef, 50, 1, TRUE)
MCLineRequests ==
  {<<l>> : l \in {Plain, Manual}}
  \cup {<<Plain, Dropped>>, <<Reduced, Manual>>, <<Plain, Reduced>>, <<Manual, Dropped>>,
        <<LineBody(NoRef, 0, NoRef, 1, FALSE), Plain>>,
        <<Plain, LineBody(NoRef, NoRef, NoRef, 0, TRUE)>>}

----------------------------------------------------------------------------
(* The order list at rest, and the points of a track.                      *)

ListAtRest ==
  /\ pinned = 0 /\ sent = 0 /\ documents = 0 /\ twin = <<>> /\ filtered = FALSE /\ matches = {}
  /\ limit = 1 /\ offset = 0 /\ seen = {} /\ sources = {} /\ more = TRUE

MCRecordedAt == <<1, 2, 3>>
MCPlace == <<2, 0, 2>>
MCIsStop == <<TRUE, FALSE, TRUE>>
MCAccurate == <<TRUE, TRUE, TRUE>>
MCBatches == {<<2, 1>>, <<2, 3>>}

----------------------------------------------------------------------------
MCInit ==
  /\ part \in Parts
  /\ Init /\ (part # "invoices" => requested)
  /\ RolesInit
  /\ ServicesInit /\ service.enabled /\ (part # "services" => ServicesAtRest)
  /\ ReleasesInit
  /\ OtaInit /\ (part # "ota" => bucket = CHOOSE h \in Hashes : TRUE)
  /\ MarketInit /\ LinesInit /\ ReadsInit
  /\ IF part = "list" THEN ListInit ELSE ListAtRest
  /\ LaborInit /\ (part # "labor" => departmentRate = 0)
  /\ TrackingInit

MCNext ==
  /\ UNCHANGED part
  /\ IF part = "invoices" THEN Next ELSE UNCHANGED vars
  /\ IF part = "roles" THEN RolesNext ELSE UNCHANGED roles
  /\ IF part = "services" THEN ServicesNext ELSE UNCHANGED services
  /\ IF part = "releases" THEN ReleasesNext ELSE UNCHANGED releases
  /\ IF part = "ota" THEN OtaNext ELSE UNCHANGED otas
  /\ CASE part = "market" -> MarketNext /\ UNCHANGED <<orderOf, saves>>
       [] part = "lines" -> LinesNext /\ UNCHANGED <<terms, closed, waiting, placed, closings, requests>>
       [] OTHER -> UNCHANGED <<market, orderOf, saves>>
  /\ IF part = "reads" THEN ReadsNext ELSE UNCHANGED reads
  /\ IF part = "list" THEN ListNext ELSE UNCHANGED list
  /\ IF part = "labor" THEN LaborNext ELSE UNCHANGED labor
  /\ IF part = "tracking" THEN TrackingNext ELSE UNCHANGED tracking

MCSpec ==
  MCInit /\ [][MCNext]_<<part, vars, roles, services, releases, otas, market,
                         orderOf, saves, reads, list, labor, tracking>>

\* The requests of every part go by the same two names.
MCSymmetry == Permutations({x1, x2})
=============================================================================
