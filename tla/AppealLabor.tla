---------------------------- MODULE AppealLabor ----------------------------
(***************************************************************************)
(* The hours and payments of one appeal (routes/appeals.ts): PUT /labor    *)
(* replaces the entries of the assignees, mark-paid settles entries of the *)
(* payment queue, PUT hourly-rate changes what an hour costs from now on.  *)
(*                                                                         *)
(* PUT /labor reads the appeal and the rates first.  Its transaction then  *)
(* updates the appeal's row, which makes later ones of the same appeal     *)
(* wait (locked), reads the entries and writes them.  mark-paid takes no   *)
(* such lock: it reads an entry and updates it.                            *)
(***************************************************************************)
EXTENDS Naturals

CONSTANTS
  Workers,
  MaxHours, MaxRate,   \* bounds: hours and rates are 0..Max
  DepartmentRates, PaymentRequired,   \* what the department's row may say
  Callers, None,
  MaxCalls             \* bound

ASSUME LaborAssumption ==
  /\ MaxHours \in Nat /\ MaxRate \in Nat /\ DepartmentRates \subseteq Nat
  /\ PaymentRequired \in BOOLEAN
  /\ None \notin Nat
  /\ None \notin [hours: Nat, paid: Nat, status: {"NOT_REQUIRED", "UNPAID", "PARTIAL", "PAID"}]
  /\ None \notin [hours: Nat, paid: Nat, status: {"NOT_REQUIRED", "UNPAID", "PARTIAL", "PAID"},
                  rate: Nat]

VARIABLES
  laborNotRequired, assignees, rate, departmentRate,
  entry,        \* appealLaborEntry by assignee
  ledger,       \* the new values of the last row of the audit log by assignee
  caller, locked, calls,
  overlapped    \* history: a payment and a PUT have written over each other

labor == <<laborNotRequired, assignees, rate, departmentRate, entry, ledger, caller, locked, calls,
           overlapped>>

Hours == 0..MaxHours
PaymentStatuses == {"NOT_REQUIRED", "UNPAID", "PARTIAL", "PAID"}
Row(h, p, status) == [hours |-> h, paid |-> p, status |-> status]
StoredEntry(row, r) == [hours |-> row.hours, paid |-> row.paid, status |-> row.status, rate |-> r]
Free == [pc |-> "idle"]

Least(a, b) == IF a < b THEN a ELSE b

resolveEffectiveHourlyRate(assigneeRate, deptRate) ==
  IF PaymentRequired THEN IF assigneeRate = None THEN deptRate ELSE assigneeRate ELSE 0

deriveLaborPaymentStatus(payable, accrued, paid) ==
  IF ~payable THEN "NOT_REQUIRED"
  ELSE IF accrued = 0 \/ paid = 0 THEN "UNPAID"
  ELSE IF paid < accrued THEN "PARTIAL" ELSE "PAID"

\* A client that sends a status in place of paid hours.
resolveLegacyPaidHours(accrued, status, previous) ==
  CASE status = "PAID" -> accrued
    [] status \in {"UNPAID", "NOT_REQUIRED"} -> 0
    [] OTHER -> Least(previous, accrued)

\* mapLaborEntryDto: what the readers are shown of an entry.
mapLaborEntryDto(e, notRequired) ==
  LET payable == ~notRequired /\ e.rate > 0
      paid == IF payable THEN Least(e.paid, e.hours) ELSE 0
  IN  Row(e.hours, paid,
          IF notRequired THEN "NOT_REQUIRED" ELSE deriveLaborPaymentStatus(payable, e.hours, paid))

LaborInit ==
  /\ laborNotRequired = FALSE /\ assignees = Workers
  /\ rate = [w \in Workers |-> None] /\ departmentRate \in DepartmentRates
  /\ entry = [w \in Workers |-> None] /\ ledger = [w \in Workers |-> None]
  /\ caller = [c \in Callers |-> Free] /\ locked = None /\ calls = 0
  /\ overlapped = FALSE

Start(c, record) ==
  /\ caller[c] = Free /\ calls < MaxCalls /\ calls' = calls + 1
  /\ caller' = [caller EXCEPT ![c] = record]

\* An item of the body: accrued hours, and paid hours or the status of an older client.
Items ==
  [hours: Hours, paid: Hours, status: {None}]
    \cup [hours: Hours, paid: {None}, status: PaymentStatuses \cup {None}]

\* PUT /:id/labor up to the transaction; an item of somebody who is not an
\* assignee refuses the request.
ReadLabor(c, items, off) ==
  /\ DOMAIN items \subseteq assignees
  /\ Start(c, [pc |-> "put", items |-> items, off |-> off, wasOff |-> laborNotRequired,
               assignees |-> assignees, prev |-> None,
               rates |-> [w \in assignees |-> resolveEffectiveHourlyRate(rate[w], departmentRate)]])
  /\ UNCHANGED <<laborNotRequired, assignees, rate, departmentRate, entry, ledger, locked, overlapped>>

\* The transaction takes the appeal's row and reads the entries.
LockLabor(c) ==
  /\ caller[c].pc = "put" /\ locked = None
  /\ locked' = c
  /\ caller' = [caller EXCEPT ![c].pc = "write", ![c].prev = entry]
  /\ UNCHANGED <<laborNotRequired, assignees, rate, departmentRate, entry, ledger, calls, overlapped>>

\* The rate of an entry is locked when it is first written; an appeal read
\* with labor switched off starts afresh.
LockedRate(x, w) ==
  IF x.prev[w] = None \/ x.wasOff THEN x.rates[w] ELSE x.prev[w].rate

PaidHours(x, w) ==
  LET i == x.items[w]
      previous == IF x.prev[w] = None THEN 0 ELSE x.prev[w].paid
  IN  IF i.paid # None THEN i.paid ELSE resolveLegacyPaidHours(i.hours, i.status, previous)

\* The entry of assignee w after the transaction, None when it is deleted.
NextEntry(x, w) ==
  LET i == x.items[w]
      payable == LockedRate(x, w) > 0
      paid == IF payable THEN PaidHours(x, w) ELSE 0
  IN  CASE x.off -> IF w \in x.assignees \/ x.prev[w] # None
                    THEN StoredEntry(Row(0, 0, "NOT_REQUIRED"), 0) ELSE None
        [] ~x.off /\ (w \notin DOMAIN x.items) -> None
        [] OTHER -> IF i.hours = 0 /\ paid = 0 THEN None
                    ELSE StoredEntry(Row(i.hours, paid, deriveLaborPaymentStatus(payable, i.hours, paid)),
                                LockedRate(x, w))

Shown(e) == IF e = None THEN None ELSE Row(e.hours, e.paid, e.status)

\* Mutant of NextLedger: an entry that is deleted is not logged.
MutNoDeletions(x, w) ==
  LET old == Shown(x.prev[w])
      new == Shown(NextEntry(x, w))
  IN  IF new # None /\ old # new THEN new ELSE ledger[w]

\* writeLaborAuditLog: a row for what differs from the entry read; an item
\* that ends without an entry is logged as (0, 0, UNPAID).
NextLedger(x, w) ==
  LET old == Shown(x.prev[w])
      new == IF NextEntry(x, w) = None THEN Row(0, 0, "UNPAID") ELSE Shown(NextEntry(x, w))
      touched == NextEntry(x, w) # None \/ old # None \/ w \in DOMAIN x.items
  IN  IF touched /\ old # new THEN new ELSE ledger[w]

WriteLabor(c) ==
  LET x == caller[c]
      tooMuch == ~x.off /\ \E w \in DOMAIN x.items : PaidHours(x, w) > x.items[w].hours
  IN  /\ x.pc = "write"
      /\ IF tooMuch
         THEN UNCHANGED <<laborNotRequired, entry, ledger, overlapped>>
         ELSE /\ laborNotRequired' = x.off
              /\ entry' = [w \in Workers |-> NextEntry(x, w)]
              /\ ledger' = [w \in Workers |-> NextLedger(x, w)]
              /\ overlapped' = (overlapped \/ entry # x.prev)
      /\ caller' = [caller EXCEPT ![c] = Free] /\ locked' = None
      /\ UNCHANGED <<assignees, rate, departmentRate, calls>>

\* PUT payment-queue/mark-paid reads the entry ...
ReadPayment(c, w) ==
  /\ entry[w] # None /\ PaymentRequired /\ entry[w].status \notin {"NOT_REQUIRED", "PAID"}
  /\ Start(c, [pc |-> "pay", w |-> w, prev |-> entry[w]])
  /\ UNCHANGED <<laborNotRequired, assignees, rate, departmentRate, entry, ledger, locked, overlapped>>

\* ... and settles it with the hours it read; a deleted entry fails it.
WritePayment(c) ==
  LET x == caller[c] IN
  /\ x.pc = "pay"
  /\ IF entry[x.w] = None THEN UNCHANGED <<entry, ledger, overlapped>>
     ELSE /\ entry' = [entry EXCEPT ![x.w].paid = x.prev.hours, ![x.w].status = "PAID"]
          /\ ledger' = [ledger EXCEPT ![x.w] = Row(x.prev.hours, x.prev.hours, "PAID")]
          /\ overlapped' = (overlapped \/ entry[x.w] # x.prev)
  /\ caller' = [caller EXCEPT ![c] = Free]
  /\ UNCHANGED <<laborNotRequired, assignees, rate, departmentRate, locked, calls>>

\* PUT /analytics/users/:userId/hourly-rate.
SetHourlyRate(w, r) ==
  /\ calls < MaxCalls /\ calls' = calls + 1
  /\ rate' = [rate EXCEPT ![w] = r]
  /\ UNCHANGED <<laborNotRequired, assignees, departmentRate, entry, ledger, caller, locked, overlapped>>

\* The assignees change (PUT /:id/assign).
ChangeAssignees(S) ==
  /\ calls < MaxCalls /\ calls' = calls + 1
  /\ assignees' = S
  /\ UNCHANGED <<laborNotRequired, rate, departmentRate, entry, ledger, caller, locked, overlapped>>

LaborNext ==
  \/ \E c \in Callers :
       \/ \E S \in SUBSET Workers, off \in BOOLEAN : \E items \in [S -> Items] : ReadLabor(c, items, off)
       \/ LockLabor(c) \/ WriteLabor(c)
       \/ \E w \in Workers : ReadPayment(c, w)
       \/ WritePayment(c)
  \/ \E w \in Workers, r \in 0..MaxRate : SetHourlyRate(w, r)
  \/ \E S \in SUBSET Workers : ChangeAssignees(S)

LaborSpec == LaborInit /\ [][LaborNext]_labor

-----------------------------------------------------------------------------
(* Until a payment and a PUT write over each other, the audit log ends with  *)
(* what the readers are shown of an entry: no change of hours, paid hours or *)
(* status is missing from it or differs from it, and clamping and deriving   *)
(* them again in mapLaborEntryDto changes nothing, across changes of rates,  *)
(* of the assignees and of laborNotRequired.                                 *)
AuditMatchesEntries ==
  ~overlapped =>
    \A w \in Workers : ledger[w] # None \/ entry[w] # None =>
      ledger[w] = IF entry[w] = None THEN Row(0, 0, "UNPAID")
                  ELSE mapLaborEntryDto(entry[w], laborNotRequired)
=============================================================================
