--------------------------- MODULE InvoiceDelivery ---------------------------
(***************************************************************************)
(* Invoices of client orders (clientOrderInvoiceWorker.ts).  1C publishes  *)
(* a candidate per version of a realization, each under a token of its     *)
(* own.  A synchronisation copies a candidate into the table; a call of    *)
(* processInvoice, started by the worker's run or by a manager's request,  *)
(* leases the row, stores the PDF, hands it to the bots of two messengers  *)
(* and reports to 1C.                                                      *)
(*                                                                         *)
(* Every awaited call of the code is a step: the candidate may be replaced *)
(* or cancelled in 1C, the row rewritten by a synchronisation, the lease   *)
(* pass or the process die between any two of them.  The worker's run lock *)
(* is left out: it only keeps two runs from selecting together, and a      *)
(* manager's request bypasses it.  The content of an invoice is fixed by   *)
(* its token (businessHash).                                               *)
(***************************************************************************)
EXTENDS Naturals, FiniteSets

CONSTANTS
  Tokens,          \* versions of invoices
  RealizationOf,   \* the realization a token belongs to
  Syncs,           \* concurrent calls of syncQueueItem
  Calls,           \* concurrent calls of processInvoice
  EligibleSets,    \* the sets of channels a manager may be reachable on
  Null,
  MaxChanges,      \* bound: changes in 1C and of the order's invoiceRequested
  MaxSyncs,        \* bound: synchronisations started
  MaxFaults        \* bound: failed calls, crashes, leases that pass in use

ChannelOrder == <<"TELEGRAM", "MAX">>
Channels == {"TELEGRAM", "MAX"}

ASSUME TokenAssumption == DOMAIN RealizationOf = Tokens /\ Null \notin Tokens
ASSUME EligibleAssumption == EligibleSets \subseteq SUBSET Channels
ASSUME InvoiceBoundsAssumption == MaxChanges \in Nat /\ MaxSyncs \in Nat /\ MaxFaults \in Nat

InvoiceState ==
  {"WAITING", "QUEUED", "SENDING", "AVAILABLE", "PARTIAL", "SENT", "ERROR", "SUPERSEDED", "CANCELLED"}
ActiveStates == InvoiceState \ {"SENT", "SUPERSEDED", "CANCELLED"}
\* Mutant of RetryableStates: a row left in SENDING is not taken again.
MutLostLease == {"QUEUED", "PARTIAL", "ERROR"}
RetryableStates == {"QUEUED", "SENDING", "PARTIAL", "ERROR"}
ProcessableStates == RetryableStates \cup {"AVAILABLE"}

\* leaseUntil is null, in the future or in the past.
Invoices == [state: InvoiceState, lease: {"none", "held", "past"}, s3Key: BOOLEAN]

ASSUME InvoiceNullAssumption == Null \notin Invoices

\* backoff: nextAttemptAt is in the future.  No row and PENDING are one.
Deliveries ==
  [state: {"PENDING", "SENDING", "SENT", "ERROR", "SKIPPED"}, sentAt: BOOLEAN, backoff: BOOLEAN]

\* The state of a candidate in 1C; "none" before it exists, "dropped" when a
\* newer version or a change has invalidated it (shown as WAITING).
OnecState == {"none", "WAITING", "READY", "STORED", "PARTIAL", "SENT", "dropped", "CANCELLED"}

SyncCalls ==
  [pc: {"idle", "fetched", "read"}, t: Tokens \cup {Null}, item: OnecState,
   current: Invoices \cup {Null}]

ProcessCalls ==
  [pc: {"idle", "selected", "claimed", "check", "render", "recheck", "store", "refresh", "open",
        "validate", "send", "accepted", "note", "noted", "undelivered", "finish", "ack",
        "drop", "failed"},
   t: Tokens \cup {Null}, s3Key: BOOLEAN, eligible: SUBSET Channels, i: 1..3,
   existing: Deliveries, results: [Channels -> {"none", "SENT", "SKIPPED", "ERROR"}],
   report: {"none", "STORED", "SENT", "PARTIAL", "ERROR"}]

NoDelivery == [state |-> "PENDING", sentAt |-> FALSE, backoff |-> FALSE]
IdleSync == [pc |-> "idle", t |-> Null, item |-> "none", current |-> Null]
IdleCall ==
  [pc |-> "idle", t |-> Null, s3Key |-> FALSE, eligible |-> {}, i |-> 1,
   existing |-> NoDelivery, results |-> [c \in Channels |-> "none"], report |-> "none"]

VARIABLES
  onec,        \* 1C (external): the state of each candidate
  requested,   \* the order's invoiceRequested
  row,         \* the ClientOrderInvoice table, by token
  delivery,    \* the ClientOrderInvoiceDelivery table
  sync, call,  \* calls in progress
  accepted,    \* messengers (external): documents accepted per token and channel
  changes, syncs, faults,   \* what is left of the bounds
  overrun,     \* history: tokens whose lease has passed under a call that held it
  robbed,      \* history: tokens whose lease another call, or a synchronisation, has cleared
  unsure       \* history: documents accepted that no record tells of, by token and channel

vars == <<onec, requested, row, delivery, sync, call, accepted, changes, syncs, faults, overrun, robbed, unsure>>
bounds == <<changes, syncs, faults>>
history == <<overrun, robbed, unsure>>

Init ==
  /\ onec = [t \in Tokens |-> "none"]
  /\ requested \in BOOLEAN
  /\ row = [t \in Tokens |-> Null]
  /\ delivery = [t \in Tokens |-> [c \in Channels |-> NoDelivery]]
  /\ sync = [s \in Syncs |-> IdleSync]
  /\ call = [p \in Calls |-> IdleCall]
  /\ accepted = [t \in Tokens |-> [c \in Channels |-> 0]]
  /\ changes = MaxChanges /\ syncs = MaxSyncs /\ faults = MaxFaults
  /\ overrun = {} /\ robbed = {}
  /\ unsure = [t \in Tokens |-> [c \in Channels |-> 0]]

----------------------------------------------------------------------------
(* 1C and the order (external).                                            *)

\* A realization has one version at a time that counts.
Publish(t, s) ==
  /\ onec[t] = "none" /\ s \in {"WAITING", "READY"}
  /\ onec' = [u \in Tokens |->
                IF u = t THEN s
                ELSE IF RealizationOf[u] = RealizationOf[t] /\ onec[u] \notin {"none", "CANCELLED"}
                       THEN "dropped" ELSE onec[u]]
  /\ UNCHANGED requested

\* A waiting candidate becomes ready; a realization is deleted, or changes.
ChangeCandidate(t, s) ==
  /\ \/ onec[t] = "WAITING" /\ s = "READY"
     \/ onec[t] \notin {"none", "CANCELLED"} /\ s = "CANCELLED"
     \/ onec[t] \in {"READY", "STORED", "PARTIAL"} /\ s = "dropped"
  /\ onec' = [onec EXCEPT ![t] = s]
  /\ UNCHANGED requested

SetInvoiceRequested ==
  requested' = ~requested /\ UNCHANGED onec

Change ==
  /\ changes > 0 /\ changes' = changes - 1
  /\ \/ \E t \in Tokens : \E s \in OnecState : Publish(t, s) \/ ChangeCandidate(t, s)
     \/ SetInvoiceRequested
  /\ UNCHANGED <<row, delivery, sync, call, accepted, syncs, faults, history>>

----------------------------------------------------------------------------
(* Synchronisation of one queue item.                                      *)

MapOnecState(s) ==
  CASE s = "READY" -> "QUEUED" [] s = "STORED" -> "AVAILABLE" [] s = "dropped" -> "WAITING" [] OTHER -> s

\* The queue, or the answer to a manager's request, shows candidate t.
FetchItem(s, t) ==
  /\ sync[s].pc = "idle" /\ onec[t] # "none"
  /\ syncs > 0 /\ syncs' = syncs - 1
  /\ sync' = [sync EXCEPT ![s] = [IdleSync EXCEPT !.pc = "fetched", !.t = t, !.item = onec[t]]]
  /\ UNCHANGED <<onec, requested, row, delivery, call, accepted, changes, faults, history>>

SyncRead(s) ==
  /\ sync[s].pc = "fetched"
  /\ sync' = [sync EXCEPT ![s].pc = "read", ![s].current = row[sync[s].t]]
  /\ UNCHANGED <<onec, requested, row, delivery, call, accepted, bounds, history>>

\* The update branch of the upsert: r is the row it meets, current the one
\* the transaction read.
SyncedRow(r, current, s) ==
  IF s = "CANCELLED" THEN [r EXCEPT !.state = "CANCELLED", !.lease = "none"]
  ELSE IF current # Null /\ (current.state = "SENT" \/ (current.state = "SENDING" /\ current.lease = "held"))
    THEN r
    ELSE [r EXCEPT !.state = MapOnecState(s)]

\* Rows a new version of the realization replaces.
Superseded(t, u) ==
  /\ u # t /\ RealizationOf[u] = RealizationOf[t]
  /\ row[u] # Null /\ row[u].state \in ActiveStates

SyncWrite(s) ==
  LET t == sync[s].t  item == sync[s].item  current == sync[s].current
  IN  /\ sync[s].pc = "read"
      /\ row' = [u \in Tokens |->
           IF u = t
             THEN IF row[t] = Null THEN [state |-> MapOnecState(item), lease |-> "none", s3Key |-> FALSE]
                  ELSE SyncedRow(row[t], current, item)
           ELSE IF current = Null /\ Superseded(t, u)
             THEN [row[u] EXCEPT !.state = "SUPERSEDED", !.lease = "none"]
           ELSE row[u]]
      /\ robbed' = IF current # Null THEN robbed
                   ELSE robbed \cup {u \in Tokens : Superseded(t, u) /\ row[u].lease = "held"}
      /\ sync' = [sync EXCEPT ![s] = IdleSync]
      /\ UNCHANGED <<onec, requested, delivery, call, accepted, bounds, overrun, unsure>>

----------------------------------------------------------------------------
(* processInvoice.                                                         *)

At(p, pc) == call[p].pc = pc
Goto(p, pc) == call' = [call EXCEPT ![p].pc = pc]
Return(p) == call' = [call EXCEPT ![p] = IdleCall]
SetRow(t, r) == row' = [row EXCEPT ![t] = r]

tables == <<row, delivery>>
outside == <<onec, requested, accepted, sync, changes, syncs>>

\* The run of the worker takes a candidate that is due, or a manager's
\* request starts one right after its synchronisation.
SelectByRun(t) ==
  /\ row[t] # Null
  /\ row[t].state \in RetryableStates \/ (row[t].state = "AVAILABLE" /\ requested)
  /\ row[t].lease # "held"

Select(p, t) ==
  /\ At(p, "idle")
  /\ SelectByRun(t) \/ (row[t] # Null /\ row[t].state = "QUEUED")
  /\ call' = [call EXCEPT ![p] = [IdleCall EXCEPT !.pc = "selected", !.t = t]]
  /\ UNCHANGED <<outside, tables, faults, history>>

\* Mutant of CanClaim: the lease is not looked at.
MutLeaseIgnored(r) == r.state \in ProcessableStates

CanClaim(r) == r.state \in ProcessableStates /\ r.lease # "held"

Claim(p) ==
  LET t == call[p].t
  IN  /\ At(p, "selected")
      /\ IF CanClaim(row[t])
           THEN SetRow(t, [row[t] EXCEPT !.state = "SENDING", !.lease = "held"]) /\ Goto(p, "claimed")
           ELSE Return(p) /\ UNCHANGED row
      /\ UNCHANGED <<outside, delivery, faults, history>>

\* The row with its order, its manager and the manager's settings; the
\* check of 1C comes first whether the PDF is stored or not.
Load(p) ==
  /\ At(p, "claimed")
  /\ \E eligible \in EligibleSets :
       call' = [call EXCEPT ![p].pc = "check", ![p].s3Key = row[call[p].t].s3Key,
                            ![p].eligible = eligible]
  /\ UNCHANGED <<outside, tables, faults, history>>

SameCandidate(t) == onec[t] \in {"READY", "STORED", "PARTIAL"}

\* validateCandidate: go on to pc, or to markSuperseded.
Validate(p, from, to) ==
  /\ At(p, from)
  /\ Goto(p, IF SameCandidate(call[p].t) THEN to ELSE "drop")
  /\ UNCHANGED <<outside, tables, faults, history>>

ValidateCandidate(p) ==
  \/ Validate(p, "check", IF call[p].s3Key THEN "refresh" ELSE "render")
  \/ Validate(p, "recheck", "store")
  \/ Validate(p, "validate", "send")

MarkSuperseded(p) ==
  LET t == call[p].t
  IN  /\ At(p, "drop")
      /\ SetRow(t, [row[t] EXCEPT !.state = "SUPERSEDED", !.lease = "none"])
      /\ Return(p)
      /\ UNCHANGED <<outside, delivery, faults, history>>

RenderPdf(p) ==
  /\ At(p, "render") /\ Goto(p, "recheck")
  /\ UNCHANGED <<outside, tables, faults, history>>

StorePdf(p) ==
  /\ At(p, "store") /\ Goto(p, "refresh")
  /\ SetRow(call[p].t, [row[call[p].t] EXCEPT !.s3Key = TRUE])
  /\ UNCHANGED <<outside, delivery, faults, history>>

\* Automatic delivery may have been switched off: then the PDF is only kept.
Refresh(p) ==
  LET t == call[p].t
  IN  /\ At(p, "refresh")
      /\ IF requested
           THEN Goto(p, "open") /\ UNCHANGED row
           ELSE /\ SetRow(t, [row[t] EXCEPT !.state = "AVAILABLE", !.lease = "none"])
                /\ call' = [call EXCEPT ![p].pc = "ack", ![p].report = "STORED"]
      /\ UNCHANGED <<outside, delivery, faults, history>>

----------------------------------------------------------------------------
(* deliverChannel, for one channel after the other.                        *)

Channel(p) == ChannelOrder[call[p].i]
SetDelivery(p, d) == delivery' = [delivery EXCEPT ![call[p].t][Channel(p)] = d]
Existing(p) == call[p].existing

\* deliverChannel returns result: the next channel, or the end.
NextChannel(p, result) ==
  call' = [call EXCEPT ![p].pc = IF call[p].i = 2 THEN "finish" ELSE "open",
                       ![p].i = @ + 1, ![p].results[Channel(p)] = result]

Open(p) ==
  LET d == delivery[call[p].t][Channel(p)]
  IN  /\ At(p, "open")
      /\ \/ d.state = "SENT" /\ NextChannel(p, "SENT") /\ UNCHANGED delivery
         \/ /\ d.state # "SENT" /\ Channel(p) \notin call[p].eligible
            /\ SetDelivery(p, [d EXCEPT !.state = "SKIPPED"]) /\ NextChannel(p, "SKIPPED")
         \/ /\ d.state # "SENT" /\ Channel(p) \in call[p].eligible /\ d.backoff
            /\ NextChannel(p, "ERROR") /\ UNCHANGED delivery
         \/ /\ d.state # "SENT" /\ Channel(p) \in call[p].eligible /\ ~d.backoff
            /\ call' = [call EXCEPT ![p].pc = "validate", ![p].existing = d]
            /\ UNCHANGED delivery
      /\ UNCHANGED <<outside, row, faults, history>>

\* The delivery is marked SENDING and the document goes to the bot, unless
\* an earlier attempt has got that far.
NeedsDocument(d) == ~d.sentAt

Accept(p) == accepted' = [accepted EXCEPT ![call[p].t][Channel(p)] = @ + 1]

SendDocument(p) ==
  /\ At(p, "send")
  /\ SetDelivery(p, [delivery[call[p].t][Channel(p)] EXCEPT !.state = "SENDING"])
  /\ IF NeedsDocument(Existing(p)) THEN Accept(p) /\ Goto(p, "accepted")
                                   ELSE Goto(p, "note") /\ UNCHANGED accepted
  /\ UNCHANGED <<onec, requested, row, sync, bounds, history>>

PersistSentAt(p) ==
  /\ At(p, "accepted") /\ Goto(p, "note")
  /\ SetDelivery(p, [delivery[call[p].t][Channel(p)] EXCEPT !.sentAt = TRUE, !.backoff = FALSE])
  /\ UNCHANGED <<outside, row, faults, history>>

SendNote(p) ==
  /\ At(p, "note") /\ Goto(p, "noted")
  /\ UNCHANGED <<outside, tables, faults, history>>

MarkDelivered(p) ==
  /\ At(p, "noted")
  /\ SetDelivery(p, [state |-> "SENT", sentAt |-> TRUE, backoff |-> FALSE])
  /\ NextChannel(p, "SENT")
  /\ UNCHANGED <<outside, row, faults, history>>

\* The bot refused the document or the note, or a record failed.
MarkUndelivered(p) ==
  /\ At(p, "undelivered")
  /\ SetDelivery(p, [delivery[call[p].t][Channel(p)] EXCEPT !.state = "ERROR", !.backoff = TRUE])
  /\ NextChannel(p, "ERROR")
  /\ UNCHANGED <<outside, row, faults, history>>

----------------------------------------------------------------------------
(* The end of processInvoice.                                              *)

\* Mutant of FinalState: no failure counts as success.
MutNobodyToSend(eligible, results) ==
  IF {c \in eligible : results[c] = "ERROR"} = {} THEN "SENT"
  ELSE IF {c \in eligible : results[c] = "SENT"} # {} THEN "PARTIAL" ELSE "ERROR"

FinalState(eligible, results) ==
  LET sent == {c \in eligible : results[c] = "SENT"}
      failed == {c \in eligible : results[c] = "ERROR"}
  IN  IF eligible = {}
        THEN IF \E c \in Channels : results[c] = "SENT" THEN "SENT" ELSE "ERROR"
      ELSE IF failed = {} /\ sent = eligible THEN "SENT"
      ELSE IF sent # {} THEN "PARTIAL" ELSE "ERROR"

Finish(p) ==
  LET t == call[p].t
      final == FinalState(call[p].eligible, call[p].results)
  IN  /\ At(p, "finish")
      /\ SetRow(t, [row[t] EXCEPT !.state = final, !.lease = "none"])
      /\ call' = [call EXCEPT ![p].pc = "ack", ![p].report = final]
      /\ UNCHANGED <<outside, delivery, faults, history>>

\* 1C takes the report on a candidate it still counts; a report of an error
\* leaves it to be tried again.
Acknowledged(t, report) ==
  IF SameCandidate(t) /\ report \in {"STORED", "SENT", "PARTIAL"}
    THEN [onec EXCEPT ![t] = report] ELSE onec

Ack(p) ==
  /\ At(p, "ack") /\ Return(p)
  /\ onec' = Acknowledged(call[p].t, call[p].report)
  /\ UNCHANGED <<requested, tables, sync, accepted, bounds, history>>

Working(p, t) == call[p].t = t /\ call[p].pc \notin {"idle", "selected"}

\* From its claim until it gives the row back; a call in "ack" has done so.
Holding(p, t) == Working(p, t) /\ call[p].pc \notin {"ack", "failed"}

\* The catch of processInvoice; the report of the error may get lost.
MarkFailed(p) ==
  LET t == call[p].t
  IN  /\ At(p, "failed")
      /\ row' = IF row[t].state = "SUPERSEDED" THEN row
                ELSE [row EXCEPT ![t].state = "ERROR", ![t].lease = "none"]
      /\ robbed' = IF \E q \in Calls \ {p} : Working(q, t) THEN robbed \cup {t} ELSE robbed
      /\ Return(p)
      /\ UNCHANGED <<outside, delivery, faults, overrun, unsure>>

----------------------------------------------------------------------------
(* Failures and time.                                                      *)

Fault == faults > 0 /\ faults' = faults - 1

\* A call of 1C, of the storage or of the database fails.
CallFails(p) ==
  /\ Fault
  /\ call[p].pc \in {"check", "render", "recheck", "store", "refresh", "open", "validate",
                     "undelivered", "drop", "finish", "ack"}
  /\ Goto(p, "failed")
  /\ UNCHANGED <<outside, tables, history>>

\* 1C takes the report, its answer is lost.
AckAnswerLost(p) ==
  /\ Fault /\ At(p, "ack") /\ Goto(p, "failed")
  /\ onec' = Acknowledged(call[p].t, call[p].report)
  /\ UNCHANGED <<requested, tables, sync, accepted, changes, syncs, history>>

Unrecorded(p) == unsure' = [unsure EXCEPT ![call[p].t][Channel(p)] = @ + 1]

\* The bot refuses the document (or has it, and the answer is lost).
SendFails(p, lost) ==
  /\ Fault /\ At(p, "send") /\ NeedsDocument(Existing(p)) /\ Goto(p, "undelivered")
  /\ SetDelivery(p, [delivery[call[p].t][Channel(p)] EXCEPT !.state = "SENDING"])
  /\ IF lost THEN Accept(p) /\ Unrecorded(p) ELSE UNCHANGED <<accepted, unsure>>
  /\ UNCHANGED <<onec, requested, row, sync, changes, syncs, overrun, robbed>>

NotRecorded(p) == IF At(p, "accepted") THEN Unrecorded(p) ELSE UNCHANGED unsure

\* The record of the acceptance fails, or the note, or its record.
DeliveryStepFails(p) ==
  /\ Fault /\ call[p].pc \in {"accepted", "note", "noted"} /\ Goto(p, "undelivered")
  /\ NotRecorded(p)
  /\ UNCHANGED <<outside, tables, overrun, robbed>>

\* The process dies, or cannot write the end of the call.
Crash(p) ==
  /\ Fault /\ ~At(p, "idle") /\ Return(p)
  /\ NotRecorded(p)
  /\ UNCHANGED <<outside, tables, overrun, robbed>>

\* A lease passes: of a call that is gone, or (a fault) of one that still
\* holds its row.
LeasePasses(t) ==
  /\ row[t] # Null /\ row[t].lease = "held"
  /\ SetRow(t, [row[t] EXCEPT !.lease = "past"])
  /\ IF \E p \in Calls : Holding(p, t) THEN Fault /\ overrun' = overrun \cup {t}
                                       ELSE UNCHANGED <<faults, overrun>>
  /\ UNCHANGED <<outside, delivery, call, robbed, unsure>>

BackoffPasses(t, c) ==
  /\ delivery[t][c].backoff
  /\ delivery' = [delivery EXCEPT ![t][c].backoff = FALSE]
  /\ UNCHANGED <<outside, row, call, faults, history>>

----------------------------------------------------------------------------
CallStep(p) ==
  \/ Claim(p) \/ Load(p) \/ ValidateCandidate(p) \/ MarkSuperseded(p)
  \/ RenderPdf(p) \/ StorePdf(p) \/ Refresh(p)
  \/ Open(p) \/ SendDocument(p) \/ PersistSentAt(p) \/ SendNote(p)
  \/ MarkDelivered(p) \/ MarkUndelivered(p)
  \/ Finish(p) \/ Ack(p) \/ MarkFailed(p)

CallFault(p) ==
  \/ CallFails(p) \/ AckAnswerLost(p) \/ DeliveryStepFails(p) \/ Crash(p)
  \/ \E lost \in BOOLEAN : SendFails(p, lost)

SyncStep(s) == SyncRead(s) \/ SyncWrite(s)

Next ==
  \/ Change
  \/ \E s \in Syncs : SyncStep(s) \/ \E t \in Tokens : FetchItem(s, t)
  \/ \E p \in Calls : CallStep(p) \/ CallFault(p) \/ \E t \in Tokens : Select(p, t)
  \/ \E t \in Tokens : LeasePasses(t) \/ \E c \in Channels : BackoffPasses(t, c)

Spec == Init /\ [][Next]_vars

\* The worker's timer fires again and again and takes the oldest candidates
\* first, a call that runs goes on, time passes.
Fairness ==
  /\ \A t \in Tokens : SF_vars(\E p \in Calls : SelectByRun(t) /\ Select(p, t))
  /\ \A p \in Calls : WF_vars(CallStep(p))
  /\ \A s \in Syncs : WF_vars(SyncStep(s))
  /\ \A t \in Tokens : /\ WF_vars(LeasePasses(t) /\ ~\E p \in Calls : Holding(p, t))
                       /\ \A c \in Channels : WF_vars(BackoffPasses(t, c))

FairSpec == Spec /\ Fairness

----------------------------------------------------------------------------
(* Properties.                                                             *)

\* Every variable has its type.
TypeOK ==
  /\ onec \in [Tokens -> OnecState] /\ requested \in BOOLEAN
  /\ row \in [Tokens -> Invoices \cup {Null}]
  /\ delivery \in [Tokens -> [Channels -> Deliveries]]
  /\ sync \in [Syncs -> SyncCalls] /\ call \in [Calls -> ProcessCalls]
  /\ accepted \in [Tokens -> [Channels -> Nat]]
  /\ changes \in Nat /\ syncs \in Nat /\ faults \in Nat
  /\ overrun \subseteq Tokens /\ robbed \subseteq Tokens /\ unsure \in [Tokens -> [Channels -> Nat]]

\* A messenger gets the document of a version once, and once more for each
\* acceptance whose answer or record was lost, whatever calls, crashes,
\* retries, synchronisations and changes in 1C overlap: the lease of a dead
\* call and its half-done delivery are taken over without a second document.
\* It is promised only while a call keeps its lease: not when the lease ended
\* before its call, by time, by the catch of another call or by the late
\* synchronisation of an older version (processInvoice, deliverChannel,
\* syncQueueItem).
DocumentSentOnce ==
  \A t \in Tokens : \A c \in Channels :
    t \in overrun \cup robbed \/ accepted[t][c] <= 1 + unsure[t][c]

\* An invoice shown as SENT, here or in 1C, has reached a messenger: neither
\* skipped channels nor retries, lost answers or stale queue items make up a
\* delivery (processInvoice, syncQueueItem).
SentMeansAccepted ==
  \A t \in Tokens :
    onec[t] = "SENT" \/ (row[t] # Null /\ row[t].state = "SENT") =>
      \E c \in Channels : accepted[t][c] > 0

\* A version in work always settles: it is sent, kept for download, replaced,
\* cancelled or back to waiting, whatever failed or crashed on the way
\* (runOnce, processInvoice).
Settled(t) ==
  row[t] = Null \/ row[t].state \in {"SENT", "SUPERSEDED", "CANCELLED", "WAITING"}
                \/ (row[t].state = "AVAILABLE" /\ ~requested)

\* A call for t has found no channel on which the manager can be reached.
Unreachable(t) == \E p \in Calls : call[p].pc = "finish" /\ call[p].t = t /\ call[p].eligible = {}

\* Liveness of the whole worker: every version settles for good, unless the
\* manager cannot be reached again and again, which is tried for ever
\* (runOnce, processInvoice).
InvoicesSettle == \A t \in Tokens : []<>Unreachable(t) \/ <>[]Settled(t)

----------------------------------------------------------------------------
(* What the repository says and the code does not keep.                    *)

\* "A retry sends only that note and never duplicates the document itself":
\* as long as leases hold, a document is sent once, and once more for each
\* acceptance that was not recorded (deliverChannel).
RetryNeverDuplicates ==
  \A t \in Tokens : \A c \in Channels :
    t \in overrun \/ accepted[t][c] <= 1 + unsure[t][c]

=============================================================================
