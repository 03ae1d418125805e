---------------------------- MODULE InvoiceProofs ----------------------------
(***************************************************************************)
(* Proofs about the delivery of invoices (InvoiceDelivery): types, what    *)
(* SENT means, and how often a messenger gets a document.                  *)
(***************************************************************************)
EXTENDS InvoiceDelivery, Integers, TLAPS

-----------------------------------------------------------------------------
(* Types, and what a call knows where it stands.                             *)

Unfinished ==
  {"selected", "claimed", "check", "render", "recheck", "store", "refresh", "open",
   "validate", "send", "accepted", "note", "noted", "undelivered"}

\* A call in progress is about a row, and until it is done about a channel.
Placed(p) ==
  /\ call[p].pc # "idle" => call[p].t \in Tokens /\ row[call[p].t] # Null
  /\ call[p].pc \in Unfinished => call[p].i \in {1, 2}

CallsOK == \A p \in Calls : Placed(p)

\* An item of the queue exists in 1C.
SyncsOK == \A s \in Syncs : sync[s].pc # "idle" => sync[s].t \in Tokens /\ sync[s].item # "none"

TypeInv == TypeOK /\ CallsOK /\ SyncsOK

\* Rows are never deleted.
RowsStay == row' \in [Tokens -> Invoices \cup {Null}] /\ \A t \in Tokens : row[t] # Null => row'[t] # Null

\* The step is of call p.
Alone(p) ==
  /\ call' \in [Calls -> ProcessCalls]
  /\ \A q \in Calls : q # p => call'[q] = call[q]

\* The call p keeps what it knows.
KeepsCall(p) ==
  /\ call'[p].t = call[p].t /\ call'[p].i = call[p].i /\ call'[p].s3Key = call[p].s3Key
  /\ call'[p].existing = call[p].existing /\ call'[p].eligible = call[p].eligible
  /\ call'[p].results = call[p].results /\ call'[p].report = call[p].report

LEMMA IdleCallType ==
  /\ IdleCall \in ProcessCalls
  /\ IdleCall.pc = "idle" /\ IdleCall.report = "none" /\ IdleCall.i = 1
  /\ \A c \in Channels : IdleCall.results[c] = "none"
BY DEF IdleCall, ProcessCalls, NoDelivery, Deliveries

Pcs ==
  {"idle", "selected", "claimed", "check", "render", "recheck", "store", "refresh", "open",
   "validate", "send", "accepted", "note", "noted", "undelivered", "finish", "ack", "drop", "failed"}

LEMMA GotoEffect ==
  ASSUME TypeInv, NEW p \in Calls, NEW pc \in Pcs, Goto(p, pc)
  PROVE  Alone(p) /\ KeepsCall(p) /\ call'[p].pc = pc
<1>1. call \in [Calls -> ProcessCalls] /\ call[p] \in ProcessCalls
  BY DEF TypeInv, TypeOK
<1>2. [call[p] EXCEPT !.pc = pc] \in ProcessCalls
  BY <1>1 DEF ProcessCalls, Pcs
<1>3. call' = [call EXCEPT ![p] = [call[p] EXCEPT !.pc = pc]]
  BY DEF Goto
<1>. QED  BY <1>1, <1>2, <1>3 DEF Alone, KeepsCall, ProcessCalls

LEMMA ReturnEffect ==
  ASSUME TypeInv, NEW p \in Calls, Return(p)
  PROVE  Alone(p) /\ call'[p] = IdleCall /\ call'[p].pc = "idle"
BY IdleCallType DEF TypeInv, TypeOK, Return, Alone

LEMMA NextChannelEffect ==
  ASSUME TypeInv, NEW p \in Calls, NEW result \in {"SENT", "SKIPPED", "ERROR"},
         call[p].pc \in Unfinished, NextChannel(p, result)
  PROVE  /\ Alone(p) /\ Channel(p) \in Channels
         /\ call'[p].pc = (IF call[p].i = 2 THEN "finish" ELSE "open")
         /\ call'[p].t = call[p].t /\ call'[p].i = call[p].i + 1
         /\ call'[p].existing = call[p].existing /\ call'[p].report = call[p].report
         /\ call'[p].eligible = call[p].eligible
         /\ call'[p].results = [call[p].results EXCEPT ![Channel(p)] = result]
<1>1. call \in [Calls -> ProcessCalls] /\ call[p] \in ProcessCalls /\ call[p].i \in {1, 2}
  BY DEF TypeInv, TypeOK, CallsOK, Placed
<1>2. Channel(p) \in Channels
  BY <1>1 DEF Channel, ChannelOrder, Channels
<1> DEFINE pc == IF call[p].i = 2 THEN "finish" ELSE "open"
           next == call[p].i + 1
           results == [call[p].results EXCEPT ![Channel(p)] = result]
<1>3. call' = [call EXCEPT ![p] = [call[p] EXCEPT !.pc = pc, !.i = next, !.results = results]]
  BY ZenonT(30) DEF NextChannel
<1>4. pc \in {"finish", "open"} /\ next \in 1..3
  BY <1>1
<1>5. results \in [Channels -> {"none", "SENT", "SKIPPED", "ERROR"}]
  BY <1>1, <1>2 DEF ProcessCalls
<1>6. pc = (IF call[p].i = 2 THEN "finish" ELSE "open") /\ next = call[p].i + 1
      /\ results = [call[p].results EXCEPT ![Channel(p)] = result]
  OBVIOUS
<1> HIDE DEF pc, next, results
<1>7. [call[p] EXCEPT !.pc = pc, !.i = next, !.results = results] \in ProcessCalls
  BY <1>1, <1>4, <1>5 DEF ProcessCalls
<1>. QED  BY <1>1, <1>2, <1>3, <1>6, <1>7 DEF Alone, ProcessCalls

LEMMA RowType ==
  ASSUME TypeInv, NEW t \in Tokens, row[t] # Null, NEW r \in Invoices, SetRow(t, r)
  PROVE  RowsStay /\ row'[t] = r /\ \A u \in Tokens : u # t => row'[u] = row[u]
BY InvoiceNullAssumption DEF TypeInv, TypeOK, RowsStay, SetRow

\* What is left to show of a step of call p.
LEMMA CallType ==
  ASSUME TypeInv, RowsStay, NEW p \in Calls, Alone(p),
         call'[p].pc # "idle" => call[p].pc # "idle" /\ call'[p].t = call[p].t,
         call'[p].pc \in Unfinished => call'[p].i \in {1, 2}
  PROVE  CallsOK'
<1>1. ASSUME NEW q \in Calls, q # p PROVE Placed(q)'
  BY <1>1 DEF TypeInv, CallsOK, Placed, RowsStay, Alone
<1>2. Placed(p)'
  BY DEF TypeInv, CallsOK, Placed, RowsStay
<1>. QED  BY <1>1, <1>2 DEF CallsOK

\* A record of a delivery.
LEMMA DeliveryType ==
  ASSUME TypeInv, NEW p \in Calls, call[p].pc \in Unfinished, NEW d \in Deliveries, SetDelivery(p, d)
  PROVE  /\ delivery' \in [Tokens -> [Channels -> Deliveries]]
         /\ \A t \in Tokens : \A c \in Channels :
              delivery'[t][c] = IF t = call[p].t /\ c = Channel(p) THEN d ELSE delivery[t][c]
<1>1. call[p].t \in Tokens /\ Channel(p) \in Channels
  BY DEF TypeInv, TypeOK, CallsOK, Placed, Channel, ChannelOrder, Channels, Unfinished
<1>. QED  BY <1>1 DEF SetDelivery, TypeInv, TypeOK

\* The messenger of the call's channel takes its document.
LEMMA AcceptEffect ==
  ASSUME TypeInv, NEW p \in Calls, call[p].pc \in Unfinished, Accept(p)
  PROVE  /\ accepted' \in [Tokens -> [Channels -> Nat]]
         /\ \A t \in Tokens : \A c \in Channels :
              accepted'[t][c] = IF t = call[p].t /\ c = Channel(p) THEN accepted[t][c] + 1 ELSE accepted[t][c]
<1>1. call[p].t \in Tokens /\ Channel(p) \in Channels
  BY DEF TypeInv, TypeOK, CallsOK, Placed, Channel, ChannelOrder, Channels, Unfinished
<1>. QED  BY <1>1 DEF Accept, TypeInv, TypeOK

\* The acceptance a call has seen may be forgotten.
LEMMA UnrecordedType ==
  ASSUME TypeInv, NEW p \in Calls,
         \/ call[p].pc \in Unfinished /\ Unrecorded(p)
         \/ NotRecorded(p)
         \/ unsure' = unsure
  PROVE  unsure' \in [Tokens -> [Channels -> Nat]]
<1>0. unsure \in [Tokens -> [Channels -> Nat]]  BY DEF TypeInv, TypeOK
<1>1. CASE unsure' = unsure  BY <1>0, <1>1
<1>2. CASE call[p].pc \in Unfinished /\ Unrecorded(p)
  <2>1. call[p].t \in Tokens /\ Channel(p) \in Channels
    BY <1>2 DEF TypeInv, TypeOK, CallsOK, Placed, Channel, ChannelOrder, Channels, Unfinished
  <2>2. PICK n \in Nat : unsure' = [unsure EXCEPT ![call[p].t][Channel(p)] = n]
    <3>1. unsure[call[p].t][Channel(p)] + 1 \in Nat  BY <1>0, <2>1
    <3>2. unsure' = [unsure EXCEPT ![call[p].t][Channel(p)] = unsure[call[p].t][Channel(p)] + 1]
      BY <1>2 DEF Unrecorded
    <3>. QED  BY <3>1, <3>2
  <2>. QED  BY <1>0, <2>1, <2>2
<1>3. CASE NotRecorded(p)
  BY <1>1, <1>2, <1>3 DEF NotRecorded, At, Unfinished
<1>. QED  BY <1>1, <1>2, <1>3

LEMMA RowSame == ASSUME TypeInv, UNCHANGED row PROVE RowsStay
BY DEF TypeInv, TypeOK, RowsStay

\* What a step of a call leaves alone, or keeps in its type.
Rest ==
  /\ onec' \in [Tokens -> OnecState] /\ requested' = requested /\ sync' = sync
  /\ delivery' \in [Tokens -> [Channels -> Deliveries]]
  /\ accepted' \in [Tokens -> [Channels -> Nat]]
  /\ changes' = changes /\ syncs' = syncs /\ faults' \in Nat
  /\ overrun' = overrun /\ robbed' \subseteq Tokens /\ unsure' \in [Tokens -> [Channels -> Nat]]

LEMMA CallStepType ==
  ASSUME TypeInv, NEW p \in Calls, Alone(p), RowsStay, Rest,
         call'[p].pc # "idle" => call[p].pc # "idle" /\ call'[p].t = call[p].t,
         call'[p].pc \in Unfinished => call'[p].i \in {1, 2}
  PROVE  TypeInv'
<1>1. CallsOK'  BY CallType
<1>2. SyncsOK'  BY DEF Rest, TypeInv, SyncsOK
<1>3. TypeOK'
  BY DEF TypeInv, TypeOK, Rest, RowsStay, Alone
<1>. QED  BY <1>1, <1>2, <1>3 DEF TypeInv

\* A row of the table with some of its columns written.
LEMMA RowParts ==
  ASSUME TypeInv, NEW t \in Tokens, row[t] # Null
  PROVE  /\ row[t] \in Invoices
         /\ \A st \in InvoiceState : \A l \in {"none", "held", "past"} :
              [row[t] EXCEPT !.state = st, !.lease = l] \in Invoices
         /\ \A st \in InvoiceState : [row[t] EXCEPT !.state = st] \in Invoices
         /\ \A l \in {"none", "held", "past"} : [row[t] EXCEPT !.lease = l] \in Invoices
         /\ [row[t] EXCEPT !.s3Key = TRUE] \in Invoices
BY DEF TypeInv, TypeOK, Invoices

LEMMA FinalStateType ==
  ASSUME NEW eligible, NEW results
  PROVE  FinalState(eligible, results) \in {"SENT", "PARTIAL", "ERROR"}
BY DEF FinalState

LEMMA AcknowledgedType ==
  ASSUME TypeInv, NEW t \in Tokens, NEW report
  PROVE  /\ Acknowledged(t, report) \in [Tokens -> OnecState]
         /\ \A u \in Tokens : u # t => Acknowledged(t, report)[u] = onec[u]
         /\ \/ Acknowledged(t, report)[t] = onec[t]
            \/ onec[t] # "CANCELLED" /\ report # "CANCELLED" /\ Acknowledged(t, report)[t] = report
BY DEF Acknowledged, SameCandidate, TypeInv, TypeOK, OnecState

\* Where a call in progress stands.
LEMMA WhereItStands ==
  ASSUME TypeInv, NEW p \in Calls
  PROVE  /\ call[p] \in ProcessCalls
         /\ call[p].pc # "idle" => call[p].t \in Tokens /\ row[call[p].t] # Null
         /\ call[p].pc \in Unfinished => call[p].i \in {1, 2} /\ Channel(p) \in Channels
BY DEF TypeInv, TypeOK, CallsOK, Placed, Channel, ChannelOrder, Channels

-----------------------------------------------------------------------------
(* What each step of a call does, and that it keeps the types.               *)

\* Nothing but the call, its row and the history moves.
Inside == /\ onec' = onec /\ sync' = sync /\ accepted' = accepted /\ overrun' = overrun
Quiet == Inside /\ row' = row /\ delivery' = delivery /\ robbed' = robbed

\* The row of token t is the only one written.
WritesRow(t) == \A u \in Tokens : u # t => row'[u] = row[u]

LEMMA ClaimEffect ==
  ASSUME TypeInv, NEW p \in Calls, Claim(p)
  PROVE  /\ TypeInv' /\ Alone(p) /\ Inside /\ delivery' = delivery /\ robbed' = robbed /\ unsure' = unsure
         /\ WritesRow(call[p].t)
         /\ \/ call'[p] = IdleCall /\ row' = row
            \/ /\ call'[p].pc = "claimed" /\ KeepsCall(p) /\ row[call[p].t].lease # "held"
               /\ row'[call[p].t].lease = "held" /\ row'[call[p].t].state = "SENDING"
<1> DEFINE t == call[p].t
<1>0. call[p].pc = "selected" /\ t \in Tokens /\ row[t] # Null /\ call[p].i \in {1, 2}
  BY WhereItStands DEF Claim, At, Unfinished
<1>1. Rest /\ Inside /\ delivery' = delivery /\ robbed' = robbed /\ unsure' = unsure
  BY DEF Claim, outside, history, TypeInv, TypeOK, Rest, Inside
<1>2. CASE ~CanClaim(row[t])
  <2>1. Return(p) /\ UNCHANGED row  BY <1>2 DEF Claim
  <2>2. Alone(p) /\ call'[p] = IdleCall /\ call'[p].pc = "idle"  BY <2>1, ReturnEffect
  <2>3. RowsStay  BY <2>1, RowSame
  <2>4. TypeInv'  BY <1>1, <2>2, <2>3, CallStepType DEF Unfinished
  <2>. QED  BY <1>1, <2>1, <2>2, <2>4 DEF WritesRow
<1>3. CASE CanClaim(row[t])
  <2>1. SetRow(t, [row[t] EXCEPT !.state = "SENDING", !.lease = "held"]) /\ Goto(p, "claimed")
    BY <1>3 DEF Claim
  <2>2. [row[t] EXCEPT !.state = "SENDING", !.lease = "held"] \in Invoices
    BY <1>0, RowParts DEF InvoiceState
  <2>3. RowsStay /\ row'[t] = [row[t] EXCEPT !.state = "SENDING", !.lease = "held"] /\ WritesRow(t)
    BY <1>0, <2>1, <2>2, RowType DEF WritesRow
  <2>4. Alone(p) /\ KeepsCall(p) /\ call'[p].pc = "claimed"
    BY <2>1, GotoEffect DEF Pcs
  <2>5. TypeInv'
    BY <1>0, <1>1, <2>3, <2>4, CallStepType DEF Unfinished, KeepsCall
  <2>6. row[t] \in Invoices /\ row[t].lease # "held"
    BY <1>0, <1>3, RowParts DEF CanClaim
  <2>7. row'[t].lease = "held" /\ row'[t].state = "SENDING"
    BY <2>3, <2>6 DEF Invoices
  <2>. QED  BY <1>1, <2>3, <2>4, <2>5, <2>6, <2>7
<1>. QED  BY <1>2, <1>3

LEMMA LoadEffect ==
  ASSUME TypeInv, NEW p \in Calls, Load(p)
  PROVE  /\ TypeInv' /\ Alone(p) /\ Quiet /\ unsure' = unsure
         /\ call[p].pc = "claimed" /\ call'[p].pc = "check"
         /\ call'[p].t = call[p].t /\ call'[p].results = call[p].results /\ call'[p].report = call[p].report
<1>0. /\ call[p].pc = "claimed" /\ call[p] \in ProcessCalls /\ call[p].t \in Tokens /\ row[call[p].t] # Null
      /\ call[p].i \in {1, 2}
  BY WhereItStands DEF Load, At, Unfinished
<1>1. Rest /\ Quiet /\ unsure' = unsure
  BY DEF Load, outside, history, tables, TypeInv, TypeOK, Rest, Inside, Quiet
<1>2. PICK eligible \in EligibleSets :
        call' = [call EXCEPT ![p] = [call[p] EXCEPT !.pc = "check", !.s3Key = row[call[p].t].s3Key,
                                                    !.eligible = eligible]]
  BY DEF Load
<1>3. row[call[p].t].s3Key \in BOOLEAN /\ eligible \in SUBSET Channels
  BY <1>0, RowParts, EligibleAssumption DEF Invoices
<1>4. [call[p] EXCEPT !.pc = "check", !.s3Key = row[call[p].t].s3Key, !.eligible = eligible] \in ProcessCalls
  BY <1>0, <1>3 DEF ProcessCalls
<1>5. /\ Alone(p) /\ call'[p].pc = "check" /\ call'[p].t = call[p].t /\ call'[p].i = call[p].i
      /\ call'[p].results = call[p].results /\ call'[p].report = call[p].report
  BY ZenonT(30), <1>0, <1>2, <1>4 DEF TypeInv, TypeOK, Alone, ProcessCalls
<1>6. RowsStay  BY <1>1, RowSame DEF Quiet
<1>. QED  BY <1>0, <1>1, <1>5, <1>6, CallStepType DEF Unfinished

\* A step that only moves the call on.
LEMMA MoveEffect ==
  ASSUME TypeInv, NEW p \in Calls, NEW pc \in Pcs \ {"idle"}, call[p].pc # "idle", Goto(p, pc), Rest, row' = row,
         pc \in Unfinished => call[p].i \in {1, 2}
  PROVE  TypeInv' /\ Alone(p) /\ KeepsCall(p) /\ call'[p].pc = pc
<1>1. Alone(p) /\ KeepsCall(p) /\ call'[p].pc = pc  BY GotoEffect
<1>2. RowsStay  BY RowSame
<1>. QED  BY <1>1, <1>2, CallStepType DEF KeepsCall

LEMMA ValidateEffect ==
  ASSUME TypeInv, NEW p \in Calls, ValidateCandidate(p)
  PROVE  /\ TypeInv' /\ Alone(p) /\ Quiet /\ unsure' = unsure /\ KeepsCall(p)
         /\ call[p].pc \in {"check", "recheck", "validate"}
         /\ call'[p].pc \in {"refresh", "render", "store", "send", "drop"}
         /\ call'[p].pc = "send" => call[p].pc = "validate" /\ onec[call[p].t] # "CANCELLED"
<1>1. Rest /\ Quiet /\ unsure' = unsure
  BY DEF ValidateCandidate, Validate, outside, history, tables, TypeInv, TypeOK, Rest, Inside, Quiet
<1>2. PICK pc \in {"refresh", "render", "store", "send", "drop"} :
        /\ Goto(p, pc) /\ call[p].pc \in {"check", "recheck", "validate"}
        /\ pc = "send" => call[p].pc = "validate" /\ onec[call[p].t] # "CANCELLED"
  <2>1. ASSUME NEW from, NEW to, Validate(p, from, to)
        PROVE  \/ call[p].pc = from /\ Goto(p, to) /\ onec[call[p].t] # "CANCELLED"
               \/ call[p].pc = from /\ Goto(p, "drop")
    BY <2>1 DEF Validate, At, SameCandidate
  <2>2. CASE Validate(p, "check", IF call[p].s3Key THEN "refresh" ELSE "render")
    BY <2>2, <2>1
  <2>3. CASE Validate(p, "recheck", "store")  BY <2>3, <2>1
  <2>4. CASE Validate(p, "validate", "send")  BY <2>4, <2>1
  <2>. QED  BY <2>2, <2>3, <2>4 DEF ValidateCandidate
<1>3. call[p].i \in {1, 2} /\ call[p].pc # "idle" /\ pc \in Pcs \ {"idle"}
  BY <1>2, WhereItStands DEF Unfinished, Pcs
<1>4. TypeInv' /\ Alone(p) /\ KeepsCall(p) /\ call'[p].pc = pc
  BY <1>1, <1>2, <1>3, MoveEffect DEF Quiet
<1>. QED  BY <1>1, <1>2, <1>4

\* The steps that do nothing but go on.
LEMMA GoOnEffect ==
  ASSUME TypeInv, NEW p \in Calls, RenderPdf(p) \/ SendNote(p)
  PROVE  /\ TypeInv' /\ Alone(p) /\ Quiet /\ unsure' = unsure /\ KeepsCall(p)
         /\ \/ call[p].pc = "render" /\ call'[p].pc = "recheck"
            \/ call[p].pc = "note" /\ call'[p].pc = "noted"
<1>1. Rest /\ Quiet /\ unsure' = unsure
  BY DEF RenderPdf, SendNote, outside, history, tables, TypeInv, TypeOK, Rest, Inside, Quiet
<1>2. PICK pc \in {"recheck", "noted"} :
        /\ Goto(p, pc)
        /\ \/ call[p].pc = "render" /\ pc = "recheck"
           \/ call[p].pc = "note" /\ pc = "noted"
  BY DEF RenderPdf, SendNote, At
<1>3. call[p].i \in {1, 2} /\ call[p].pc # "idle" /\ pc \in Pcs \ {"idle"}
  BY <1>2, WhereItStands DEF Unfinished, Pcs
<1>. QED  BY <1>1, <1>2, <1>3, MoveEffect DEF Quiet

\* The ways a call fails without having written anything.
LEMMA FailEffect ==
  ASSUME TypeInv, NEW p \in Calls, CallFails(p) \/ DeliveryStepFails(p)
  PROVE  /\ TypeInv' /\ Alone(p) /\ Quiet /\ KeepsCall(p)
         /\ \/ call'[p].pc = "failed" /\ unsure' = unsure /\ call[p].pc \notin {"idle", "accepted"}
            \/ call'[p].pc = "undelivered" /\ call[p].pc \in {"accepted", "note", "noted"} /\ NotRecorded(p)
<1>0. /\ call[p].pc # "idle" => call[p].t \in Tokens
      /\ call[p].pc \in Unfinished => call[p].i \in {1, 2} /\ Channel(p) \in Channels
  BY WhereItStands
<1>1. CASE CallFails(p)
  <2>1. Rest /\ Quiet /\ unsure' = unsure
    BY <1>1 DEF CallFails, Fault, outside, history, tables, TypeInv, TypeOK, Rest, Inside, Quiet
  <2>2. Goto(p, "failed") /\ call[p].pc \notin {"idle", "accepted"}
    BY <1>1 DEF CallFails
  <2>. QED  BY <2>1, <2>2, MoveEffect DEF Quiet, Pcs, Unfinished
<1>2. CASE DeliveryStepFails(p)
  <2>1. Goto(p, "undelivered") /\ call[p].pc \in {"accepted", "note", "noted"} /\ NotRecorded(p)
    BY <1>2 DEF DeliveryStepFails
  <2>2. unsure' \in [Tokens -> [Channels -> Nat]]
    BY <2>1, UnrecordedType
  <2>3. Rest /\ Quiet
    BY <1>2, <2>2 DEF DeliveryStepFails, Fault, outside, tables, TypeInv, TypeOK, Rest, Inside, Quiet
  <2>. QED  BY <1>0, <2>1, <2>3, MoveEffect DEF Quiet, Pcs, Unfinished
<1>. QED  BY <1>1, <1>2

LEMMA CrashEffect ==
  ASSUME TypeInv, NEW p \in Calls, Crash(p)
  PROVE  TypeInv' /\ Alone(p) /\ Quiet /\ call'[p] = IdleCall /\ NotRecorded(p) /\ call[p].pc # "idle"
<1>0. /\ call[p].pc # "idle" => call[p].t \in Tokens
      /\ call[p].pc \in Unfinished => call[p].i \in {1, 2} /\ Channel(p) \in Channels
  BY WhereItStands
<1>1. Return(p) /\ NotRecorded(p) /\ call[p].pc # "idle"
  BY DEF Crash, At
<1>2. unsure' \in [Tokens -> [Channels -> Nat]]
  BY <1>1, UnrecordedType
<1>3. Rest /\ Quiet
  BY <1>2 DEF Crash, Fault, outside, tables, TypeInv, TypeOK, Rest, Inside, Quiet
<1>4. Alone(p) /\ call'[p] = IdleCall /\ call'[p].pc = "idle"  BY <1>1, ReturnEffect
<1>5. RowsStay  BY <1>3, RowSame DEF Quiet
<1>. QED  BY <1>1, <1>3, <1>4, <1>5, CallStepType DEF Unfinished

\* A call that gives its row back, and keeps the report for 1C or returns.
LEMMA GiveBackEffect ==
  ASSUME TypeInv, NEW p \in Calls, MarkSuperseded(p) \/ Finish(p)
  PROVE  /\ TypeInv' /\ Alone(p) /\ Inside /\ delivery' = delivery /\ robbed' = robbed /\ unsure' = unsure
         /\ WritesRow(call[p].t) /\ call'[p].pc \in {"idle", "ack"}
         /\ \/ call[p].pc = "drop" /\ call'[p] = IdleCall /\ row'[call[p].t].state = "SUPERSEDED"
            \/ /\ call[p].pc = "finish" /\ call'[p].pc = "ack"
               /\ call'[p].t = call[p].t /\ call'[p].results = call[p].results
               /\ call'[p].report = FinalState(call[p].eligible, call[p].results)
               /\ row'[call[p].t].state = FinalState(call[p].eligible, call[p].results)
<1> DEFINE t == call[p].t
           final == FinalState(call[p].eligible, call[p].results)
<1>0. call[p].pc # "idle" /\ t \in Tokens /\ row[t] # Null /\ call[p] \in ProcessCalls
  BY WhereItStands DEF MarkSuperseded, Finish, At
<1>1. Rest /\ Inside /\ delivery' = delivery /\ robbed' = robbed /\ unsure' = unsure
  BY DEF MarkSuperseded, Finish, outside, history, TypeInv, TypeOK, Rest, Inside
<1>2. final \in {"SENT", "PARTIAL", "ERROR"}  BY FinalStateType
<1>3. ASSUME NEW st \in InvoiceState, SetRow(t, [row[t] EXCEPT !.state = st, !.lease = "none"])
      PROVE  RowsStay /\ row'[t].state = st /\ WritesRow(t)
  <2>1. [row[t] EXCEPT !.state = st, !.lease = "none"] \in Invoices  BY <1>0, RowParts
  <2>2. row[t] \in Invoices  BY <1>0, RowParts
  <2>3. RowsStay /\ row'[t] = [row[t] EXCEPT !.state = st, !.lease = "none"] /\ WritesRow(t)
    BY <1>0, <1>3, <2>1, RowType DEF WritesRow
  <2>. QED  BY <2>2, <2>3 DEF Invoices
<1>4. CASE MarkSuperseded(p)
  <2>1. RowsStay /\ row'[t].state = "SUPERSEDED" /\ WritesRow(t)
    BY <1>3, <1>4 DEF MarkSuperseded, InvoiceState
  <2>2. Alone(p) /\ call'[p] = IdleCall /\ call'[p].pc = "idle"
    BY <1>4, ReturnEffect DEF MarkSuperseded
  <2>3. TypeInv'  BY <1>1, <2>1, <2>2, CallStepType DEF Unfinished
  <2>4. call[p].pc = "drop"  BY <1>4 DEF MarkSuperseded, At
  <2>. QED  BY <1>1, <2>1, <2>2, <2>3, <2>4
<1>5. CASE Finish(p)
  <2>1. final \in InvoiceState  BY <1>2 DEF InvoiceState
  <2>2. RowsStay /\ row'[t].state = final /\ WritesRow(t)
    BY <1>3, <1>5, <2>1 DEF Finish
  <2>3. call' = [call EXCEPT ![p] = [call[p] EXCEPT !.pc = "ack", !.report = final]] /\ call[p].pc = "finish"
    BY <1>5 DEF Finish, At
  <2> HIDE DEF final
  <2>4. [call[p] EXCEPT !.pc = "ack", !.report = final] \in ProcessCalls
    BY <1>0, <1>2 DEF ProcessCalls
  <2>5. /\ Alone(p) /\ call'[p].pc = "ack" /\ call'[p].report = final
        /\ call'[p].t = t /\ call'[p].results = call[p].results
    BY <1>0, <2>3, <2>4 DEF Alone, ProcessCalls, TypeInv, TypeOK
  <2>6. TypeInv'  BY <1>0, <1>1, <2>2, <2>5, CallStepType DEF Unfinished
  <2> USE DEF final
  <2>. QED  BY <1>1, <2>2, <2>3, <2>5, <2>6
<1>. QED  BY <1>4, <1>5

LEMMA StoreEffect ==
  ASSUME TypeInv, NEW p \in Calls, StorePdf(p)
  PROVE  /\ TypeInv' /\ Alone(p) /\ Inside /\ delivery' = delivery /\ robbed' = robbed /\ unsure' = unsure
         /\ WritesRow(call[p].t) /\ KeepsCall(p) /\ call[p].pc = "store" /\ call'[p].pc = "refresh"
         /\ row'[call[p].t].state = row[call[p].t].state /\ row'[call[p].t].lease = row[call[p].t].lease
<1> DEFINE t == call[p].t
<1>0. call[p].pc = "store" /\ t \in Tokens /\ row[t] # Null /\ call[p].i \in {1, 2}
  BY WhereItStands DEF StorePdf, At, Unfinished
<1>1. Rest /\ Inside /\ delivery' = delivery /\ robbed' = robbed /\ unsure' = unsure
  BY DEF StorePdf, outside, history, TypeInv, TypeOK, Rest, Inside
<1>2. [row[t] EXCEPT !.s3Key = TRUE] \in Invoices /\ row[t] \in Invoices  BY <1>0, RowParts
<1>3. RowsStay /\ row'[t] = [row[t] EXCEPT !.s3Key = TRUE] /\ WritesRow(t)
  BY <1>0, <1>2, RowType DEF WritesRow, StorePdf
<1>4. row'[t].state = row[t].state /\ row'[t].lease = row[t].lease
  BY <1>2, <1>3 DEF Invoices
<1>5. Alone(p) /\ KeepsCall(p) /\ call'[p].pc = "refresh"
  BY GotoEffect DEF StorePdf, Pcs
<1>6. TypeInv'  BY <1>0, <1>1, <1>3, <1>5, CallStepType DEF KeepsCall
<1>. QED  BY <1>0, <1>1, <1>3, <1>4, <1>5, <1>6

LEMMA RefreshEffect ==
  ASSUME TypeInv, NEW p \in Calls, Refresh(p)
  PROVE  /\ TypeInv' /\ Alone(p) /\ Inside /\ delivery' = delivery /\ robbed' = robbed /\ unsure' = unsure
         /\ WritesRow(call[p].t) /\ call[p].pc = "refresh"
         /\ call'[p].t = call[p].t /\ call'[p].results = call[p].results
         /\ \/ call'[p].pc = "open" /\ row' = row /\ call'[p].report = call[p].report
            \/ call'[p].pc = "ack" /\ row'[call[p].t].state = "AVAILABLE" /\ call'[p].report = "STORED"
<1> DEFINE t == call[p].t
<1>0. /\ call[p].pc = "refresh" /\ t \in Tokens /\ row[t] # Null /\ call[p].i \in {1, 2}
      /\ call[p] \in ProcessCalls
  BY WhereItStands DEF Refresh, At, Unfinished
<1>1. Rest /\ Inside /\ delivery' = delivery /\ robbed' = robbed /\ unsure' = unsure
  BY DEF Refresh, outside, history, TypeInv, TypeOK, Rest, Inside
<1>2. CASE requested
  <2>1. Goto(p, "open") /\ UNCHANGED row  BY <1>2 DEF Refresh
  <2>2. TypeInv' /\ Alone(p) /\ KeepsCall(p) /\ call'[p].pc = "open"
    BY <1>0, <1>1, <2>1, MoveEffect DEF Pcs
  <2>. QED  BY <1>0, <1>1, <2>1, <2>2 DEF KeepsCall, WritesRow
<1>3. CASE ~requested
  <2>1. /\ SetRow(t, [row[t] EXCEPT !.state = "AVAILABLE", !.lease = "none"])
        /\ call' = [call EXCEPT ![p] = [call[p] EXCEPT !.pc = "ack", !.report = "STORED"]]
    BY <1>3 DEF Refresh
  <2>2. [row[t] EXCEPT !.state = "AVAILABLE", !.lease = "none"] \in Invoices /\ row[t] \in Invoices
    BY <1>0, RowParts DEF InvoiceState
  <2>3. RowsStay /\ row'[t] = [row[t] EXCEPT !.state = "AVAILABLE", !.lease = "none"] /\ WritesRow(t)
    BY <1>0, <2>1, <2>2, RowType DEF WritesRow
  <2>4. row'[t].state = "AVAILABLE"
    BY <2>2, <2>3 DEF Invoices
  <2>5. [call[p] EXCEPT !.pc = "ack", !.report = "STORED"] \in ProcessCalls
    BY <1>0 DEF ProcessCalls
  <2>6. /\ Alone(p) /\ call'[p].pc = "ack" /\ call'[p].report = "STORED"
        /\ call'[p].t = t /\ call'[p].results = call[p].results
    BY <1>0, <2>1, <2>5 DEF Alone, ProcessCalls, TypeInv, TypeOK
  <2>7. TypeInv'  BY <1>0, <1>1, <2>3, <2>6, CallStepType DEF Unfinished
  <2>. QED  BY <1>0, <1>1, <2>3, <2>4, <2>6, <2>7
<1>. QED  BY <1>2, <1>3

\* The records stay what they are, but for attempts under way and failed ones.
NothingSent ==
  /\ delivery' \in [Tokens -> [Channels -> Deliveries]]
  /\ \A t \in Tokens : \A c \in Channels :
       /\ delivery'[t][c].sentAt = delivery[t][c].sentAt
       /\ delivery'[t][c].state = "SENT" => delivery[t][c].state = "SENT"

LEMMA SameDeliveries == ASSUME TypeInv, delivery' = delivery PROVE NothingSent
BY DEF TypeInv, TypeOK, NothingSent

\* The record of the call's channel gets a column.
LEMMA NothingSentEffect ==
  ASSUME TypeInv, NEW p \in Calls, call[p].pc \in Unfinished, NEW st \in {"SENDING", "ERROR", "SKIPPED"},
         \/ SetDelivery(p, [delivery[call[p].t][Channel(p)] EXCEPT !.state = st])
         \/ SetDelivery(p, [delivery[call[p].t][Channel(p)] EXCEPT !.state = st, !.backoff = TRUE])
  PROVE  NothingSent
<1>1. call[p].t \in Tokens /\ Channel(p) \in Channels
  BY WhereItStands DEF Unfinished
<1>2. delivery[call[p].t][Channel(p)] \in Deliveries
  BY <1>1 DEF TypeInv, TypeOK
<1>3. PICK d \in Deliveries :
        SetDelivery(p, d) /\ d.state = st /\ d.sentAt = delivery[call[p].t][Channel(p)].sentAt
  <2> DEFINE old == delivery[call[p].t][Channel(p)]
             d1 == [old EXCEPT !.state = st]
             d2 == [old EXCEPT !.state = st, !.backoff = TRUE]
  <2>1. old \in Deliveries  BY <1>2
  <2>2. SetDelivery(p, d1) \/ SetDelivery(p, d2)  OBVIOUS
  <2>3. old.sentAt = delivery[call[p].t][Channel(p)].sentAt  OBVIOUS
  <2> HIDE DEF old
  <2>4. d1 \in Deliveries /\ d1.state = st /\ d1.sentAt = old.sentAt
    BY <2>1 DEF Deliveries
  <2>5. d2 \in Deliveries /\ d2.state = st /\ d2.sentAt = old.sentAt
    BY <2>1 DEF Deliveries
  <2> HIDE DEF d1, d2
  <2>. QED  BY <2>2, <2>3, <2>4, <2>5
<1>4. /\ delivery' \in [Tokens -> [Channels -> Deliveries]]
      /\ \A t \in Tokens : \A c \in Channels :
           delivery'[t][c] = IF t = call[p].t /\ c = Channel(p) THEN d ELSE delivery[t][c]
  BY <1>3, DeliveryType
<1>. QED  BY <1>3, <1>4 DEF NothingSent

\* deliverChannel returns.
Advances(p, result) ==
  /\ call'[p].pc \in {"finish", "open"} /\ call'[p].t = call[p].t /\ call'[p].report = call[p].report
  /\ call'[p].results = [call[p].results EXCEPT ![Channel(p)] = result]

\* The type of a step that goes on to the next channel.
LEMMA AdvanceEffect ==
  ASSUME TypeInv, NEW p \in Calls, NEW result \in {"SENT", "SKIPPED", "ERROR"}, call[p].pc \in Unfinished,
         NextChannel(p, result), Rest, row' = row
  PROVE  TypeInv' /\ Alone(p) /\ Advances(p, result)
<1>0. call[p].i \in {1, 2} /\ call[p].pc # "idle"  BY WhereItStands DEF Unfinished
<1>1. /\ Alone(p) /\ call'[p].pc = (IF call[p].i = 2 THEN "finish" ELSE "open")
      /\ call'[p].t = call[p].t /\ call'[p].i = call[p].i + 1 /\ call'[p].report = call[p].report
      /\ call'[p].results = [call[p].results EXCEPT ![Channel(p)] = result]
  BY NextChannelEffect
<1>2. RowsStay  BY RowSame
<1>3. call'[p].pc \in Unfinished => call'[p].i \in {1, 2}
  BY <1>0, <1>1 DEF Unfinished
<1>4. TypeInv'  BY <1>0, <1>1, <1>2, <1>3, CallStepType
<1>. QED  BY <1>1, <1>4 DEF Advances

LEMMA OpenEffect ==
  ASSUME TypeInv, NEW p \in Calls, Open(p)
  PROVE  /\ TypeInv' /\ Alone(p) /\ Inside /\ row' = row /\ robbed' = robbed /\ unsure' = unsure
         /\ call[p].pc = "open" /\ NothingSent
         /\ \/ Advances(p, "SENT") /\ delivery[call[p].t][Channel(p)].state = "SENT"
            \/ Advances(p, "SKIPPED") \/ Advances(p, "ERROR")
            \/ /\ call'[p].pc = "validate" /\ call'[p].existing = delivery[call[p].t][Channel(p)]
               /\ delivery' = delivery
               /\ call'[p].t = call[p].t /\ call'[p].i = call[p].i /\ call'[p].results = call[p].results
               /\ call'[p].report = call[p].report
<1> DEFINE d == delivery[call[p].t][Channel(p)]
<1>0. /\ call[p].pc = "open" /\ call[p].pc \in Unfinished /\ call[p].i \in {1, 2} /\ call[p] \in ProcessCalls
      /\ call[p].t \in Tokens /\ Channel(p) \in Channels
  BY WhereItStands DEF Open, At, Unfinished
<1>1. d \in Deliveries  BY <1>0 DEF TypeInv, TypeOK
<1>2. Inside /\ row' = row /\ robbed' = robbed /\ unsure' = unsure
  BY DEF Open, outside, history, Inside
<1>3. ASSUME NothingSent PROVE Rest
  BY <1>3 DEF Open, outside, history, TypeInv, TypeOK, Rest, NothingSent
<1>4. CASE d.state = "SENT" /\ NextChannel(p, "SENT") /\ UNCHANGED delivery
  BY <1>0, <1>2, <1>3, <1>4, SameDeliveries, AdvanceEffect
<1>5. CASE SetDelivery(p, [d EXCEPT !.state = "SKIPPED"]) /\ NextChannel(p, "SKIPPED")
  <2>1. NothingSent  BY <1>0, <1>5, NothingSentEffect
  <2>. QED  BY <1>0, <1>2, <1>3, <1>5, <2>1, AdvanceEffect
<1>6. CASE NextChannel(p, "ERROR") /\ UNCHANGED delivery
  BY <1>0, <1>2, <1>3, <1>6, SameDeliveries, AdvanceEffect
<1>7. CASE call' = [call EXCEPT ![p] = [call[p] EXCEPT !.pc = "validate", !.existing = d]] /\ UNCHANGED delivery
  <2>1. NothingSent /\ Rest  BY <1>3, <1>7, SameDeliveries
  <2> HIDE DEF d
  <2>2. [call[p] EXCEPT !.pc = "validate", !.existing = d] \in ProcessCalls
    BY <1>0, <1>1 DEF ProcessCalls
  <2>3. /\ Alone(p) /\ call'[p].pc = "validate" /\ call'[p].existing = d
        /\ call'[p].t = call[p].t /\ call'[p].i = call[p].i /\ call'[p].results = call[p].results
        /\ call'[p].report = call[p].report
    BY <1>0, <1>7, <2>2 DEF Alone, ProcessCalls, TypeInv, TypeOK
  <2>4. RowsStay  BY <1>2, RowSame
  <2>5. TypeInv'  BY <1>0, <2>1, <2>3, <2>4, CallStepType
  <2>. QED  BY <1>0, <1>2, <1>7, <2>1, <2>3, <2>5 DEF d
<1>. QED  BY <1>4, <1>5, <1>6, <1>7 DEF Open

LEMMA SendEffect ==
  ASSUME TypeInv, NEW p \in Calls, SendDocument(p)
  PROVE  /\ TypeInv' /\ Alone(p) /\ row' = row /\ onec' = onec /\ sync' = sync /\ history' = history
         /\ NothingSent /\ KeepsCall(p) /\ call[p].pc = "send"
         /\ \/ ~call[p].existing.sentAt /\ call'[p].pc = "accepted" /\ Accept(p)
            \/ call[p].existing.sentAt /\ call'[p].pc = "note" /\ accepted' = accepted
<1>0. call[p].pc = "send" /\ call[p].pc \in Unfinished /\ call[p].i \in {1, 2}
  BY WhereItStands DEF SendDocument, At, Unfinished
<1>1. NothingSent  BY <1>0, NothingSentEffect DEF SendDocument
<1>2. row' = row /\ onec' = onec /\ sync' = sync /\ history' = history
  BY DEF SendDocument, history
<1>3. PICK pc \in {"accepted", "note"} :
        /\ Goto(p, pc)
        /\ \/ ~call[p].existing.sentAt /\ pc = "accepted" /\ Accept(p)
           \/ call[p].existing.sentAt /\ pc = "note" /\ accepted' = accepted
  BY DEF SendDocument, NeedsDocument, Existing
<1>4. accepted' \in [Tokens -> [Channels -> Nat]]
  BY <1>0, <1>3, AcceptEffect DEF TypeInv, TypeOK
<1>5. Rest
  BY <1>1, <1>4 DEF SendDocument, bounds, history, Rest, TypeInv, TypeOK, NothingSent
<1>6. TypeInv' /\ Alone(p) /\ KeepsCall(p) /\ call'[p].pc = pc
  BY <1>0, <1>2, <1>3, <1>5, MoveEffect DEF Pcs
<1>. QED  BY <1>0, <1>1, <1>2, <1>3, <1>6

LEMMA SendFailsEffect ==
  ASSUME TypeInv, NEW p \in Calls, NEW lost \in BOOLEAN, SendFails(p, lost)
  PROVE  /\ TypeInv' /\ Alone(p) /\ row' = row /\ onec' = onec /\ sync' = sync
         /\ overrun' = overrun /\ robbed' = robbed
         /\ NothingSent /\ KeepsCall(p) /\ call[p].pc = "send" /\ call'[p].pc = "undelivered"
         /\ \/ Accept(p) /\ Unrecorded(p)
            \/ accepted' = accepted /\ unsure' = unsure
<1>0. /\ call[p].pc = "send" /\ call[p].pc \in Unfinished /\ call[p].i \in {1, 2}
      /\ call[p].t \in Tokens /\ Channel(p) \in Channels
  BY WhereItStands DEF SendFails, At, Unfinished
<1>1. NothingSent  BY <1>0, NothingSentEffect DEF SendFails
<1>2. row' = row /\ onec' = onec /\ sync' = sync /\ overrun' = overrun /\ robbed' = robbed
  BY DEF SendFails
<1>3. \/ Accept(p) /\ Unrecorded(p)
      \/ accepted' = accepted /\ unsure' = unsure
  BY DEF SendFails
<1>4. accepted' \in [Tokens -> [Channels -> Nat]] /\ unsure' \in [Tokens -> [Channels -> Nat]]
  BY <1>0, <1>3, AcceptEffect, UnrecordedType DEF TypeInv, TypeOK
<1>5. Rest
  BY <1>1, <1>4 DEF SendFails, Fault, Rest, TypeInv, TypeOK, NothingSent
<1>6. TypeInv' /\ Alone(p) /\ KeepsCall(p) /\ call'[p].pc = "undelivered"
  BY <1>0, <1>2, <1>5, MoveEffect DEF Pcs, SendFails
<1>. QED  BY <1>0, <1>1, <1>2, <1>3, <1>6

\* The acceptance, or the whole delivery, is recorded.
LEMMA RecordEffect ==
  ASSUME TypeInv, NEW p \in Calls, PersistSentAt(p) \/ MarkDelivered(p)
  PROVE  /\ TypeInv' /\ Alone(p) /\ Inside /\ row' = row /\ robbed' = robbed /\ unsure' = unsure
         /\ \A t \in Tokens : \A c \in Channels :
              IF t = call[p].t /\ c = Channel(p)
                THEN delivery'[t][c].sentAt
                ELSE delivery'[t][c] = delivery[t][c]
         /\ \/ call[p].pc = "accepted" /\ call'[p].pc = "note" /\ KeepsCall(p)
            \/ call[p].pc = "noted" /\ Advances(p, "SENT")
<1>0. /\ call[p].pc \in {"accepted", "noted"} /\ call[p].pc \in Unfinished /\ call[p].i \in {1, 2}
      /\ call[p].t \in Tokens /\ Channel(p) \in Channels
  BY WhereItStands DEF PersistSentAt, MarkDelivered, At, Unfinished
<1>1. Inside /\ row' = row /\ robbed' = robbed /\ unsure' = unsure
  BY DEF PersistSentAt, MarkDelivered, outside, history, Inside
<1>2. PICK d \in Deliveries : SetDelivery(p, d) /\ d.sentAt = TRUE
  <2> DEFINE old == delivery[call[p].t][Channel(p)]
             d1 == [old EXCEPT !.sentAt = TRUE, !.backoff = FALSE]
             d2 == [state |-> "SENT", sentAt |-> TRUE, backoff |-> FALSE]
  <2>0. old \in Deliveries  BY <1>0 DEF TypeInv, TypeOK
  <2>1. d1 \in Deliveries /\ d1.sentAt = TRUE  BY <2>0 DEF Deliveries
  <2>2. d2 \in Deliveries /\ d2.sentAt = TRUE  BY DEF Deliveries
  <2>3. SetDelivery(p, d1) \/ SetDelivery(p, d2)  BY DEF PersistSentAt, MarkDelivered
  <2> HIDE DEF d1, d2
  <2>. QED  BY <2>1, <2>2, <2>3
<1>3. /\ delivery' \in [Tokens -> [Channels -> Deliveries]]
      /\ \A t \in Tokens : \A c \in Channels :
           delivery'[t][c] = IF t = call[p].t /\ c = Channel(p) THEN d ELSE delivery[t][c]
  BY <1>0, <1>2, DeliveryType
<1>4. Rest
  BY <1>3 DEF PersistSentAt, MarkDelivered, outside, history, Rest, TypeInv, TypeOK
<1>5. CASE PersistSentAt(p)
  <2>1. Goto(p, "note") /\ call[p].pc = "accepted"  BY <1>5 DEF PersistSentAt, At
  <2>2. TypeInv' /\ Alone(p) /\ KeepsCall(p) /\ call'[p].pc = "note"
    BY <1>0, <1>1, <1>4, <2>1, MoveEffect DEF Pcs
  <2>. QED  BY <1>1, <1>2, <1>3, <2>1, <2>2
<1>6. CASE MarkDelivered(p)
  <2>1. NextChannel(p, "SENT") /\ call[p].pc = "noted"  BY <1>6 DEF MarkDelivered, At
  <2>2. TypeInv' /\ Alone(p) /\ Advances(p, "SENT")
    BY <1>0, <1>1, <1>4, <2>1, AdvanceEffect
  <2>. QED  BY <1>1, <1>2, <1>3, <2>1, <2>2
<1>. QED  BY <1>5, <1>6

LEMMA UndeliveredEffect ==
  ASSUME TypeInv, NEW p \in Calls, MarkUndelivered(p)
  PROVE  /\ TypeInv' /\ Alone(p) /\ Inside /\ row' = row /\ robbed' = robbed /\ unsure' = unsure
         /\ NothingSent /\ call[p].pc = "undelivered" /\ Advances(p, "ERROR")
<1>0. call[p].pc = "undelivered" /\ call[p].pc \in Unfinished
  BY DEF MarkUndelivered, At, Unfinished
<1>1. NothingSent  BY <1>0, NothingSentEffect DEF MarkUndelivered
<1>2. Inside /\ row' = row /\ robbed' = robbed /\ unsure' = unsure
  BY DEF MarkUndelivered, outside, history, Inside
<1>3. Rest
  BY <1>1 DEF MarkUndelivered, outside, history, Rest, TypeInv, TypeOK, NothingSent
<1>. QED  BY <1>0, <1>1, <1>2, <1>3, AdvanceEffect DEF MarkUndelivered

\* The report reaches 1C; the call learns of it or not.
LEMMA AckEffect ==
  ASSUME TypeInv, NEW p \in Calls, Ack(p) \/ AckAnswerLost(p)
  PROVE  /\ TypeInv' /\ Alone(p) /\ row' = row /\ delivery' = delivery /\ sync' = sync
         /\ accepted' = accepted /\ history' = history
         /\ call[p].pc = "ack" /\ call[p].t \in Tokens
         /\ \A u \in Tokens : u # call[p].t => onec'[u] = onec[u]
         /\ \/ onec'[call[p].t] = onec[call[p].t]
            \/ onec[call[p].t] # "CANCELLED" /\ onec'[call[p].t] = call[p].report
         /\ \/ call'[p] = IdleCall
            \/ call'[p].pc = "failed" /\ KeepsCall(p)
<1>0. call[p].pc = "ack" /\ call[p].t \in Tokens
  BY WhereItStands DEF Ack, AckAnswerLost, At
<1>1. /\ row' = row /\ delivery' = delivery /\ sync' = sync /\ accepted' = accepted /\ history' = history
      /\ onec' = Acknowledged(call[p].t, call[p].report)
  BY DEF Ack, AckAnswerLost, tables, history
<1>2. /\ onec' \in [Tokens -> OnecState]
      /\ \A u \in Tokens : u # call[p].t => onec'[u] = onec[u]
      /\ \/ onec'[call[p].t] = onec[call[p].t]
         \/ onec[call[p].t] # "CANCELLED" /\ onec'[call[p].t] = call[p].report
  BY <1>0, <1>1, AcknowledgedType
<1>3. Rest
  BY <1>1, <1>2 DEF Ack, AckAnswerLost, Fault, bounds, history, Rest, TypeInv, TypeOK
<1>4. RowsStay  BY <1>1, RowSame
<1>5. CASE Return(p)
  <2>1. Alone(p) /\ call'[p] = IdleCall /\ call'[p].pc = "idle"  BY <1>5, ReturnEffect
  <2>. QED  BY <1>0, <1>1, <1>2, <1>3, <1>4, <2>1, CallStepType DEF Unfinished
<1>6. CASE Goto(p, "failed")
  <2>1. TypeInv' /\ Alone(p) /\ KeepsCall(p) /\ call'[p].pc = "failed"
    BY <1>0, <1>1, <1>3, <1>6, MoveEffect DEF Pcs, Unfinished
  <2>. QED  BY <1>0, <1>1, <1>2, <2>1
<1>. QED  BY <1>5, <1>6 DEF Ack, AckAnswerLost

LEMMA FailedEffect ==
  ASSUME TypeInv, NEW p \in Calls, MarkFailed(p)
  PROVE  /\ TypeInv' /\ Alone(p) /\ Inside /\ delivery' = delivery /\ unsure' = unsure
         /\ call[p].pc = "failed" /\ call'[p] = IdleCall /\ call[p].t \in Tokens
         /\ WritesRow(call[p].t) /\ (row' = row \/ row'[call[p].t].state = "ERROR")
         /\ robbed \subseteq robbed'
         /\ (\E q \in Calls \ {p} : Working(q, call[p].t)) => call[p].t \in robbed'
<1> DEFINE t == call[p].t
<1>0. call[p].pc = "failed" /\ t \in Tokens /\ row[t] # Null
  BY WhereItStands DEF MarkFailed, At
<1>1. /\ Inside /\ delivery' = delivery /\ unsure' = unsure /\ robbed \subseteq robbed' /\ robbed' \subseteq Tokens
      /\ (\E q \in Calls \ {p} : Working(q, t)) => t \in robbed'
  BY <1>0 DEF MarkFailed, outside, Inside, TypeInv, TypeOK
<1>2. Rest
  BY <1>1 DEF MarkFailed, outside, Rest, TypeInv, TypeOK
<1>3. Alone(p) /\ call'[p] = IdleCall /\ call'[p].pc = "idle"  BY ReturnEffect DEF MarkFailed
<1>4. RowsStay /\ WritesRow(t) /\ (row' = row \/ row'[t].state = "ERROR")
  <2>1. CASE row' = row  BY <2>1, RowSame DEF WritesRow
  <2>2. CASE row' = [row EXCEPT ![t] = [row[t] EXCEPT !.state = "ERROR", !.lease = "none"]]
    <3>1. [row[t] EXCEPT !.state = "ERROR", !.lease = "none"] \in Invoices /\ row[t] \in Invoices
      BY <1>0, RowParts DEF InvoiceState
    <3>2. SetRow(t, [row[t] EXCEPT !.state = "ERROR", !.lease = "none"])
      BY <2>2 DEF SetRow
    <3>3. /\ RowsStay /\ row'[t] = [row[t] EXCEPT !.state = "ERROR", !.lease = "none"] /\ WritesRow(t)
      BY <1>0, <3>1, <3>2, RowType DEF WritesRow
    <3>. QED  BY <3>1, <3>3 DEF Invoices
  <2>. QED  BY <2>1, <2>2 DEF MarkFailed
<1>5. TypeInv'  BY <1>2, <1>3, <1>4, CallStepType DEF Unfinished
<1>. QED  BY <1>0, <1>1, <1>3, <1>4, <1>5

LEMMA SelectEffect ==
  ASSUME TypeInv, NEW p \in Calls, NEW t \in Tokens, Select(p, t)
  PROVE  /\ TypeInv' /\ Alone(p) /\ Quiet /\ unsure' = unsure
         /\ call'[p].pc = "selected" /\ call'[p].t = t /\ call'[p].report = "none"
         /\ \A c \in Channels : call'[p].results[c] = "none"
<1>1. Rest /\ Quiet /\ unsure' = unsure /\ row[t] # Null
  BY DEF Select, SelectByRun, outside, history, tables, TypeInv, TypeOK, Rest, Inside, Quiet
<1> DEFINE y == [IdleCall EXCEPT !.pc = "selected", !.t = t]
<1>2. /\ y \in ProcessCalls /\ y.pc = "selected" /\ y.t = t /\ y.report = "none" /\ y.i = 1
      /\ \A c \in Channels : y.results[c] = "none"
  BY IdleCallType DEF ProcessCalls
<1>3. call' = [call EXCEPT ![p] = y]  BY DEF Select
<1> HIDE DEF y
<1>4. Alone(p) /\ call'[p] = y
  BY <1>2, <1>3 DEF Alone, TypeInv, TypeOK
<1>5. CallsOK'
  <2>1. ASSUME NEW q \in Calls, q # p PROVE Placed(q)'
    BY <1>1, <1>4, <2>1 DEF TypeInv, CallsOK, Placed, Alone, Quiet
  <2>2. Placed(p)'
    BY <1>1, <1>2, <1>4 DEF Placed, Quiet
  <2>. QED  BY <2>1, <2>2 DEF CallsOK
<1>6. TypeOK' /\ SyncsOK'
  BY <1>1, <1>4 DEF TypeInv, TypeOK, SyncsOK, Rest, Quiet, Alone
<1>. QED  BY <1>1, <1>2, <1>4, <1>5, <1>6 DEF TypeInv

-----------------------------------------------------------------------------
(* The other steps.                                                          *)

\* A step that is not of a call.
LEMMA OtherStepType ==
  ASSUME TypeInv, call' = call, RowsStay
  PROVE  CallsOK' /\ call' \in [Calls -> ProcessCalls]
BY DEF TypeInv, TypeOK, CallsOK, Placed, RowsStay

LEMMA ChangeEffect ==
  ASSUME TypeInv, Change
  PROVE  /\ TypeInv' /\ call' = call /\ row' = row /\ delivery' = delivery /\ sync' = sync
         /\ accepted' = accepted /\ history' = history
         /\ \A t \in Tokens : /\ onec[t] = "CANCELLED" => onec'[t] = "CANCELLED"
                              /\ onec'[t] = "SENT" => onec[t] = "SENT"
<1>1. /\ call' = call /\ row' = row /\ delivery' = delivery /\ sync' = sync
      /\ accepted' = accepted /\ history' = history /\ syncs' = syncs /\ faults' = faults
      /\ changes' \in Nat
  BY DEF Change, history, TypeInv, TypeOK
<1>0. requested' \in BOOLEAN
  <2>1. requested' = ~requested \/ requested' = requested
    BY Zenon DEF Change, SetInvoiceRequested, Publish, ChangeCandidate
  <2>2. requested \in BOOLEAN  BY DEF TypeInv, TypeOK
  <2>. QED  BY <2>1, <2>2
<1>2. /\ onec' \in [Tokens -> OnecState]
      /\ \A t \in Tokens : /\ onec[t] = "CANCELLED" => onec'[t] = "CANCELLED"
                           /\ onec'[t] = "SENT" => onec[t] = "SENT"
  <2>0. onec \in [Tokens -> OnecState]  BY DEF TypeInv, TypeOK
  <2>1. CASE SetInvoiceRequested  BY <2>0, <2>1 DEF SetInvoiceRequested
  <2>2. ASSUME NEW t \in Tokens, NEW s \in OnecState, Publish(t, s)
        PROVE  <1>2!1 /\ <1>2!2
    BY <2>0, <2>2 DEF Publish, OnecState
  <2>3. ASSUME NEW t \in Tokens, NEW s \in OnecState, ChangeCandidate(t, s)
        PROVE  <1>2!1 /\ <1>2!2
    BY <2>0, <2>3 DEF ChangeCandidate, OnecState
  <2>. QED  BY <2>1, <2>2, <2>3 DEF Change
<1>3. RowsStay  BY <1>1, RowSame
<1>4. SyncsOK'  BY <1>1 DEF TypeInv, SyncsOK
<1>5. TypeOK'
  BY <1>0, <1>1, <1>2 DEF TypeInv, TypeOK, history
<1>. QED  BY <1>1, <1>2, <1>3, <1>4, <1>5, OtherStepType DEF TypeInv

LEMMA PassEffect ==
  ASSUME TypeInv, NEW t \in Tokens, LeasePasses(t)
  PROVE  /\ TypeInv' /\ call' = call /\ onec' = onec /\ sync' = sync /\ accepted' = accepted
         /\ delivery' = delivery /\ robbed' = robbed /\ unsure' = unsure
         /\ overrun \subseteq overrun' /\ WritesRow(t) /\ row'[t].state = row[t].state /\ row[t] # Null
         /\ (\E p \in Calls : Holding(p, t)) => t \in overrun'
<1>1. /\ call' = call /\ onec' = onec /\ sync' = sync /\ accepted' = accepted /\ requested' = requested
      /\ delivery' = delivery /\ robbed' = robbed /\ unsure' = unsure /\ changes' = changes /\ syncs' = syncs
      /\ overrun \subseteq overrun' /\ overrun' \subseteq Tokens /\ row[t] # Null /\ faults' \in Nat
      /\ (\E p \in Calls : Holding(p, t)) => t \in overrun'
  BY DEF LeasePasses, outside, Fault, TypeInv, TypeOK
<1>2. [row[t] EXCEPT !.lease = "past"] \in Invoices /\ row[t] \in Invoices  BY <1>1, RowParts
<1>3. RowsStay /\ row'[t] = [row[t] EXCEPT !.lease = "past"] /\ WritesRow(t)
  BY <1>1, <1>2, RowType DEF LeasePasses, WritesRow
<1>4. row'[t].state = row[t].state  BY <1>2, <1>3 DEF Invoices
<1>5. TypeOK'  BY <1>1, <1>3 DEF TypeInv, TypeOK, RowsStay
<1>6. SyncsOK'  BY <1>1 DEF TypeInv, SyncsOK
<1>. QED  BY <1>1, <1>3, <1>4, <1>5, <1>6, OtherStepType DEF TypeInv, Inside

LEMMA BackoffEffect ==
  ASSUME TypeInv, NEW t \in Tokens, NEW c \in Channels, BackoffPasses(t, c)
  PROVE  TypeInv' /\ call' = call /\ Inside /\ row' = row /\ robbed' = robbed /\ unsure' = unsure /\ NothingSent
<1>1. /\ call' = call /\ Inside /\ row' = row /\ robbed' = robbed /\ unsure' = unsure /\ requested' = requested
      /\ changes' = changes /\ syncs' = syncs /\ faults' = faults
  BY DEF BackoffPasses, outside, history, Inside
<1>2. delivery[t][c] \in Deliveries  BY DEF TypeInv, TypeOK
<1>3. PICK d \in Deliveries :
        /\ delivery' = [delivery EXCEPT ![t][c] = d]
        /\ d.state = delivery[t][c].state /\ d.sentAt = delivery[t][c].sentAt
  <2> DEFINE d1 == [delivery[t][c] EXCEPT !.backoff = FALSE]
  <2>1. d1 \in Deliveries /\ d1.state = delivery[t][c].state /\ d1.sentAt = delivery[t][c].sentAt
    BY <1>2 DEF Deliveries
  <2>2. delivery' = [delivery EXCEPT ![t][c] = d1]  BY DEF BackoffPasses
  <2> HIDE DEF d1
  <2>. QED  BY <2>1, <2>2
<1>4. NothingSent
  BY <1>3 DEF TypeInv, TypeOK, NothingSent
<1>5. TypeOK'  BY <1>1, <1>4 DEF TypeInv, TypeOK, Inside, NothingSent
<1>6. SyncsOK' /\ RowsStay  BY <1>1, RowSame DEF TypeInv, SyncsOK, Inside
<1>. QED  BY <1>1, <1>4, <1>5, <1>6, OtherStepType DEF TypeInv

\* A synchronisation takes up an item, or reads its row.
LEMMA TakeEffect ==
  ASSUME TypeInv, NEW s \in Syncs, SyncRead(s) \/ \E t \in Tokens : FetchItem(s, t)
  PROVE  /\ TypeInv' /\ call' = call /\ onec' = onec /\ row' = row /\ delivery' = delivery
         /\ accepted' = accepted /\ history' = history
         /\ \A r \in Syncs : r # s => sync'[r] = sync[r]
         /\ \/ sync[s].pc # "idle" /\ sync'[s].t = sync[s].t /\ sync'[s].item = sync[s].item
            \/ sync'[s].t \in Tokens /\ sync'[s].item = onec[sync'[s].t]
<1>1. /\ call' = call /\ onec' = onec /\ row' = row /\ delivery' = delivery
      /\ accepted' = accepted /\ history' = history /\ requested' = requested
      /\ changes' = changes /\ faults' = faults /\ syncs' \in Nat
  <2>0. syncs \in Nat  BY DEF TypeInv, TypeOK
  <2>1. CASE SyncRead(s)  BY <2>0, <2>1 DEF SyncRead, history, bounds
  <2>2. ASSUME NEW t \in Tokens, FetchItem(s, t) PROVE <1>1!1 /\ <1>1!2 /\ <1>1!3
    <3>1. syncs > 0 /\ syncs' = syncs - 1  BY <2>2 DEF FetchItem
    <3>2. syncs' \in Nat  BY <2>0, <3>1
    <3>3. UNCHANGED <<onec, requested, row, delivery, call, accepted, changes, faults, history>>
      BY <2>2 DEF FetchItem
    <3>. QED  BY <3>2, <3>3
  <2>. QED  BY <2>1, <2>2
<1>2. sync \in [Syncs -> SyncCalls] /\ sync[s] \in SyncCalls /\ row \in [Tokens -> Invoices \cup {Null}]
  BY DEF TypeInv, TypeOK
<1>3. PICK y \in SyncCalls :
        /\ sync' = [sync EXCEPT ![s] = y]
        /\ \/ sync[s].pc # "idle" /\ y.t = sync[s].t /\ y.item = sync[s].item
           \/ y.t \in Tokens /\ y.item = onec[y.t] /\ onec[y.t] # "none"
  <2>1. CASE SyncRead(s)
    <3> DEFINE y == [sync[s] EXCEPT !.pc = "read", !.current = row[sync[s].t]]
    <3>1. sync[s].pc = "fetched" /\ sync' = [sync EXCEPT ![s] = y]
      BY <2>1 DEF SyncRead
    <3>2. sync[s].t \in Tokens
      BY <3>1 DEF TypeInv, SyncsOK
    <3>3. row[sync[s].t] \in Invoices \cup {Null}
      BY <1>2, <3>2
    <3>4. y \in SyncCalls /\ y.t = sync[s].t /\ y.item = sync[s].item
      BY <1>2, <3>3 DEF SyncCalls
    <3> HIDE DEF y
    <3>. QED  BY <3>1, <3>4
  <2>2. ASSUME NEW t \in Tokens, FetchItem(s, t)
        PROVE  \E y \in SyncCalls :
                 /\ sync' = [sync EXCEPT ![s] = y]
                 /\ \/ sync[s].pc # "idle" /\ y.t = sync[s].t /\ y.item = sync[s].item
                    \/ y.t \in Tokens /\ y.item = onec[y.t] /\ onec[y.t] # "none"
    <3> DEFINE y == [IdleSync EXCEPT !.pc = "fetched", !.t = t, !.item = onec[t]]
    <3>1. onec[t] # "none" /\ sync' = [sync EXCEPT ![s] = y]
      BY <2>2 DEF FetchItem
    <3>2. onec[t] \in OnecState
      BY DEF TypeInv, TypeOK
    <3>3. y \in SyncCalls /\ y.t = t /\ y.item = onec[t]
      BY <3>2 DEF SyncCalls, IdleSync
    <3> HIDE DEF y
    <3>. QED  BY <3>1, <3>3
  <2>. QED  BY <2>1, <2>2
<1>4. /\ sync' \in [Syncs -> SyncCalls] /\ sync'[s] = y
      /\ \A r \in Syncs : r # s => sync'[r] = sync[r]
  BY <1>2, <1>3
<1>5. SyncsOK'
  BY <1>3, <1>4 DEF TypeInv, SyncsOK
<1>6. RowsStay  BY <1>1, RowSame
<1>7. TypeOK'
  BY <1>1, <1>4 DEF TypeInv, TypeOK, history
<1>. QED  BY <1>1, <1>3, <1>4, <1>5, <1>6, <1>7, OtherStepType DEF TypeInv

LEMMA MapType ==
  ASSUME NEW s \in OnecState, s # "none"
  PROVE  MapOnecState(s) \in InvoiceState /\ (MapOnecState(s) = "SENT" => s = "SENT")
BY DEF MapOnecState, OnecState, InvoiceState

LEMMA SyncedRowType ==
  ASSUME NEW r \in Invoices, NEW current, NEW s \in OnecState, s # "none"
  PROVE  /\ SyncedRow(r, current, s) \in Invoices
         /\ SyncedRow(r, current, s).state = "SENT" => r.state = "SENT" \/ s = "SENT"
         /\ s # "CANCELLED" => SyncedRow(r, current, s).lease = r.lease
<1>1. MapOnecState(s) \in InvoiceState /\ (MapOnecState(s) = "SENT" => s = "SENT")  BY MapType
<1>2. "CANCELLED" \in InvoiceState  BY DEF InvoiceState
<1>3. CASE s = "CANCELLED"
  BY <1>2, <1>3 DEF SyncedRow, Invoices
<1>4. CASE s # "CANCELLED"
  <2>1. SyncedRow(r, current, s) = r \/ SyncedRow(r, current, s) = [r EXCEPT !.state = MapOnecState(s)]
    BY <1>4 DEF SyncedRow
  <2>. QED  BY <1>1, <1>4, <2>1 DEF Invoices
<1>. QED  BY <1>3, <1>4

LEMMA WriteEffect ==
  ASSUME TypeInv, NEW s \in Syncs, SyncWrite(s)
  PROVE  /\ TypeInv' /\ call' = call /\ onec' = onec /\ delivery' = delivery
         /\ accepted' = accepted /\ overrun' = overrun /\ unsure' = unsure /\ robbed \subseteq robbed'
         /\ sync[s].pc # "idle" /\ sync'[s].pc = "idle" /\ \A r \in Syncs : r # s => sync'[r] = sync[r]
         /\ \A u \in Tokens : row'[u] # Null /\ row'[u].state = "SENT" =>
              (row[u] # Null /\ row[u].state = "SENT") \/ (u = sync[s].t /\ sync[s].item = "SENT")
         /\ \A u \in Tokens : row[u] # Null /\ row[u].lease = "held" =>
              row'[u].lease = "held" \/ u \in robbed' \/ (u = sync[s].t /\ sync[s].item = "CANCELLED")
<1> DEFINE t == sync[s].t
           item == sync[s].item
           current == sync[s].current
<1>1. /\ call' = call /\ onec' = onec /\ delivery' = delivery /\ requested' = requested
      /\ accepted' = accepted /\ overrun' = overrun /\ unsure' = unsure
      /\ changes' = changes /\ faults' = faults /\ syncs' = syncs /\ sync[s].pc = "read"
      /\ sync' = [sync EXCEPT ![s] = IdleSync]
  BY DEF SyncWrite, bounds
<1>2. t \in Tokens /\ item \in OnecState /\ item # "none"
  BY <1>1 DEF TypeInv, TypeOK, SyncsOK, SyncCalls
<1>3. IdleSync \in SyncCalls /\ IdleSync.pc = "idle"
  BY DEF IdleSync, SyncCalls, OnecState
<1>4. /\ sync' \in [Syncs -> SyncCalls] /\ sync'[s].pc = "idle"
      /\ \A r \in Syncs : r # s => sync'[r] = sync[r]
  BY <1>1, <1>3 DEF TypeInv, TypeOK
<1>5. SyncsOK'
  BY <1>4 DEF TypeInv, SyncsOK
<1>6. robbed' = IF current # Null THEN robbed
                ELSE robbed \cup {u \in Tokens : Superseded(t, u) /\ row[u].lease = "held"}
  BY DEF SyncWrite
<1>7. robbed \subseteq robbed' /\ robbed' \subseteq Tokens
  BY <1>6 DEF TypeInv, TypeOK
<1>8. row' = [u \in Tokens |->
           IF u = t
             THEN IF row[t] = Null THEN [state |-> MapOnecState(item), lease |-> "none", s3Key |-> FALSE]
                  ELSE SyncedRow(row[t], current, item)
           ELSE IF current = Null /\ Superseded(t, u)
             THEN [row[u] EXCEPT !.state = "SUPERSEDED", !.lease = "none"]
           ELSE row[u]]
  BY DEF SyncWrite
<1> HIDE DEF t, item, current
<1>9. ASSUME NEW u \in Tokens
      PROVE  /\ row'[u] \in Invoices \cup {Null}
             /\ row[u] # Null => row'[u] # Null
             /\ row'[u] # Null /\ row'[u].state = "SENT" =>
                  (row[u] # Null /\ row[u].state = "SENT") \/ (u = t /\ item = "SENT")
             /\ row[u] # Null /\ row[u].lease = "held" =>
                  row'[u].lease = "held" \/ u \in robbed' \/ (u = t /\ item = "CANCELLED")
  <2>0. row[u] \in Invoices \cup {Null}  BY DEF TypeInv, TypeOK
  <2>1. CASE u = t /\ row[t] = Null
    <3>1. row'[u] = [state |-> MapOnecState(item), lease |-> "none", s3Key |-> FALSE]
      BY <1>8, <2>1
    <3>2. row'[u] \in Invoices /\ row'[u].state = MapOnecState(item)
      BY <1>2, <3>1, MapType DEF Invoices
    <3>. QED  BY <1>2, <2>1, <3>2, MapType, InvoiceNullAssumption
  <2>2. CASE u = t /\ row[t] # Null
    <3>1. row'[u] = SyncedRow(row[t], current, item)  BY <1>8, <2>2
    <3>2. row[t] \in Invoices  BY <2>0, <2>2
    <3>. QED  BY <1>2, <2>2, <3>1, <3>2, SyncedRowType, InvoiceNullAssumption
  <2>3. CASE u # t /\ current = Null /\ Superseded(t, u)
    <3>1. row'[u] = [row[u] EXCEPT !.state = "SUPERSEDED", !.lease = "none"]  BY <1>8, <2>3
    <3>2. row[u] # Null  BY <2>3 DEF Superseded
    <3>3. row'[u] \in Invoices /\ row'[u].state = "SUPERSEDED"
      BY <2>0, <3>1, <3>2 DEF Invoices, InvoiceState
    <3>4. row[u].lease = "held" => u \in robbed'
      BY <1>6, <2>3
    <3>. QED  BY <3>2, <3>3, <3>4, InvoiceNullAssumption
  <2>4. CASE u # t /\ ~(current = Null /\ Superseded(t, u))
    <3>1. row'[u] = row[u]  BY <1>8, <2>4
    <3>. QED  BY <2>0, <3>1
  <2>. QED  BY <2>1, <2>2, <2>3, <2>4
<1>10. row' = [u \in Tokens |-> row'[u]]
  BY <1>8
<1>11. RowsStay
  BY <1>9, <1>10 DEF RowsStay
<1>12. TypeOK'
  BY <1>1, <1>4, <1>7, <1>11 DEF TypeInv, TypeOK, RowsStay
<1>. QED  BY <1>1, <1>4, <1>5, <1>7, <1>9, <1>11, <1>12, OtherStepType DEF TypeInv, t, item

\* Every variable of the delivery keeps its type, a call in progress has a
\* row and a synchronisation an item of 1C, whatever fails (processInvoice,
\* syncQueueItem).
THEOREM InvoiceTypes == Spec => [](TypeOK /\ CallsOK /\ SyncsOK)
<1>1. Init => TypeInv
  <2> SUFFICES ASSUME Init PROVE TypeInv  OBVIOUS
  <2>1. IdleSync \in SyncCalls /\ IdleSync.pc = "idle"  BY DEF IdleSync, SyncCalls, OnecState
  <2>2. NoDelivery \in Deliveries  BY DEF NoDelivery, Deliveries
  <2>3. CallsOK /\ SyncsOK
    BY <2>1, IdleCallType DEF Init, CallsOK, SyncsOK, Placed, Unfinished
  <2>4. requested \in BOOLEAN  BY DEF Init
  <2>5. onec \in [Tokens -> OnecState] /\ row \in [Tokens -> Invoices \cup {Null}]
    BY DEF Init, OnecState
  <2>6. /\ delivery \in [Tokens -> [Channels -> Deliveries]] /\ sync \in [Syncs -> SyncCalls]
        /\ call \in [Calls -> ProcessCalls] /\ accepted \in [Tokens -> [Channels -> Nat]]
    BY <2>1, <2>2, IdleCallType DEF Init
  <2>7. TypeOK
    BY <2>4, <2>5, <2>6, InvoiceBoundsAssumption DEF Init, TypeOK
  <2>. QED  BY <2>3, <2>7 DEF TypeInv
<1>2. TypeInv /\ [Next]_vars => TypeInv'
  <2> SUFFICES ASSUME TypeInv, [Next]_vars PROVE TypeInv'  OBVIOUS
  <2>1. CASE UNCHANGED vars
    <3>1. TypeOK'  BY <2>1 DEF TypeInv, TypeOK, vars
    <3>2. CallsOK' /\ SyncsOK'  BY <2>1 DEF TypeInv, CallsOK, SyncsOK, Placed, vars
    <3>. QED  BY <3>1, <3>2 DEF TypeInv
  <2>2. CASE Change  BY <2>2, ChangeEffect
  <2>3. ASSUME NEW s \in Syncs, SyncStep(s) \/ \E t \in Tokens : FetchItem(s, t) PROVE TypeInv'
    <3>1. CASE SyncRead(s) \/ \E t \in Tokens : FetchItem(s, t)  BY <3>1, TakeEffect
    <3>2. CASE SyncWrite(s)  BY <3>2, WriteEffect
    <3>. QED  BY <2>3, <3>1, <3>2 DEF SyncStep
  <2>4. ASSUME NEW p \in Calls, CallStep(p) PROVE TypeInv'
    BY <2>4, ClaimEffect, LoadEffect, ValidateEffect, GiveBackEffect, GoOnEffect, StoreEffect,
       RefreshEffect, OpenEffect, SendEffect, RecordEffect, UndeliveredEffect, AckEffect, FailedEffect
       DEF CallStep
  <2>5. ASSUME NEW p \in Calls, CallFault(p) PROVE TypeInv'
    BY <2>5, FailEffect, AckEffect, CrashEffect, SendFailsEffect DEF CallFault
  <2>6. ASSUME NEW p \in Calls, NEW t \in Tokens, Select(p, t) PROVE TypeInv'
    BY <2>6, SelectEffect
  <2>7. ASSUME NEW t \in Tokens, LeasePasses(t) \/ \E c \in Channels : BackoffPasses(t, c) PROVE TypeInv'
    BY <2>7, PassEffect, BackoffEffect
  <2>. QED  BY <2>1, <2>2, <2>3, <2>4, <2>5, <2>6, <2>7 DEF Next
<1>. QED  BY <1>1, <1>2, PTL DEF Spec, TypeInv

-----------------------------------------------------------------------------
(* What SENT means.                                                          *)

Got(t) == \E c \in Channels : accepted[t][c] > 0

OnecKnows == \A t \in Tokens : onec[t] = "SENT" => Got(t)
RowKnows == \A t \in Tokens : row[t] # Null /\ row[t].state = "SENT" => Got(t)
ItemKnows == \A s \in Syncs : sync[s].pc # "idle" /\ sync[s].item = "SENT" => Got(sync[s].t)
RecordKnows ==
  \A t \in Tokens : \A c \in Channels :
    delivery[t][c].state = "SENT" \/ delivery[t][c].sentAt => accepted[t][c] > 0

\* What a call has learnt of its deliveries is true.
Learnt(p) ==
  call[p].pc # "idle" =>
    /\ \A c \in Channels : call[p].results[c] = "SENT" => accepted[call[p].t][c] > 0
    /\ call[p].report = "SENT" => Got(call[p].t)
    /\ call[p].pc \in {"validate", "send"} /\ call[p].existing.sentAt => accepted[call[p].t][Channel(p)] > 0
    /\ call[p].pc \in {"accepted", "note", "noted"} => accepted[call[p].t][Channel(p)] > 0

CallKnows == \A p \in Calls : Learnt(p)

SentInv == OnecKnows /\ RowKnows /\ ItemKnows /\ RecordKnows /\ CallKnows

\* The messengers forget nothing.
Grows == \A t \in Tokens : \A c \in Channels : accepted'[t][c] \in Nat /\ accepted'[t][c] >= accepted[t][c]

LEMMA AcceptedGrows ==
  ASSUME TypeInv, accepted' = accepted \/ \E p \in Calls : call[p].pc \in Unfinished /\ Accept(p)
  PROVE  Grows
<1>1. accepted \in [Tokens -> [Channels -> Nat]]  BY DEF TypeInv, TypeOK
<1>2. CASE accepted' = accepted  BY <1>1, <1>2 DEF Grows
<1>3. ASSUME NEW p \in Calls, call[p].pc \in Unfinished, Accept(p) PROVE Grows
  BY <1>1, <1>3, AcceptEffect DEF Grows
<1>. QED  BY <1>2, <1>3

LEMMA GotGrows ==
  ASSUME TypeInv, Grows, NEW t \in Tokens
  PROVE  /\ Got(t) => Got(t)'
         /\ \A c \in Channels : accepted[t][c] > 0 => accepted'[t][c] > 0
<1>1. \A c \in Channels : accepted[t][c] \in Nat /\ accepted'[t][c] \in Nat /\ accepted'[t][c] >= accepted[t][c]
  BY DEF TypeInv, TypeOK, Grows
<1>2. \A c \in Channels : accepted[t][c] > 0 => accepted'[t][c] > 0
  BY <1>1
<1>. QED  BY <1>2 DEF Got

\* What a call that does not move knows stays true.
LEMMA LearntStays ==
  ASSUME TypeInv, Grows, NEW q \in Calls, call'[q] = call[q], Learnt(q)
  PROVE  Learnt(q)'
<1>1. CASE call[q].pc = "idle"  BY <1>1 DEF Learnt
<1>2. CASE call[q].pc # "idle"
  <2>1. call[q].t \in Tokens  BY <1>2, WhereItStands
  <2>2. /\ call[q].pc \in {"validate", "send", "accepted", "note", "noted"} => Channel(q) \in Channels
        /\ Channel(q)' = Channel(q)
    BY WhereItStands DEF Unfinished, Channel
  <2>. QED  BY <1>2, <2>1, <2>2, GotGrows DEF Learnt
<1>. QED  BY <1>1, <1>2

\* What the tables and 1C may learn in a step.
TablesLearn ==
  /\ \A t \in Tokens : onec'[t] = "SENT" => onec[t] = "SENT" \/ Got(t)
  /\ \A t \in Tokens : row'[t] # Null /\ row'[t].state = "SENT" =>
                         (row[t] # Null /\ row[t].state = "SENT") \/ Got(t)
  /\ \A t \in Tokens : \A c \in Channels :
       delivery'[t][c].state = "SENT" \/ delivery'[t][c].sentAt =>
         delivery[t][c].state = "SENT" \/ delivery[t][c].sentAt \/ accepted[t][c] > 0

LEMMA TablesKnow ==
  ASSUME TypeInv, SentInv, Grows, TablesLearn
  PROVE  OnecKnows' /\ RowKnows' /\ RecordKnows'
<1>1. OnecKnows'  BY GotGrows DEF SentInv, OnecKnows, TablesLearn
<1>2. RowKnows'  BY GotGrows DEF SentInv, RowKnows, TablesLearn
<1>3. RecordKnows'  BY GotGrows DEF SentInv, RecordKnows, TablesLearn
<1>. QED  BY <1>1, <1>2, <1>3

LEMMA SentFrame ==
  ASSUME TypeInv, SentInv, NEW p \in Calls, Alone(p), Grows, sync' = sync, TablesLearn, Learnt(p)'
  PROVE  SentInv'
<1>1. OnecKnows' /\ RowKnows' /\ RecordKnows'  BY TablesKnow
<1>2. ItemKnows'
  BY GotGrows DEF SentInv, ItemKnows, TypeInv, SyncsOK
<1>3. CallKnows'
  <2>1. ASSUME NEW q \in Calls, q # p PROVE Learnt(q)'
    BY <2>1, LearntStays DEF Alone, SentInv, CallKnows
  <2>. QED  BY <2>1 DEF CallKnows
<1>. QED  BY <1>1, <1>2, <1>3 DEF SentInv

\* A call that keeps its results and its report.
LEMMA LearntMoves ==
  ASSUME TypeInv, SentInv, Grows, NEW p \in Calls, call[p].pc # "idle",
         call'[p].t = call[p].t, call'[p].results = call[p].results, call'[p].report = call[p].report,
         call'[p].pc \in {"validate", "send"} /\ call'[p].existing.sentAt => accepted'[call[p].t][Channel(p)'] > 0,
         call'[p].pc \in {"accepted", "note", "noted"} => accepted'[call[p].t][Channel(p)'] > 0
  PROVE  Learnt(p)'
<1>1. call[p].t \in Tokens  BY WhereItStands
<1>2. Learnt(p)  BY DEF SentInv, CallKnows
<1>. QED  BY <1>1, <1>2, GotGrows DEF Learnt

\* deliverChannel returns SENT only for a document that has been accepted.
LEMMA LearntAdvances ==
  ASSUME TypeInv, SentInv, Grows, NEW p \in Calls, call[p].pc \in Unfinished,
         NEW result \in {"SENT", "SKIPPED", "ERROR"}, Advances(p, result),
         result = "SENT" => accepted[call[p].t][Channel(p)] > 0
  PROVE  Learnt(p)'
<1>1. call[p].t \in Tokens /\ call[p].pc # "idle" /\ Channel(p) \in Channels /\ call[p] \in ProcessCalls
  BY WhereItStands DEF Unfinished
<1>2. Learnt(p)  BY DEF SentInv, CallKnows
<1>3. call[p].results \in [Channels -> {"none", "SENT", "SKIPPED", "ERROR"}]  BY <1>1 DEF ProcessCalls
<1>4. \A c \in Channels : call'[p].results[c] = "SENT" => accepted'[call[p].t][c] > 0
  BY <1>1, <1>2, <1>3, GotGrows DEF Advances, Learnt
<1>. QED  BY <1>1, <1>2, <1>4, GotGrows DEF Learnt, Advances

LEMMA FinalStateMeans ==
  ASSUME NEW eligible \in SUBSET Channels, NEW results, FinalState(eligible, results) = "SENT"
  PROVE  \E c \in Channels : results[c] = "SENT"
BY DEF FinalState

\* Tables that learn nothing: a row t of the table may take a state that is not SENT.
LEMMA NothingLearnt ==
  ASSUME TypeInv, onec' = onec, NothingSent,
         \/ row' = row
         \/ \E t \in Tokens : WritesRow(t) /\ (row'[t].state # "SENT" \/ (row[t] # Null /\ row'[t].state = row[t].state))
  PROVE  TablesLearn
BY DEF TablesLearn, NothingSent, WritesRow

\* A report of SENT is true.
LEMMA SentAck ==
  ASSUME TypeInv, SentInv, NEW p \in Calls, Ack(p) \/ AckAnswerLost(p)
  PROVE  SentInv'
<1> DEFINE t == call[p].t
<1>0. Learnt(p)  BY DEF SentInv, CallKnows
<1>1. /\ Alone(p) /\ row' = row /\ delivery' = delivery /\ sync' = sync /\ accepted' = accepted
      /\ call[p].pc = "ack"
      /\ \A u \in Tokens : u # t => onec'[u] = onec[u]
      /\ onec'[t] = onec[t] \/ onec'[t] = call[p].report
      /\ \/ call'[p] = IdleCall
         \/ call'[p].pc = "failed" /\ KeepsCall(p)
  BY AckEffect
<1>2. Grows  BY <1>1, AcceptedGrows
<1>3. TablesLearn  BY <1>0, <1>1, SameDeliveries DEF TablesLearn, NothingSent, Learnt
<1>4. Learnt(p)'  BY <1>1, <1>2, IdleCallType, LearntMoves DEF Learnt, KeepsCall
<1>. QED  BY <1>1, <1>2, <1>3, <1>4, SentFrame

LEMMA SentCallStep ==
  ASSUME TypeInv, SentInv, NEW p \in Calls, CallStep(p)
  PROVE  SentInv'
<1> DEFINE t == call[p].t
<1>0. call[p].pc # "idle" => t \in Tokens /\ row[t] # Null  BY WhereItStands
<1>00. Learnt(p) /\ RecordKnows  BY DEF SentInv, CallKnows
<1>1. CASE Claim(p)
  <2>1. /\ Alone(p) /\ Inside /\ delivery' = delivery /\ WritesRow(t)
        /\ \/ call'[p] = IdleCall /\ row' = row
           \/ call'[p].pc = "claimed" /\ KeepsCall(p) /\ row'[t].state = "SENDING"
    BY <1>1, ClaimEffect
  <2>2. Grows /\ call[p].pc # "idle"  BY <1>1, <2>1, AcceptedGrows DEF Inside, Claim, At
  <2>3. TablesLearn  BY <1>0, <2>1, <2>2, SameDeliveries, NothingLearnt DEF Inside
  <2>4. Learnt(p)'
    BY <2>1, <2>2, LearntMoves, IdleCallType DEF KeepsCall, Learnt
  <2>. QED  BY <2>1, <2>2, <2>3, <2>4, SentFrame DEF Inside
<1>2. CASE Load(p) \/ ValidateCandidate(p) \/ RenderPdf(p) \/ SendNote(p)
  <2>1. /\ Alone(p) /\ Quiet /\ call'[p].t = call[p].t /\ call'[p].results = call[p].results
        /\ call'[p].report = call[p].report /\ call[p].pc # "idle"
        /\ \/ call'[p].pc \notin {"validate", "send", "accepted", "note", "noted"}
           \/ /\ call'[p].pc = "send" /\ call[p].pc = "validate"
              /\ call'[p].existing = call[p].existing /\ call'[p].i = call[p].i
           \/ call'[p].pc = "noted" /\ call[p].pc = "note" /\ call'[p].i = call[p].i
    BY <1>2, LoadEffect, ValidateEffect, GoOnEffect DEF KeepsCall
  <2>2. Grows  BY <2>1, AcceptedGrows DEF Quiet, Inside
  <2>3. TablesLearn  BY <2>1, SameDeliveries, NothingLearnt DEF Quiet, Inside
  <2>4. call'[p].pc \in {"send", "noted"} => Channel(p)' = Channel(p) /\ Channel(p) \in Channels
    BY <2>1, WhereItStands DEF Channel, Unfinished
  <2>5. Learnt(p)'
    BY <1>0, <1>00, <2>1, <2>2, <2>4, GotGrows, LearntMoves DEF Learnt
  <2>. QED  BY <2>1, <2>2, <2>3, <2>5, SentFrame DEF Quiet, Inside
<1>3. CASE MarkSuperseded(p) \/ Finish(p)
  <2> DEFINE final == FinalState(call[p].eligible, call[p].results)
  <2>1. /\ Alone(p) /\ Inside /\ delivery' = delivery /\ WritesRow(t) /\ call[p].pc # "idle"
        /\ \/ call'[p] = IdleCall /\ row'[t].state = "SUPERSEDED"
           \/ /\ call'[p].pc = "ack" /\ call'[p].t = t /\ call'[p].results = call[p].results
              /\ call'[p].report = final /\ row'[t].state = final
    BY <1>3, GiveBackEffect
  <2>2. Grows  BY <2>1, AcceptedGrows DEF Inside
  <2>3. final = "SENT" => Got(t)
    <3>1. call[p].eligible \in SUBSET Channels  BY WhereItStands DEF ProcessCalls
    <3>2. final = "SENT" => \E c \in Channels : call[p].results[c] = "SENT"
      BY <3>1, FinalStateMeans
    <3>. QED  BY <1>00, <2>1, <3>2 DEF Learnt, Got
  <2> HIDE DEF final
  <2>4. TablesLearn
    BY <1>0, <2>1, <2>3, SameDeliveries DEF Inside, TablesLearn, NothingSent, WritesRow
  <2>5. Learnt(p)'
    <3>1. CASE call'[p] = IdleCall  BY <3>1, IdleCallType DEF Learnt
    <3>2. CASE call'[p].pc = "ack" /\ call'[p].t = t /\ call'[p].results = call[p].results /\ call'[p].report = final
      BY <1>0, <1>00, <2>1, <2>2, <2>3, <3>2, GotGrows DEF Learnt
    <3>. QED  BY <2>1, <3>1, <3>2
  <2>. QED  BY <2>1, <2>2, <2>4, <2>5, SentFrame DEF Inside
<1>4. CASE StorePdf(p)
  <2>1. /\ Alone(p) /\ Inside /\ delivery' = delivery /\ WritesRow(t) /\ KeepsCall(p)
        /\ call[p].pc = "store" /\ call'[p].pc = "refresh" /\ row'[t].state = row[t].state
    BY <1>4, StoreEffect
  <2>2. Grows  BY <2>1, AcceptedGrows DEF Inside
  <2>3. TablesLearn  BY <1>0, <2>1, SameDeliveries, NothingLearnt DEF Inside
  <2>4. Learnt(p)'  BY <2>1, <2>2, LearntMoves DEF KeepsCall
  <2>. QED  BY <2>1, <2>2, <2>3, <2>4, SentFrame DEF Inside
<1>5. CASE Refresh(p)
  <2>1. /\ Alone(p) /\ Inside /\ delivery' = delivery /\ WritesRow(t) /\ call[p].pc = "refresh"
        /\ call'[p].t = t /\ call'[p].results = call[p].results
        /\ \/ call'[p].pc = "open" /\ row' = row /\ call'[p].report = call[p].report
           \/ call'[p].pc = "ack" /\ row'[t].state = "AVAILABLE" /\ call'[p].report = "STORED"
    BY <1>5, RefreshEffect
  <2>2. Grows  BY <2>1, AcceptedGrows DEF Inside
  <2>3. TablesLearn  BY <1>0, <2>1, SameDeliveries, NothingLearnt DEF Inside
  <2>4. Learnt(p)'  BY <1>0, <1>00, <2>1, <2>2, GotGrows DEF Learnt
  <2>. QED  BY <2>1, <2>2, <2>3, <2>4, SentFrame DEF Inside
<1>6. CASE Open(p)
  <2>1. /\ Alone(p) /\ Inside /\ row' = row /\ call[p].pc = "open" /\ NothingSent
        /\ \/ Advances(p, "SENT") /\ delivery[t][Channel(p)].state = "SENT"
           \/ Advances(p, "SKIPPED") \/ Advances(p, "ERROR")
           \/ /\ call'[p].pc = "validate" /\ call'[p].existing = delivery[t][Channel(p)]
              /\ call'[p].t = t /\ call'[p].i = call[p].i /\ call'[p].results = call[p].results
              /\ call'[p].report = call[p].report
    BY <1>6, OpenEffect
  <2>2. Grows  BY <2>1, AcceptedGrows DEF Inside
  <2>3. TablesLearn  BY <2>1, NothingLearnt DEF Inside
  <2>4. Channel(p) \in Channels /\ call[p].pc \in Unfinished  BY <2>1, WhereItStands DEF Unfinished
  <2>5. delivery[t][Channel(p)].state = "SENT" \/ delivery[t][Channel(p)].sentAt => accepted[t][Channel(p)] > 0
    BY <1>0, <1>00, <2>1, <2>4 DEF RecordKnows
  <2>6. Learnt(p)'
    <3>1. CASE Advances(p, "SENT") /\ delivery[t][Channel(p)].state = "SENT"
      BY <2>2, <2>4, <2>5, <3>1, LearntAdvances
    <3>2. CASE Advances(p, "SKIPPED")  BY <2>2, <2>4, <3>2, LearntAdvances
    <3>3. CASE Advances(p, "ERROR")  BY <2>2, <2>4, <3>3, LearntAdvances
    <3>4. CASE /\ call'[p].pc = "validate" /\ call'[p].existing = delivery[t][Channel(p)]
               /\ call'[p].t = t /\ call'[p].i = call[p].i /\ call'[p].results = call[p].results
               /\ call'[p].report = call[p].report
      <4>1. Channel(p)' = Channel(p)  BY <3>4 DEF Channel
      <4>2. call'[p].existing.sentAt => accepted'[t][Channel(p)] > 0
        BY <1>0, <2>1, <2>2, <2>4, <2>5, <3>4, GotGrows
      <4>. QED  BY <2>1, <2>2, <3>4, <4>1, <4>2, LearntMoves
    <3>. QED  BY <2>1, <3>1, <3>2, <3>3, <3>4
  <2>. QED  BY <2>1, <2>2, <2>3, <2>6, SentFrame DEF Inside
<1>7. CASE SendDocument(p)
  <2>1. /\ Alone(p) /\ row' = row /\ onec' = onec /\ sync' = sync /\ NothingSent /\ KeepsCall(p)
        /\ call[p].pc = "send"
        /\ \/ call'[p].pc = "accepted" /\ Accept(p)
           \/ call[p].existing.sentAt /\ call'[p].pc = "note" /\ accepted' = accepted
    BY <1>7, SendEffect
  <2>2. Grows /\ call[p].pc \in Unfinished  BY <2>1, AcceptedGrows DEF Unfinished
  <2>3. TablesLearn  BY <2>1, NothingLearnt
  <2>4. Channel(p) \in Channels /\ Channel(p)' = Channel(p)
    BY <2>1, <2>2, WhereItStands DEF Channel, KeepsCall
  <2>5. accepted'[t][Channel(p)] > 0
    <3>1. CASE Accept(p)
      <4>1. accepted[t][Channel(p)] \in Nat  BY <1>0, <2>1, <2>4 DEF TypeInv, TypeOK
      <4>2. accepted'[t][Channel(p)] = accepted[t][Channel(p)] + 1
        BY <1>0, <2>1, <2>2, <2>4, <3>1, AcceptEffect
      <4>. QED  BY <4>1, <4>2
    <3>2. CASE call[p].existing.sentAt /\ accepted' = accepted
      BY <1>00, <2>1, <3>2 DEF Learnt
    <3>. QED  BY <2>1, <3>1, <3>2
  <2>6. Learnt(p)'
    BY <2>1, <2>2, <2>4, <2>5, LearntMoves DEF KeepsCall
  <2>. QED  BY <2>1, <2>2, <2>3, <2>6, SentFrame
<1>8. CASE PersistSentAt(p) \/ MarkDelivered(p)
  <2>1. /\ Alone(p) /\ Inside /\ row' = row
        /\ \A u \in Tokens : \A c \in Channels :
              IF u = t /\ c = Channel(p) THEN delivery'[u][c].sentAt ELSE delivery'[u][c] = delivery[u][c]
        /\ \/ call[p].pc = "accepted" /\ call'[p].pc = "note" /\ KeepsCall(p)
           \/ call[p].pc = "noted" /\ Advances(p, "SENT")
    BY <1>8, RecordEffect
  <2>2. Grows  BY <2>1, AcceptedGrows DEF Inside
  <2>3. accepted[t][Channel(p)] > 0 /\ call[p].pc \in Unfinished  BY <1>00, <2>1 DEF Learnt, Unfinished
  <2>4. TablesLearn  BY <2>1, <2>3 DEF TablesLearn, Inside
  <2>5. Learnt(p)'
    <3>1. CASE call[p].pc = "accepted" /\ call'[p].pc = "note" /\ KeepsCall(p)
      <4>1. Channel(p)' = Channel(p) /\ accepted' = accepted  BY <2>1, <3>1 DEF Channel, KeepsCall, Inside
      <4>. QED  BY <2>2, <2>3, <3>1, <4>1, LearntMoves DEF KeepsCall
    <3>2. CASE Advances(p, "SENT")  BY <2>2, <2>3, <3>2, LearntAdvances
    <3>. QED  BY <2>1, <3>1, <3>2
  <2>. QED  BY <2>1, <2>2, <2>4, <2>5, SentFrame DEF Inside
<1>9. CASE MarkUndelivered(p)
  <2>1. Alone(p) /\ Inside /\ row' = row /\ NothingSent /\ call[p].pc = "undelivered" /\ Advances(p, "ERROR")
    BY <1>9, UndeliveredEffect
  <2>2. Grows /\ call[p].pc \in Unfinished  BY <2>1, AcceptedGrows DEF Inside, Unfinished
  <2>3. TablesLearn  BY <2>1, NothingLearnt DEF Inside
  <2>4. Learnt(p)'  BY <2>1, <2>2, LearntAdvances
  <2>. QED  BY <2>1, <2>2, <2>3, <2>4, SentFrame DEF Inside
<1>10. CASE Ack(p)  BY <1>10, SentAck
<1>11. CASE MarkFailed(p)
  <2>1. /\ Alone(p) /\ Inside /\ delivery' = delivery /\ call'[p] = IdleCall /\ call[p].pc = "failed"
        /\ WritesRow(t) /\ (row' = row \/ row'[t].state = "ERROR")
    BY <1>11, FailedEffect
  <2>2. Grows  BY <2>1, AcceptedGrows DEF Inside
  <2>3. TablesLearn  BY <1>0, <2>1, SameDeliveries, NothingLearnt DEF Inside
  <2>4. Learnt(p)'  BY <2>1, IdleCallType DEF Learnt
  <2>. QED  BY <2>1, <2>2, <2>3, <2>4, SentFrame DEF Inside
<1>. QED  BY <1>1, <1>2, <1>3, <1>4, <1>5, <1>6, <1>7, <1>8, <1>9, <1>10, <1>11 DEF CallStep

LEMMA SentCallFault ==
  ASSUME TypeInv, SentInv, NEW p \in Calls, CallFault(p)
  PROVE  SentInv'
<1> DEFINE t == call[p].t
<1>1. CASE CallFails(p) \/ DeliveryStepFails(p)
  <2>1. /\ Alone(p) /\ Quiet /\ KeepsCall(p) /\ call'[p].pc \in {"failed", "undelivered"}
        /\ call[p].pc # "idle"
    BY <1>1, FailEffect
  <2>2. Grows  BY <2>1, AcceptedGrows DEF Quiet, Inside
  <2>3. TablesLearn  BY <2>1, SameDeliveries, NothingLearnt DEF Quiet, Inside
  <2>4. Learnt(p)'  BY <2>1, <2>2, LearntMoves DEF KeepsCall
  <2>. QED  BY <2>1, <2>2, <2>3, <2>4, SentFrame DEF Quiet, Inside
<1>2. CASE Crash(p)
  <2>1. Alone(p) /\ Quiet /\ call'[p] = IdleCall  BY <1>2, CrashEffect
  <2>2. Grows  BY <2>1, AcceptedGrows DEF Quiet, Inside
  <2>3. TablesLearn  BY <2>1, SameDeliveries, NothingLearnt DEF Quiet, Inside
  <2>4. Learnt(p)'  BY <2>1, IdleCallType DEF Learnt
  <2>. QED  BY <2>1, <2>2, <2>3, <2>4, SentFrame DEF Quiet, Inside
<1>3. ASSUME NEW lost \in BOOLEAN, SendFails(p, lost) PROVE SentInv'
  <2>1. /\ Alone(p) /\ row' = row /\ onec' = onec /\ sync' = sync /\ NothingSent /\ KeepsCall(p)
        /\ call[p].pc = "send" /\ call'[p].pc = "undelivered" /\ (Accept(p) \/ accepted' = accepted)
    BY <1>3, SendFailsEffect
  <2>2. Grows  BY <2>1, AcceptedGrows DEF Unfinished
  <2>3. TablesLearn  BY <2>1, NothingLearnt
  <2>4. Learnt(p)'  BY <2>1, <2>2, LearntMoves DEF KeepsCall
  <2>. QED  BY <2>1, <2>2, <2>3, <2>4, SentFrame
<1>4. CASE AckAnswerLost(p)  BY <1>4, SentAck
<1>. QED  BY <1>1, <1>2, <1>3, <1>4 DEF CallFault

\* The steps that are not of a call in progress.
LEMMA SentOtherStep ==
  ASSUME TypeInv, SentInv,
         \/ Change
         \/ \E s \in Syncs : SyncStep(s) \/ \E t \in Tokens : FetchItem(s, t)
         \/ \E t \in Tokens : LeasePasses(t) \/ \E c \in Channels : BackoffPasses(t, c)
  PROVE  SentInv'
<1>0. ASSUME call' = call, accepted' = accepted, TablesLearn, ItemKnows' PROVE SentInv'
  <2>1. Grows  BY <1>0, AcceptedGrows
  <2>2. CallKnows'  BY <1>0, <2>1, LearntStays DEF SentInv, CallKnows
  <2>. QED  BY <1>0, <2>1, <2>2, TablesKnow DEF SentInv
<1>00. ASSUME accepted' = accepted, sync' = sync PROVE ItemKnows'
  BY <1>00 DEF SentInv, ItemKnows, Got
<1>1. CASE Change
  <2>1. /\ call' = call /\ row' = row /\ delivery' = delivery /\ sync' = sync /\ accepted' = accepted
        /\ \A t \in Tokens : onec'[t] = "SENT" => onec[t] = "SENT"
    BY <1>1, ChangeEffect
  <2>. QED  BY <1>0, <1>00, <2>1 DEF TablesLearn
<1>2. ASSUME NEW s \in Syncs, SyncRead(s) \/ \E t \in Tokens : FetchItem(s, t) PROVE SentInv'
  <2>1. /\ call' = call /\ onec' = onec /\ row' = row /\ delivery' = delivery /\ accepted' = accepted
        /\ \A r \in Syncs : r # s => sync'[r] = sync[r]
        /\ \/ sync[s].pc # "idle" /\ sync'[s].t = sync[s].t /\ sync'[s].item = sync[s].item
           \/ sync'[s].t \in Tokens /\ sync'[s].item = onec[sync'[s].t]
    BY <1>2, TakeEffect
  <2>2. ItemKnows'
    BY <2>1 DEF SentInv, ItemKnows, OnecKnows, Got
  <2>. QED  BY <1>0, <2>1, <2>2 DEF TablesLearn
<1>3. ASSUME NEW s \in Syncs, SyncWrite(s) PROVE SentInv'
  <2>1. /\ call' = call /\ onec' = onec /\ delivery' = delivery /\ accepted' = accepted
        /\ sync[s].pc # "idle" /\ sync'[s].pc = "idle" /\ \A r \in Syncs : r # s => sync'[r] = sync[r]
        /\ \A u \in Tokens : row'[u] # Null /\ row'[u].state = "SENT" =>
             (row[u] # Null /\ row[u].state = "SENT") \/ (u = sync[s].t /\ sync[s].item = "SENT")
    BY <1>3, WriteEffect
  <2>2. ItemKnows'
    BY <2>1 DEF SentInv, ItemKnows, Got
  <2>3. TablesLearn
    BY <2>1 DEF SentInv, ItemKnows, TablesLearn
  <2>. QED  BY <1>0, <2>1, <2>2, <2>3
<1>4. ASSUME NEW t \in Tokens, LeasePasses(t) PROVE SentInv'
  <2>1. /\ call' = call /\ onec' = onec /\ sync' = sync /\ accepted' = accepted /\ delivery' = delivery
        /\ WritesRow(t) /\ row'[t].state = row[t].state /\ row[t] # Null
    BY <1>4, PassEffect
  <2>. QED  BY <1>0, <1>00, <2>1, SameDeliveries, NothingLearnt
<1>5. ASSUME NEW t \in Tokens, NEW c \in Channels, BackoffPasses(t, c) PROVE SentInv'
  <2>1. call' = call /\ Inside /\ row' = row /\ NothingSent
    BY <1>5, BackoffEffect
  <2>. QED  BY <1>0, <1>00, <2>1, NothingLearnt DEF Inside
<1>. QED  BY <1>1, <1>2, <1>3, <1>4, <1>5 DEF SyncStep

LEMMA SentSelect ==
  ASSUME TypeInv, SentInv, NEW p \in Calls, NEW t \in Tokens, Select(p, t)
  PROVE  SentInv'
<1>1. /\ Alone(p) /\ Quiet /\ call'[p].pc = "selected" /\ call'[p].report = "none"
      /\ \A c \in Channels : call'[p].results[c] = "none"
  BY SelectEffect
<1>2. Grows  BY <1>1, AcceptedGrows DEF Quiet, Inside
<1>3. TablesLearn  BY <1>1, SameDeliveries, NothingLearnt DEF Quiet, Inside
<1>4. Learnt(p)'  BY <1>1 DEF Learnt
<1>. QED  BY <1>1, <1>2, <1>3, <1>4, SentFrame DEF Quiet, Inside

\* An invoice shown as SENT, here or in 1C, has reached a messenger, whatever
\* is skipped, retried, lost or stale (processInvoice, syncQueueItem): what a
\* call has learnt, what a table records and what a queue item says of a
\* delivery rests on a document that was accepted.
THEOREM SentWasAccepted == Spec => []SentMeansAccepted
<1>1. Init => SentInv
  BY IdleCallType
     DEF Init, SentInv, OnecKnows, RowKnows, ItemKnows, RecordKnows, CallKnows, Learnt, NoDelivery, IdleSync
<1>2. TypeInv /\ SentInv /\ [Next]_vars => SentInv'
  <2> SUFFICES ASSUME TypeInv, SentInv, [Next]_vars PROVE SentInv'  OBVIOUS
  <2>1. CASE UNCHANGED vars
    BY <2>1 DEF vars, SentInv, OnecKnows, RowKnows, ItemKnows, RecordKnows, CallKnows, Learnt, Got, Channel
  <2>2. CASE Next
    BY <2>2, SentCallStep, SentCallFault, SentOtherStep, SentSelect DEF Next
  <2>. QED  BY <2>1, <2>2
<1>3. SentInv => SentMeansAccepted
  BY DEF SentInv, OnecKnows, RowKnows, SentMeansAccepted, Got
<1>. QED  BY <1>1, <1>2, <1>3, InvoiceTypes, PTL DEF Spec, TypeInv

-----------------------------------------------------------------------------
(* How often a document is sent.                                             *)

\* A call holds its row from the claim until it gives the row back.
HoldPcs == (Unfinished \ {"selected"}) \cup {"finish", "drop"}
Holds(p, t) == call[p].t = t /\ call[p].pc \in HoldPcs

\* No call of t has lost its lease by time or by another's doing.
Kept(t) == t \notin overrun \cup robbed

\* A held row has its lease, and one holder, and the holder's copy of a
\* delivery agrees with the table.
LeaseHolds ==
  \A t \in Tokens : Kept(t) /\ onec[t] # "CANCELLED" =>
    \A p \in Calls : Holds(p, t) =>
      /\ row[t].lease = "held"
      /\ \A q \in Calls : Holds(q, t) => p = q
      /\ call[p].pc \in {"validate", "send"} => call[p].existing.sentAt = delivery[t][Channel(p)].sentAt

\* A cancelled version stays cancelled.
ItemCancelled == \A s \in Syncs : sync[s].pc # "idle" /\ sync[s].item = "CANCELLED" => onec[sync[s].t] = "CANCELLED"

\* The acceptances that are known here, or about to be.
Due(t, c) == accepted[t][c] - unsure[t][c]

\* An acceptance that counts is recorded, or about to be.
Recorded ==
  \A t \in Tokens : \A c \in Channels : Kept(t) /\ Due(t, c) > 0 =>
    \/ delivery[t][c].sentAt
    \/ \E p \in Calls : call[p].pc = "accepted" /\ call[p].t = t /\ Channel(p) = c

\* The call p is about to send the document of t over c.
Sender(p, t, c) ==
  call[p].pc = "send" /\ ~call[p].existing.sentAt /\ call[p].t = t /\ Channel(p) = c

\* At most one document that is known: none before the one being sent.
Once(t, c) ==
  /\ Due(t, c) <= 1
  /\ \A p \in Calls : Sender(p, t, c) =>
       /\ Due(t, c) <= 0
       /\ \A q \in Calls : Sender(q, t, c) => p = q

OneSender == \A t \in Tokens : \A c \in Channels : Kept(t) => Once(t, c)

OnceInv == LeaseHolds /\ ItemCancelled /\ Recorded /\ OneSender

\* What happened has happened, and a cancelled version stays cancelled.
Onward ==
  /\ overrun \subseteq overrun' /\ robbed \subseteq robbed'
  /\ \A u \in Tokens : onec[u] = "CANCELLED" => onec'[u] = "CANCELLED"

\* No document is accepted but those of which no record will tell.
DuesFall ==
  \A u \in Tokens : \A c \in Channels : Due(u, c) \in Int /\ Due(u, c)' \in Int /\ Due(u, c)' <= Due(u, c)

\* The step takes the acceptance that call p has not recorded for unknown.
Forgotten(p) ==
  \A u \in Tokens : \A c \in Channels :
    call[p].pc = "accepted" /\ call[p].t = u /\ Channel(p) = c => Due(u, c)' < Due(u, c)

LEMMA DuesStay ==
  ASSUME TypeInv, accepted' = accepted, unsure' = unsure
  PROVE  DuesFall
BY DEF DuesFall, Due, TypeInv, TypeOK

LEMMA DuesForgotten ==
  ASSUME TypeInv, NEW p \in Calls, accepted' = accepted, NotRecorded(p)
  PROVE  DuesFall /\ Forgotten(p)
<1>1. CASE call[p].pc # "accepted"
  BY <1>1, DuesStay DEF NotRecorded, At, Forgotten
<1>2. CASE call[p].pc = "accepted"
  <2>1. call[p].t \in Tokens /\ Channel(p) \in Channels  BY <1>2, WhereItStands DEF Unfinished
  <2>2. \A u \in Tokens : \A c \in Channels :
          unsure'[u][c] = IF u = call[p].t /\ c = Channel(p) THEN unsure[u][c] + 1 ELSE unsure[u][c]
    BY <1>2, <2>1 DEF NotRecorded, Unrecorded, At, TypeInv, TypeOK
  <2>3. \A u \in Tokens : \A c \in Channels : accepted[u][c] \in Nat /\ unsure[u][c] \in Nat
    BY DEF TypeInv, TypeOK
  <2>4. DuesFall  BY <2>2, <2>3 DEF DuesFall, Due
  <2>5. Forgotten(p)  BY <2>2, <2>3 DEF Forgotten, Due
  <2>. QED  BY <2>4, <2>5
<1>. QED  BY <1>1, <1>2

\* The version u is still worth a look after the step.
Live(u) == Kept(u) /\ onec[u] # "CANCELLED"

LEMMA LiveBefore ==
  ASSUME Onward, NEW u \in Tokens
  PROVE  (Kept(u)' => Kept(u)) /\ (Live(u)' => Live(u))
BY DEF Onward, Live, Kept

\* A step of call p takes no row it did not hold, takes no lease from a
\* holder and writes only deliveries of a row it holds.
LEMMA LeaseFrame ==
  ASSUME TypeInv, OnceInv, Onward, NEW p \in Calls, Alone(p),
         \A u \in Tokens : Holds(p, u)' => Holds(p, u),
         \A u \in Tokens : \A q \in Calls :
           Live(u)' /\ Holds(q, u)' /\ Holds(q, u) /\ row[u].lease = "held" => row'[u].lease = "held",
         \A u \in Tokens : \A c \in Channels :
           Holds(p, u) \/ delivery'[u][c].sentAt = delivery[u][c].sentAt,
         \A u \in Tokens : Live(u)' /\ Holds(p, u)' /\ call'[p].pc \in {"validate", "send"} =>
           call'[p].existing.sentAt = delivery'[u][Channel(p)'].sentAt
  PROVE  LeaseHolds'
<1> SUFFICES ASSUME NEW u \in Tokens, Live(u)', NEW q \in Calls, Holds(q, u)'
             PROVE  /\ row'[u].lease = "held"
                    /\ \A r \in Calls : Holds(r, u)' => q = r
                    /\ call'[q].pc \in {"validate", "send"} =>
                         call'[q].existing.sentAt = delivery'[u][Channel(q)'].sentAt
  BY DEF LeaseHolds, Live
<1>1. Live(u)  BY LiveBefore
<1>2. ASSUME NEW r \in Calls, Holds(r, u)' PROVE Holds(r, u)
  <2>1. CASE r = p  BY <1>2, <2>1
  <2>2. CASE r # p
    <3>1. call'[r] = call[r]  BY <2>2 DEF Alone
    <3>. QED  BY <1>2, <3>1 DEF Holds
  <2>. QED  BY <2>1, <2>2
<1>3. /\ Holds(q, u) /\ row[u].lease = "held"
      /\ \A r \in Calls : Holds(r, u) => q = r
      /\ call[q].pc \in {"validate", "send"} => call[q].existing.sentAt = delivery[u][Channel(q)].sentAt
  BY <1>1, <1>2 DEF OnceInv, LeaseHolds, Live
<1>4. row'[u].lease = "held"  BY <1>3
<1>5. \A r \in Calls : Holds(r, u)' => q = r  BY <1>2, <1>3
<1>6. CASE q = p  BY <1>4, <1>5, <1>6
<1>7. CASE q # p
  <2>1. call'[q] = call[q] /\ Channel(q)' = Channel(q)  BY <1>7 DEF Alone, Channel
  <2>2. ~Holds(p, u)  BY <1>3, <1>7
  <2>3. call[q].pc \in {"validate", "send"} => Channel(q) \in Channels
    BY WhereItStands DEF Unfinished
  <2>. QED  BY <1>3, <1>4, <1>5, <2>1, <2>2, <2>3
<1>. QED  BY <1>6, <1>7

\* An acceptance that call p leaves behind is recorded or lost for good.
LEMMA RecordedFrame ==
  ASSUME TypeInv, OnceInv, Onward, NEW p \in Calls, Alone(p),
         \A u \in Tokens : \A c \in Channels : delivery[u][c].sentAt => delivery'[u][c].sentAt,
         \A u \in Tokens : \A c \in Channels :
           Kept(u)' /\ call[p].pc = "accepted" /\ call[p].t = u /\ Channel(p) = c =>
             ~(Due(u, c)' > 0) \/ delivery'[u][c].sentAt,
         \A u \in Tokens : \A c \in Channels :
           Due(u, c)' > 0 =>
             Due(u, c) > 0 \/ (call'[p].pc = "accepted" /\ call'[p].t = u /\ Channel(p)' = c)
  PROVE  Recorded'
<1> SUFFICES ASSUME NEW u \in Tokens, NEW c \in Channels, Kept(u)', Due(u, c)' > 0,
                    ~delivery'[u][c].sentAt
             PROVE  \E q \in Calls : call'[q].pc = "accepted" /\ call'[q].t = u /\ Channel(q)' = c
  BY DEF Recorded
<1>1. CASE call'[p].pc = "accepted" /\ call'[p].t = u /\ Channel(p)' = c
  BY <1>1
<1>2. CASE Due(u, c) > 0
  <2>1. Kept(u) /\ ~delivery[u][c].sentAt
    BY DEF Onward, Kept
  <2>2. PICK q \in Calls : call[q].pc = "accepted" /\ call[q].t = u /\ Channel(q) = c
    BY <1>2, <2>1 DEF OnceInv, Recorded
  <2>3. q # p  BY <2>2
  <2>4. call'[q] = call[q] /\ Channel(q)' = Channel(q)  BY <2>3 DEF Alone, Channel
  <2>. QED  BY <2>2, <2>4
<1>. QED  BY <1>1, <1>2

\* Nobody new sends, and nothing is accepted that counts.
LEMMA SenderFrame ==
  ASSUME TypeInv, OnceInv, Onward, NEW p \in Calls, Alone(p), DuesFall,
         call'[p].pc # "send"
  PROVE  OneSender'
<1> SUFFICES ASSUME NEW u \in Tokens, NEW c \in Channels, Kept(u)'
             PROVE  Once(u, c)'
  BY DEF OneSender
<1>1. Once(u, c)
  <2>1. Kept(u)  BY DEF Onward, Kept
  <2>. QED  BY <2>1 DEF OnceInv, OneSender
<1>2. ASSUME NEW q \in Calls, Sender(q, u, c)' PROVE Sender(q, u, c)
  <2>1. q # p  BY <1>2 DEF Sender
  <2>2. call'[q] = call[q] /\ Channel(q)' = Channel(q)  BY <2>1 DEF Alone, Channel
  <2>. QED  BY <1>2, <2>2 DEF Sender
<1>3. Due(u, c) \in Int /\ Due(u, c)' \in Int /\ Due(u, c)' <= Due(u, c)  BY DEF DuesFall
<1>4. Due(u, c)' <= 1  BY <1>1, <1>3 DEF Once
<1>5. ASSUME NEW q \in Calls, Sender(q, u, c)'
      PROVE  Due(u, c)' <= 0 /\ \A r \in Calls : Sender(r, u, c)' => q = r
  <2>1. Due(u, c) <= 0 /\ \A r \in Calls : Sender(r, u, c) => q = r  BY <1>1, <1>2, <1>5 DEF Once
  <2>. QED  BY <1>2, <1>3, <2>1
<1>. QED  BY <1>4, <1>5 DEF Once

LEMMA ItemFrame == ASSUME TypeInv, OnceInv, Onward, sync' = sync PROVE ItemCancelled'
BY DEF OnceInv, ItemCancelled, Onward, TypeInv, SyncsOK

\* A call that gives its row back, or never had it, takes no lease from others.
LeasesStay ==
  \A u \in Tokens : \A q \in Calls :
    Live(u)' /\ Holds(q, u)' /\ Holds(q, u) /\ row[u].lease = "held" => row'[u].lease = "held"

\* A step of call p that sends and records nothing.
LEMMA OnceStep ==
  ASSUME TypeInv, OnceInv, Onward, NEW p \in Calls, Alone(p), sync' = sync, DuesFall, Forgotten(p),
         NothingSent, LeasesStay, call'[p].pc # "send",
         call'[p].pc \in HoldPcs => call[p].pc \in HoldPcs /\ call'[p].t = call[p].t,
         call'[p].pc = "validate" => call'[p].existing = delivery'[call[p].t][Channel(p)']
  PROVE  OnceInv'
<1>1. \A u \in Tokens : Holds(p, u)' => Holds(p, u)  BY DEF Holds
<1>2. \A u \in Tokens : \A c \in Channels : delivery'[u][c].sentAt = delivery[u][c].sentAt
  BY DEF NothingSent
<1>3. LeaseHolds'
  <2>1. ASSUME NEW u \in Tokens, Holds(p, u)', call'[p].pc \in {"validate", "send"}
        PROVE  call'[p].existing.sentAt = delivery'[u][Channel(p)'].sentAt
    BY <2>1, <1>1 DEF Holds
  <2>. QED  BY <1>1, <1>2, <2>1, LeaseFrame DEF LeasesStay
<1>4. Recorded'
  <2>1. ASSUME NEW u \in Tokens, NEW c \in Channels, Kept(u)', call[p].pc = "accepted", call[p].t = u, Channel(p) = c
        PROVE  ~(Due(u, c)' > 0)
    <3>1. Due(u, c) <= 1
      BY <2>1 DEF OnceInv, OneSender, Once, Onward, Kept
    <3>2. Due(u, c)' < Due(u, c) /\ Due(u, c) \in Int /\ Due(u, c)' \in Int
      BY <2>1 DEF Forgotten, DuesFall
    <3>. QED  BY <3>1, <3>2
  <2>2. \A u \in Tokens : \A c \in Channels : Due(u, c)' > 0 => Due(u, c) > 0
    BY DEF DuesFall
  <2>3. \A u \in Tokens : \A c \in Channels : delivery[u][c].sentAt => delivery'[u][c].sentAt
    BY <1>2
  <2>. QED  BY <2>1, <2>2, <2>3, RecordedFrame
<1>5. OneSender'  BY SenderFrame
<1>6. ItemCancelled'  BY ItemFrame
<1>. QED  BY <1>3, <1>4, <1>5, <1>6 DEF OnceInv

\* The rows of a step that writes none, or keeps the lease of its own.
LEMMA SameLeases ==
  ASSUME NEW p \in Calls, row' = row \/ (WritesRow(call[p].t) /\ row'[call[p].t].lease = row[call[p].t].lease)
  PROVE  LeasesStay
BY DEF LeasesStay, WritesRow

\* The rows of a holder that gives its row back: it was the only one.
LEMMA LeaseGivenBack ==
  ASSUME TypeInv, OnceInv, Onward, NEW p \in Calls, WritesRow(call[p].t),
         call[p].pc \in HoldPcs, call'[p].pc \notin HoldPcs
  PROVE  LeasesStay
<1> SUFFICES ASSUME NEW u \in Tokens, NEW q \in Calls, Live(u)', Holds(q, u)', Holds(q, u),
                    row[u].lease = "held"
             PROVE  row'[u].lease = "held"
  BY DEF LeasesStay
<1>1. CASE u # call[p].t  BY <1>1 DEF WritesRow
<1>2. CASE u = call[p].t
  <2>1. Live(u) /\ Holds(p, u)  BY <1>2, LiveBefore DEF Holds
  <2>2. p = q  BY <2>1 DEF OnceInv, LeaseHolds, Live
  <2>. QED  BY <2>2 DEF Holds
<1>. QED  BY <1>1, <1>2

LEMMA OnwardInside ==
  ASSUME onec' = onec, overrun' = overrun, robbed \subseteq robbed'
  PROVE  Onward
BY DEF Onward

\* A step that accepts nothing, of a call that has nothing to record.
LEMMA NothingDue ==
  ASSUME TypeInv, NEW p \in Calls, accepted' = accepted, unsure' = unsure, call[p].pc # "accepted"
  PROVE  DuesFall /\ Forgotten(p)
BY DuesStay DEF Forgotten

LEMMA OnceGoesOn ==
  ASSUME TypeInv, OnceInv, NEW p \in Calls,
         Load(p) \/ RenderPdf(p) \/ SendNote(p) \/ StorePdf(p) \/ Open(p) \/ MarkUndelivered(p)
  PROVE  OnceInv'
<1>1. CASE Load(p) \/ RenderPdf(p) \/ SendNote(p)
  <2>1. /\ Alone(p) /\ Quiet /\ unsure' = unsure /\ call'[p].t = call[p].t
        /\ \/ call[p].pc = "claimed" /\ call'[p].pc = "check"
           \/ call[p].pc = "render" /\ call'[p].pc = "recheck"
           \/ call[p].pc = "note" /\ call'[p].pc = "noted"
    BY <1>1, LoadEffect, GoOnEffect DEF KeepsCall
  <2>2. Onward  BY <2>1, OnwardInside DEF Quiet, Inside
  <2>3. NothingSent /\ LeasesStay  BY <2>1, SameDeliveries, SameLeases DEF Quiet
  <2>. QED  BY <2>1, <2>2, <2>3, NothingDue, OnceStep DEF Quiet, Inside, HoldPcs, Unfinished
<1>2. CASE StorePdf(p)
  <2>1. /\ Alone(p) /\ Inside /\ delivery' = delivery /\ robbed' = robbed /\ unsure' = unsure
        /\ WritesRow(call[p].t) /\ KeepsCall(p) /\ call[p].pc = "store" /\ call'[p].pc = "refresh"
        /\ row'[call[p].t].lease = row[call[p].t].lease
    BY <1>2, StoreEffect
  <2>2. Onward  BY <2>1, OnwardInside DEF Inside
  <2>3. NothingSent /\ LeasesStay  BY <2>1, SameDeliveries, SameLeases
  <2>. QED  BY <2>1, <2>2, <2>3, NothingDue, OnceStep DEF KeepsCall, Inside, HoldPcs, Unfinished
<1>3. CASE Open(p)
  <2>1. /\ Alone(p) /\ Inside /\ row' = row /\ robbed' = robbed /\ unsure' = unsure
        /\ call[p].pc = "open" /\ NothingSent /\ call'[p].t = call[p].t
        /\ \/ call'[p].pc \in {"finish", "open"}
           \/ /\ call'[p].pc = "validate" /\ call'[p].existing = delivery[call[p].t][Channel(p)]
              /\ delivery' = delivery /\ call'[p].i = call[p].i
    BY <1>3, OpenEffect DEF Advances
  <2>2. Onward  BY <2>1, OnwardInside DEF Inside
  <2>3. LeasesStay  BY <2>1, SameLeases
  <2>4. call'[p].pc = "validate" => call'[p].existing = delivery'[call[p].t][Channel(p)']
    BY <2>1 DEF Channel
  <2>. QED  BY <2>1, <2>2, <2>3, <2>4, NothingDue, OnceStep DEF Inside, HoldPcs, Unfinished
<1>4. CASE MarkUndelivered(p)
  <2>1. /\ Alone(p) /\ Inside /\ row' = row /\ robbed' = robbed /\ unsure' = unsure
        /\ NothingSent /\ call[p].pc = "undelivered" /\ call'[p].t = call[p].t
        /\ call'[p].pc \in {"finish", "open"}
    BY <1>4, UndeliveredEffect DEF Advances
  <2>2. Onward  BY <2>1, OnwardInside DEF Inside
  <2>3. LeasesStay  BY <2>1, SameLeases
  <2>. QED  BY <2>1, <2>2, <2>3, NothingDue, OnceStep DEF Inside, HoldPcs, Unfinished
<1>. QED  BY <1>1, <1>2, <1>3, <1>4

LEMMA OnceEnds ==
  ASSUME TypeInv, OnceInv, NEW p \in Calls,
         MarkSuperseded(p) \/ Finish(p) \/ Refresh(p) \/ Ack(p) \/ AckAnswerLost(p) \/ MarkFailed(p)
  PROVE  OnceInv'
<1>1. CASE MarkSuperseded(p) \/ Finish(p)
  <2>1. /\ Alone(p) /\ Inside /\ delivery' = delivery /\ robbed' = robbed /\ unsure' = unsure
        /\ WritesRow(call[p].t) /\ call[p].pc \in {"drop", "finish"} /\ call'[p].pc \in {"idle", "ack"}
    BY <1>1, GiveBackEffect
  <2>2. Onward  BY <2>1, OnwardInside DEF Inside
  <2>3. NothingSent /\ LeasesStay
    BY <2>1, <2>2, SameDeliveries, LeaseGivenBack DEF HoldPcs, Unfinished
  <2>. QED  BY <2>1, <2>2, <2>3, NothingDue, OnceStep DEF Inside, HoldPcs, Unfinished
<1>2. CASE Refresh(p)
  <2>1. /\ Alone(p) /\ Inside /\ delivery' = delivery /\ robbed' = robbed /\ unsure' = unsure
        /\ WritesRow(call[p].t) /\ call[p].pc = "refresh" /\ call'[p].t = call[p].t
        /\ \/ call'[p].pc = "open" /\ row' = row
           \/ call'[p].pc = "ack"
    BY <1>2, RefreshEffect
  <2>2. Onward  BY <2>1, OnwardInside DEF Inside
  <2>3. NothingSent /\ LeasesStay
    BY <2>1, <2>2, SameDeliveries, SameLeases, LeaseGivenBack DEF HoldPcs, Unfinished
  <2>. QED  BY <2>1, <2>2, <2>3, NothingDue, OnceStep DEF Inside, HoldPcs, Unfinished
<1>3. CASE Ack(p) \/ AckAnswerLost(p)
  <2>1. /\ Alone(p) /\ row' = row /\ delivery' = delivery /\ sync' = sync /\ accepted' = accepted
        /\ history' = history /\ unsure' = unsure /\ call[p].pc = "ack" /\ call'[p].pc \in {"idle", "failed"}
        /\ \A u \in Tokens : u # call[p].t => onec'[u] = onec[u]
        /\ onec'[call[p].t] = onec[call[p].t] \/ onec[call[p].t] # "CANCELLED"
    BY <1>3, AckEffect, IdleCallType DEF history
  <2>2. Onward  BY <2>1 DEF Onward, history
  <2>3. NothingSent /\ LeasesStay  BY <2>1, SameDeliveries, SameLeases
  <2>. QED  BY <2>1, <2>2, <2>3, NothingDue, OnceStep DEF HoldPcs, Unfinished
<1>4. CASE MarkFailed(p)
  <2>1. /\ Alone(p) /\ Inside /\ delivery' = delivery /\ unsure' = unsure
        /\ call[p].pc = "failed" /\ call'[p].pc = "idle" /\ call[p].t \in Tokens
        /\ WritesRow(call[p].t) /\ robbed \subseteq robbed'
        /\ (\E q \in Calls \ {p} : Working(q, call[p].t)) => call[p].t \in robbed'
    BY <1>4, FailedEffect, IdleCallType
  <2>2. Onward  BY <2>1, OnwardInside DEF Inside
  <2>3. LeasesStay
    <3> SUFFICES ASSUME NEW u \in Tokens, NEW q \in Calls, Live(u)', Holds(q, u)', Holds(q, u),
                        row[u].lease = "held"
                 PROVE  row'[u].lease = "held"
      BY DEF LeasesStay
    <3>1. CASE u # call[p].t  BY <2>1, <3>1 DEF WritesRow
    <3>2. CASE u = call[p].t
      <4>1. q # p  BY <2>1 DEF Holds, HoldPcs, Unfinished
      <4>2. Working(q, u)  BY DEF Holds, Working, HoldPcs, Unfinished
      <4>3. u \in robbed'  BY <2>1, <3>2, <4>1, <4>2
      <4>. QED  BY <4>3 DEF Live, Kept
    <3>. QED  BY <3>1, <3>2
  <2>4. NothingSent  BY <2>1, SameDeliveries
  <2>. QED  BY <2>1, <2>2, <2>3, <2>4, NothingDue, OnceStep DEF Inside, HoldPcs, Unfinished
<1>. QED  BY <1>1, <1>2, <1>3, <1>4

LEMMA OnceFails ==
  ASSUME TypeInv, OnceInv, NEW p \in Calls,
         CallFails(p) \/ DeliveryStepFails(p) \/ Crash(p) \/ \E t \in Tokens : Select(p, t)
  PROVE  OnceInv'
<1>1. /\ Alone(p) /\ Quiet /\ DuesFall /\ Forgotten(p)
      /\ \/ call'[p].pc \in {"failed", "idle", "selected"}
         \/ call'[p].pc = "undelivered" /\ call[p].pc \in {"accepted", "note", "noted"} /\ call'[p].t = call[p].t
  <2>1. CASE CallFails(p) \/ DeliveryStepFails(p)
    BY <2>1, FailEffect, NothingDue, DuesForgotten DEF KeepsCall, Quiet, Inside
  <2>2. CASE Crash(p)  BY <2>2, CrashEffect, IdleCallType, DuesForgotten DEF Quiet, Inside
  <2>3. ASSUME NEW t \in Tokens, Select(p, t) PROVE <1>1!1 /\ <1>1!2
    BY <2>3, SelectEffect, NothingDue DEF Select, At, Quiet, Inside
  <2>. QED  BY <2>1, <2>2, <2>3
<1>2. Onward  BY <1>1, OnwardInside DEF Quiet, Inside
<1>3. NothingSent /\ LeasesStay  BY <1>1, SameDeliveries, SameLeases DEF Quiet
<1>. QED  BY <1>1, <1>2, <1>3, OnceStep DEF Quiet, Inside, HoldPcs, Unfinished

\* A row that can be claimed has no holder.
LEMMA OnceClaim ==
  ASSUME TypeInv, OnceInv, NEW p \in Calls, Claim(p)
  PROVE  OnceInv'
<1> DEFINE t == call[p].t
<1>1. /\ Alone(p) /\ Inside /\ delivery' = delivery /\ robbed' = robbed /\ unsure' = unsure
      /\ WritesRow(t) /\ call[p].pc = "selected"
      /\ \/ call'[p].pc = "idle" /\ row' = row
         \/ /\ call'[p].pc = "claimed" /\ call'[p].t = t
            /\ row[t].lease # "held" /\ row'[t].lease = "held"
  BY ClaimEffect, IdleCallType DEF KeepsCall, Claim, At
<1>0. DuesFall /\ Forgotten(p)  BY <1>1, NothingDue DEF Inside
<1>2. Onward  BY <1>1, OnwardInside DEF Inside
<1>3. NothingSent  BY <1>1, SameDeliveries
<1>4. CASE call'[p].pc = "idle" /\ row' = row
  BY <1>0, <1>1, <1>2, <1>3, <1>4, OnceStep, SameLeases DEF Inside, HoldPcs, Unfinished
<1>5. CASE call'[p].pc = "claimed" /\ call'[p].t = t /\ row[t].lease # "held" /\ row'[t].lease = "held"
  <2>1. LeaseHolds'
    <3> SUFFICES ASSUME NEW u \in Tokens, Live(u)', NEW q \in Calls, Holds(q, u)'
                 PROVE  /\ row'[u].lease = "held"
                        /\ \A r \in Calls : Holds(r, u)' => q = r
                        /\ call'[q].pc \in {"validate", "send"} =>
                             call'[q].existing.sentAt = delivery'[u][Channel(q)'].sentAt
      BY DEF LeaseHolds, Live
    <3>1. Live(u)  BY <1>2, LiveBefore
    <3>2. \A r \in Calls : Holds(r, u)' => r = p \/ Holds(r, u)
      BY <1>1 DEF Holds, Alone
    <3>3. CASE u = t
      <4>1. \A r \in Calls : ~Holds(r, u)
        BY <1>5, <3>1, <3>3 DEF OnceInv, LeaseHolds, Live
      <4>. QED  BY <1>5, <3>2, <3>3, <4>1
    <3>4. CASE u # t
      <4>1. ~Holds(p, u)' /\ row'[u] = row[u]  BY <1>1, <1>5, <3>4 DEF Holds, WritesRow
      <4>2. q # p /\ Holds(q, u) /\ \A r \in Calls : Holds(r, u)' => Holds(r, u)  BY <3>2, <4>1
      <4>3. call'[q] = call[q] /\ Channel(q)' = Channel(q)  BY <1>1, <4>2 DEF Alone, Channel
      <4>. QED  BY <1>1, <3>1, <4>1, <4>2, <4>3 DEF OnceInv, LeaseHolds, Live
    <3>. QED  BY <3>3, <3>4
  <2>2. Recorded'
    <3>1. \A u \in Tokens : \A c \in Channels : Due(u, c)' > 0 => Due(u, c) > 0  BY <1>0 DEF DuesFall
    <3>. QED  BY <1>1, <1>2, <1>3, <1>5, <3>1, RecordedFrame DEF NothingSent
  <2>3. OneSender'  BY <1>0, <1>1, <1>2, <1>5, SenderFrame
  <2>4. ItemCancelled'  BY <1>1, <1>2, ItemFrame DEF Inside
  <2>. QED  BY <2>1, <2>2, <2>3, <2>4 DEF OnceInv
<1>. QED  BY <1>1, <1>4, <1>5

\* The last check before the document goes out: the call is the holder, its
\* copy of the delivery is right, so no document has been accepted.
LEMMA OnceValidate ==
  ASSUME TypeInv, OnceInv, NEW p \in Calls, ValidateCandidate(p)
  PROVE  OnceInv'
<1> DEFINE t == call[p].t
<1>1. /\ Alone(p) /\ Quiet /\ unsure' = unsure /\ KeepsCall(p)
      /\ call[p].pc \in {"check", "recheck", "validate"}
      /\ call'[p].pc \in {"refresh", "render", "store", "send", "drop"}
      /\ call'[p].pc = "send" => call[p].pc = "validate" /\ onec[t] # "CANCELLED"
  BY ValidateEffect
<1>2. Onward  BY <1>1, OnwardInside DEF Quiet, Inside
<1>3. NothingSent /\ LeasesStay  BY <1>1, SameDeliveries, SameLeases DEF Quiet
<1>0. DuesFall /\ Forgotten(p)  BY <1>1, NothingDue DEF Quiet, Inside
<1>4. CASE call'[p].pc # "send"
  BY <1>0, <1>1, <1>2, <1>3, <1>4, OnceStep DEF Quiet, Inside, HoldPcs, Unfinished, KeepsCall
<1>5. CASE call'[p].pc = "send"
  <2>0. /\ call[p].pc = "validate" /\ t \in Tokens /\ Channel(p) \in Channels /\ Channel(p)' = Channel(p)
        /\ call'[p].existing = call[p].existing /\ call'[p].t = t /\ onec[t] # "CANCELLED"
    BY <1>1, <1>5, WhereItStands DEF KeepsCall, Channel, Unfinished
  <2>1. /\ \A u \in Tokens : Holds(p, u)' => Holds(p, u) /\ u = t
        /\ Holds(p, t)
    BY <1>5, <2>0 DEF Holds, HoldPcs, Unfinished
  <2>2. Live(t) => call[p].existing.sentAt = delivery[t][Channel(p)].sentAt
                   /\ \A q \in Calls : Holds(q, t) => p = q
    BY <2>0, <2>1 DEF OnceInv, LeaseHolds, Live
  <2>3. LeaseHolds'
    <3>1. ASSUME NEW u \in Tokens, Live(u)', Holds(p, u)'
          PROVE  call'[p].existing.sentAt = delivery'[u][Channel(p)'].sentAt
      BY <1>1, <1>2, <2>0, <2>1, <2>2, <3>1, LiveBefore DEF Quiet
    <3>2. \A u \in Tokens : \A c \in Channels : delivery'[u][c].sentAt = delivery[u][c].sentAt
      BY <1>1 DEF Quiet
    <3>. QED  BY <1>1, <1>2, <1>3, <2>1, <3>1, <3>2, LeaseFrame DEF LeasesStay
  <2>4. Recorded'
    <3>1. \A u \in Tokens : \A c \in Channels : Due(u, c)' > 0 => Due(u, c) > 0  BY <1>0 DEF DuesFall
    <3>. QED  BY <1>1, <1>2, <2>0, <3>1, RecordedFrame DEF Quiet
  <2>5. ItemCancelled'  BY <1>1, <1>2, ItemFrame DEF Quiet, Inside
  <2>6. OneSender'
    <3> SUFFICES ASSUME NEW u \in Tokens, NEW c \in Channels, Kept(u)'
                 PROVE  Once(u, c)'
      BY DEF OneSender
    <3>1. Kept(u) /\ Once(u, c)
      <4>1. Kept(u)  BY <1>2 DEF Onward, Kept
      <4>. QED  BY <4>1 DEF OnceInv, OneSender
    <3>2. \A q \in Calls : q # p => (Sender(q, u, c)' <=> Sender(q, u, c))
      BY <1>1 DEF Alone, Sender, Channel
    <3>3. Due(u, c)' = Due(u, c)  BY <1>1 DEF Quiet, Inside, Due
    <3>4. CASE Sender(p, u, c)'
      <4>1. u = t /\ c = Channel(p) /\ ~call[p].existing.sentAt
        BY <2>0, <3>4 DEF Sender
      <4>2. Live(t)  BY <2>0, <3>1, <4>1 DEF Live
      <4>3. ~delivery[t][c].sentAt /\ \A q \in Calls : Holds(q, t) => p = q
        BY <2>2, <4>1, <4>2
      <4>4. ~\E q \in Calls : call[q].pc = "accepted" /\ call[q].t = t /\ Channel(q) = c
        BY <2>0, <4>3 DEF Holds, HoldPcs, Unfinished
      <4>5. ~(Due(u, c) > 0)
        BY <3>1, <4>1, <4>3, <4>4 DEF OnceInv, Recorded
      <4>6. Due(u, c) \in Int  BY <1>0 DEF DuesFall
      <4>7. \A q \in Calls : Sender(q, u, c) => q = p
        BY <4>1, <4>3 DEF Sender, Holds, HoldPcs, Unfinished
      <4>. QED  BY <3>2, <3>3, <4>5, <4>6, <4>7 DEF Once
    <3>5. CASE ~Sender(p, u, c)'
      BY <3>1, <3>2, <3>3, <3>5 DEF Once
    <3>. QED  BY <3>4, <3>5
  <2>. QED  BY <2>3, <2>4, <2>5, <2>6 DEF OnceInv
<1>. QED  BY <1>4, <1>5

\* The document goes out, and the call knows it or not.
LEMMA OnceSend ==
  ASSUME TypeInv, OnceInv, NEW p \in Calls, SendDocument(p) \/ \E lost \in BOOLEAN : SendFails(p, lost)
  PROVE  OnceInv'
<1> DEFINE t == call[p].t
<1>1. /\ Alone(p) /\ row' = row /\ onec' = onec /\ sync' = sync /\ overrun' = overrun /\ robbed' = robbed
      /\ NothingSent /\ KeepsCall(p) /\ call[p].pc = "send"
      /\ \/ ~call[p].existing.sentAt /\ call'[p].pc = "accepted" /\ Accept(p) /\ unsure' = unsure
         \/ call'[p].pc = "undelivered" /\ Accept(p) /\ Unrecorded(p)
         \/ call'[p].pc \in {"note", "undelivered"} /\ accepted' = accepted /\ unsure' = unsure
  BY SendEffect, SendFailsEffect DEF history
<1>2. Onward  BY <1>1, OnwardInside
<1>3. LeasesStay  BY <1>1, SameLeases
<1>4. /\ call[p].pc \in Unfinished /\ call'[p].pc \in HoldPcs /\ call[p].pc \in HoldPcs
      /\ Channel(p)' = Channel(p) /\ Channel(p) \in Channels /\ t \in Tokens /\ call'[p].t = t
  BY <1>1, WhereItStands DEF Unfinished, HoldPcs, KeepsCall, Channel
<1>5. CASE accepted' = accepted /\ unsure' = unsure /\ call'[p].pc \in {"note", "undelivered"}
  BY <1>1, <1>2, <1>3, <1>4, <1>5, NothingDue, OnceStep
<1>6. CASE call'[p].pc = "undelivered" /\ Accept(p) /\ Unrecorded(p)
  <2>1. /\ \A u \in Tokens : \A c \in Channels :
             accepted'[u][c] = IF u = t /\ c = Channel(p) THEN accepted[u][c] + 1 ELSE accepted[u][c]
        /\ \A u \in Tokens : \A c \in Channels : accepted[u][c] \in Nat /\ unsure[u][c] \in Nat
    BY <1>4, <1>6, AcceptEffect DEF TypeInv, TypeOK
  <2>2. \A u \in Tokens : \A c \in Channels :
          unsure'[u][c] = IF u = t /\ c = Channel(p) THEN unsure[u][c] + 1 ELSE unsure[u][c]
    BY <1>4, <1>6 DEF Unrecorded, TypeInv, TypeOK
  <2>3. DuesFall
    <3> SUFFICES ASSUME NEW u \in Tokens, NEW c \in Channels
                 PROVE  Due(u, c) \in Int /\ Due(u, c)' \in Int /\ Due(u, c)' <= Due(u, c)
      BY DEF DuesFall
    <3>1. accepted[u][c] \in Nat /\ unsure[u][c] \in Nat  BY <2>1
    <3>2. CASE u = t /\ c = Channel(p)
      <4>1. accepted'[u][c] = accepted[u][c] + 1 /\ unsure'[u][c] = unsure[u][c] + 1  BY <2>1, <2>2, <3>2
      <4>. QED  BY <3>1, <4>1 DEF Due
    <3>3. CASE ~(u = t /\ c = Channel(p))
      <4>1. accepted'[u][c] = accepted[u][c] /\ unsure'[u][c] = unsure[u][c]  BY <2>1, <2>2, <3>3
      <4>. QED  BY <3>1, <4>1 DEF Due
    <3>. QED  BY <3>2, <3>3
  <2>4. Forgotten(p)  BY <1>1 DEF Forgotten
  <2>. QED  BY <1>1, <1>2, <1>3, <1>4, <1>6, <2>3, <2>4, OnceStep
<1>7. CASE Accept(p) /\ ~call[p].existing.sentAt /\ call'[p].pc = "accepted" /\ unsure' = unsure
  <2>1. /\ \A u \in Tokens : \A c \in Channels :
             Due(u, c)' = IF u = t /\ c = Channel(p) THEN Due(u, c) + 1 ELSE Due(u, c)
        /\ \A u \in Tokens : \A c \in Channels : Due(u, c) \in Int
    <3>1. /\ \A u \in Tokens : \A c \in Channels :
               accepted'[u][c] = IF u = t /\ c = Channel(p) THEN accepted[u][c] + 1 ELSE accepted[u][c]
          /\ \A u \in Tokens : \A c \in Channels : accepted[u][c] \in Nat /\ unsure[u][c] \in Nat
      BY <1>4, <1>7, AcceptEffect DEF TypeInv, TypeOK
    <3> SUFFICES ASSUME NEW u \in Tokens, NEW c \in Channels
                 PROVE  /\ Due(u, c)' = IF u = t /\ c = Channel(p) THEN Due(u, c) + 1 ELSE Due(u, c)
                        /\ Due(u, c) \in Int
      OBVIOUS
    <3>2. accepted[u][c] \in Nat /\ unsure[u][c] \in Nat /\ unsure'[u][c] = unsure[u][c]  BY <1>7, <3>1
    <3>3. CASE u = t /\ c = Channel(p)
      <4>1. accepted'[u][c] = accepted[u][c] + 1  BY <3>1, <3>3
      <4>. QED  BY <3>2, <3>3, <4>1 DEF Due
    <3>4. CASE ~(u = t /\ c = Channel(p))
      <4>1. accepted'[u][c] = accepted[u][c]  BY <3>1, <3>4
      <4>. QED  BY <3>2, <3>4, <4>1 DEF Due
    <3>. QED  BY <3>3, <3>4
  <2>2. \A u \in Tokens : \A c \in Channels : delivery'[u][c].sentAt = delivery[u][c].sentAt
    BY <1>1 DEF NothingSent
  <2>3. LeaseHolds'
    <3>1. \A u \in Tokens : Holds(p, u)' => Holds(p, u)  BY <1>4 DEF Holds
    <3>. QED  BY <1>1, <1>2, <1>3, <1>7, <2>2, <3>1, LeaseFrame DEF LeasesStay
  <2>4. Recorded'
    <3>1. ASSUME NEW u \in Tokens, NEW c \in Channels, Due(u, c)' > 0
          PROVE  Due(u, c) > 0 \/ (call'[p].pc = "accepted" /\ call'[p].t = u /\ Channel(p)' = c)
      BY <1>4, <1>7, <2>1, <3>1
    <3>. QED  BY <1>1, <1>2, <2>2, <3>1, RecordedFrame
  <2>5. ItemCancelled'  BY <1>1, <1>2, ItemFrame
  <2>6. OneSender'
    <3> SUFFICES ASSUME NEW u \in Tokens, NEW c \in Channels, Kept(u)'
                 PROVE  Once(u, c)'
      BY DEF OneSender
    <3>1. Once(u, c)
      <4>1. Kept(u)  BY <1>2 DEF Onward, Kept
      <4>. QED  BY <4>1 DEF OnceInv, OneSender
    <3>2. \A q \in Calls : Sender(q, u, c)' => q # p /\ Sender(q, u, c)
      BY <1>1, <1>7 DEF Alone, Sender, Channel
    <3>3. CASE u = t /\ c = Channel(p)
      <4>1. Sender(p, u, c)  BY <1>1, <1>7, <3>3 DEF Sender
      <4>2. Due(u, c) <= 0 /\ \A q \in Calls : Sender(q, u, c) => q = p
        BY <3>1, <4>1 DEF Once
      <4>3. Due(u, c)' <= 1
        <5>1. Due(u, c)' = Due(u, c) + 1 /\ Due(u, c) \in Int  BY <2>1, <3>3
        <5>. QED  BY <4>2, <5>1
      <4>. QED  BY <3>2, <4>2, <4>3 DEF Once
    <3>4. CASE ~(u = t /\ c = Channel(p))
      <4>1. Due(u, c)' = Due(u, c)  BY <2>1, <3>4
      <4>. QED  BY <3>1, <3>2, <4>1 DEF Once
    <3>. QED  BY <3>3, <3>4
  <2>. QED  BY <2>3, <2>4, <2>5, <2>6 DEF OnceInv
<1>. QED  BY <1>1, <1>5, <1>6, <1>7

\* The holder records an acceptance: it is the only one with a copy.
LEMMA OnceRecord ==
  ASSUME TypeInv, OnceInv, NEW p \in Calls, PersistSentAt(p) \/ MarkDelivered(p)
  PROVE  OnceInv'
<1> DEFINE t == call[p].t
<1>1. /\ Alone(p) /\ Inside /\ row' = row /\ robbed' = robbed /\ unsure' = unsure
      /\ \A u \in Tokens : \A c \in Channels :
            IF u = t /\ c = Channel(p) THEN delivery'[u][c].sentAt ELSE delivery'[u][c] = delivery[u][c]
      /\ call[p].pc \in {"accepted", "noted"} /\ call'[p].pc \in {"note", "finish", "open"} /\ call'[p].t = t
  BY RecordEffect DEF KeepsCall, Advances
<1>0. DuesFall  BY <1>1, DuesStay DEF Inside
<1>2. Onward  BY <1>1, OnwardInside DEF Inside
<1>3. LeasesStay  BY <1>1, SameLeases
<1>4. Holds(p, t) /\ t \in Tokens /\ Channel(p) \in Channels
  BY <1>1, WhereItStands DEF Holds, HoldPcs, Unfinished
<1>5. LeaseHolds'
  <2>1. \A u \in Tokens : Holds(p, u)' => Holds(p, u)  BY <1>1, <1>4 DEF Holds
  <2>2. \A u \in Tokens : \A c \in Channels : Holds(p, u) \/ delivery'[u][c].sentAt = delivery[u][c].sentAt
    BY <1>1, <1>4
  <2>. QED  BY <1>1, <1>2, <1>3, <2>1, <2>2, LeaseFrame DEF LeasesStay
<1>6. Recorded'
  <2>1. \A u \in Tokens : \A c \in Channels : delivery[u][c].sentAt => delivery'[u][c].sentAt
    BY <1>1
  <2>2. delivery'[t][Channel(p)].sentAt  BY <1>1, <1>4
  <2>3. \A u \in Tokens : \A c \in Channels : Due(u, c)' > 0 => Due(u, c) > 0  BY <1>0 DEF DuesFall
  <2>. QED  BY <1>1, <1>2, <2>1, <2>2, <2>3, RecordedFrame
<1>7. OneSender'  BY <1>0, <1>1, <1>2, SenderFrame
<1>8. ItemCancelled'  BY <1>1, <1>2, ItemFrame DEF Inside
<1>. QED  BY <1>5, <1>6, <1>7, <1>8 DEF OnceInv

\* The steps that are not of a call in progress.
LEMMA OnceOtherStep ==
  ASSUME TypeInv, OnceInv,
         \/ Change
         \/ \E s \in Syncs : SyncStep(s) \/ \E t \in Tokens : FetchItem(s, t)
         \/ \E t \in Tokens : LeasePasses(t) \/ \E c \in Channels : BackoffPasses(t, c)
  PROVE  OnceInv'
<1>0. ASSUME call' = call, accepted' = accepted, unsure' = unsure, Onward, NothingSent, ItemCancelled',
             \A u \in Tokens : \A q \in Calls :
               Live(u)' /\ Holds(q, u) /\ row[u] # Null /\ row[u].lease = "held" => row'[u].lease = "held"
      PROVE  OnceInv'
  <2>1. \A q \in Calls : Channel(q)' = Channel(q)  BY <1>0 DEF Channel
  <2>2. LeaseHolds'
    <3> SUFFICES ASSUME NEW u \in Tokens, Live(u)', NEW q \in Calls, Holds(q, u)'
                 PROVE  /\ row'[u].lease = "held"
                        /\ \A r \in Calls : Holds(r, u)' => q = r
                        /\ call'[q].pc \in {"validate", "send"} =>
                             call'[q].existing.sentAt = delivery'[u][Channel(q)'].sentAt
      BY DEF LeaseHolds, Live
    <3>1. Live(u) /\ \A r \in Calls : Holds(r, u)' <=> Holds(r, u)  BY <1>0, LiveBefore DEF Holds
    <3>2. row[u] # Null
      BY <3>1, WhereItStands DEF Holds, HoldPcs, Unfinished
    <3>3. call[q].pc \in {"validate", "send"} => delivery'[u][Channel(q)].sentAt = delivery[u][Channel(q)].sentAt
      BY <1>0, WhereItStands DEF NothingSent, Unfinished
    <3>4. /\ row[u].lease = "held"
          /\ \A r \in Calls : Holds(r, u) => q = r
          /\ call[q].pc \in {"validate", "send"} => call[q].existing.sentAt = delivery[u][Channel(q)].sentAt
      BY <3>1 DEF OnceInv, LeaseHolds, Live
    <3>5. row'[u].lease = "held"  BY <1>0, <3>1, <3>2, <3>4
    <3>. QED  BY <1>0, <2>1, <3>1, <3>3, <3>4, <3>5
  <2>3. Recorded'
    <3> SUFFICES ASSUME NEW u \in Tokens, NEW c \in Channels, Kept(u)', Due(u, c)' > 0
                 PROVE  \/ delivery'[u][c].sentAt
                        \/ \E q \in Calls : call'[q].pc = "accepted" /\ call'[q].t = u /\ Channel(q)' = c
      BY DEF Recorded
    <3>1. Kept(u) /\ Due(u, c) > 0 /\ delivery'[u][c].sentAt = delivery[u][c].sentAt
      BY <1>0 DEF Onward, Kept, Due, NothingSent
    <3>. QED  BY <1>0, <2>1, <3>1 DEF OnceInv, Recorded
  <2>4. OneSender'
    <3> SUFFICES ASSUME NEW u \in Tokens, NEW c \in Channels, Kept(u)'
                 PROVE  Once(u, c)'
      BY DEF OneSender
    <3>1. Once(u, c)
      <4>1. Kept(u)  BY <1>0 DEF Onward, Kept
      <4>. QED  BY <4>1 DEF OnceInv, OneSender
    <3>2. \A q \in Calls : Sender(q, u, c)' <=> Sender(q, u, c)  BY <1>0, <2>1 DEF Sender
    <3>3. Due(u, c)' = Due(u, c)  BY <1>0 DEF Due
    <3>. QED  BY <3>1, <3>2, <3>3 DEF Once
  <2>. QED  BY <1>0, <2>2, <2>3, <2>4 DEF OnceInv
<1>1. CASE Change
  <2>1. /\ call' = call /\ row' = row /\ delivery' = delivery /\ sync' = sync /\ accepted' = accepted
        /\ history' = history /\ \A t \in Tokens : onec[t] = "CANCELLED" => onec'[t] = "CANCELLED"
    BY <1>1, ChangeEffect
  <2>2. Onward /\ unsure' = unsure  BY <2>1 DEF Onward, history
  <2>. QED  BY <1>0, <2>1, <2>2, SameDeliveries, ItemFrame
<1>2. ASSUME NEW s \in Syncs, SyncRead(s) \/ \E t \in Tokens : FetchItem(s, t) PROVE OnceInv'
  <2>1. /\ call' = call /\ onec' = onec /\ row' = row /\ delivery' = delivery /\ accepted' = accepted
        /\ history' = history
        /\ \A r \in Syncs : r # s => sync'[r] = sync[r]
        /\ \/ sync[s].pc # "idle" /\ sync'[s].t = sync[s].t /\ sync'[s].item = sync[s].item
           \/ sync'[s].t \in Tokens /\ sync'[s].item = onec[sync'[s].t]
    BY <1>2, TakeEffect
  <2>2. Onward /\ unsure' = unsure  BY <2>1 DEF Onward, history
  <2>3. ItemCancelled'
    BY <2>1 DEF OnceInv, ItemCancelled
  <2>. QED  BY <1>0, <2>1, <2>2, <2>3, SameDeliveries
<1>3. ASSUME NEW s \in Syncs, SyncWrite(s) PROVE OnceInv'
  <2>1. /\ call' = call /\ onec' = onec /\ delivery' = delivery /\ accepted' = accepted
        /\ overrun' = overrun /\ unsure' = unsure /\ robbed \subseteq robbed'
        /\ sync[s].pc # "idle" /\ sync'[s].pc = "idle" /\ \A r \in Syncs : r # s => sync'[r] = sync[r]
        /\ \A u \in Tokens : row[u] # Null /\ row[u].lease = "held" =>
             row'[u].lease = "held" \/ u \in robbed' \/ (u = sync[s].t /\ sync[s].item = "CANCELLED")
    BY <1>3, WriteEffect
  <2>2. Onward  BY <2>1, OnwardInside
  <2>3. ItemCancelled'
    BY <2>1 DEF OnceInv, ItemCancelled
  <2>4. \A u \in Tokens : Live(u)' /\ row[u] # Null /\ row[u].lease = "held" => row'[u].lease = "held"
    <3>1. sync[s].item = "CANCELLED" => onec'[sync[s].t] = "CANCELLED"
      BY <2>1 DEF OnceInv, ItemCancelled
    <3>. QED  BY <2>1, <3>1 DEF Live, Kept
  <2>. QED  BY <1>0, <2>1, <2>2, <2>3, <2>4, SameDeliveries
<1>4. ASSUME NEW t \in Tokens, LeasePasses(t) PROVE OnceInv'
  <2>1. /\ call' = call /\ onec' = onec /\ sync' = sync /\ accepted' = accepted /\ delivery' = delivery
        /\ robbed' = robbed /\ unsure' = unsure /\ overrun \subseteq overrun' /\ WritesRow(t)
        /\ (\E p \in Calls : Holding(p, t)) => t \in overrun'
    BY <1>4, PassEffect
  <2>2. Onward  BY <2>1 DEF Onward
  <2>3. ASSUME NEW u \in Tokens, NEW q \in Calls, Live(u)', Holds(q, u), row[u].lease = "held"
        PROVE  row'[u].lease = "held"
    <3>1. Holding(q, u)  BY <2>3 DEF Holds, HoldPcs, Unfinished, Holding, Working
    <3>2. u # t  BY <2>1, <2>3, <3>1 DEF Live, Kept
    <3>. QED  BY <2>1, <2>3, <3>2 DEF WritesRow
  <2>. QED  BY <1>0, <2>1, <2>2, <2>3, SameDeliveries, ItemFrame
<1>5. ASSUME NEW t \in Tokens, NEW c \in Channels, BackoffPasses(t, c) PROVE OnceInv'
  <2>1. call' = call /\ Inside /\ row' = row /\ robbed' = robbed /\ unsure' = unsure /\ NothingSent
    BY <1>5, BackoffEffect
  <2>2. Onward  BY <2>1, OnwardInside DEF Inside
  <2>. QED  BY <1>0, <2>1, <2>2, ItemFrame DEF Inside
<1>. QED  BY <1>1, <1>2, <1>3, <1>4, <1>5 DEF SyncStep

\* A messenger gets the document of a version once, and once more for each
\* acceptance of which no record tells, whatever overlaps and crashes, as long
\* as no call loses the lease of the row it holds (processInvoice,
\* deliverChannel, syncQueueItem): a held row has one holder, whose copy of
\* the delivery agrees with the table, and the last check of 1C before a
\* document goes out is passed by the holder only.
THEOREM DocumentsSentOnce == Spec => []DocumentSentOnce
<1>1. Init => OnceInv
  BY IdleCallType
     DEF Init, OnceInv, LeaseHolds, ItemCancelled, Recorded, Due, OneSender, Once, Holds, HoldPcs, Unfinished,
         Sender, IdleSync
<1>2. TypeInv /\ OnceInv /\ [Next]_vars => OnceInv'
  <2> SUFFICES ASSUME TypeInv, OnceInv, [Next]_vars PROVE OnceInv'  OBVIOUS
  <2>1. CASE UNCHANGED vars
    BY <2>1 DEF vars, OnceInv, LeaseHolds, ItemCancelled, Recorded, Due, OneSender, Once, Holds, Sender, Kept, Channel
  <2>2. ASSUME NEW p \in Calls, CallStep(p) PROVE OnceInv'
    BY <2>2, OnceGoesOn, OnceEnds, OnceClaim, OnceValidate, OnceSend, OnceRecord DEF CallStep
  <2>3. ASSUME NEW p \in Calls, CallFault(p) PROVE OnceInv'
    BY <2>3, OnceFails, OnceEnds, OnceSend DEF CallFault
  <2>4. ASSUME NEW p \in Calls, NEW t \in Tokens, Select(p, t) PROVE OnceInv'
    BY <2>4, OnceFails
  <2>. QED  BY <2>1, <2>2, <2>3, <2>4, OnceOtherStep DEF Next
<1>3. TypeInv /\ OnceInv => DocumentSentOnce
  <2> SUFFICES ASSUME TypeInv, OnceInv, NEW t \in Tokens, NEW c \in Channels,
                      Kept(t)
               PROVE  accepted[t][c] <= 1 + unsure[t][c]
    BY DEF DocumentSentOnce, Kept
  <2>1. Due(t, c) <= 1 /\ accepted[t][c] \in Nat /\ unsure[t][c] \in Nat
    BY DEF OnceInv, OneSender, Once, TypeInv, TypeOK
  <2>. QED  BY <2>1 DEF Due
<1>. QED  BY <1>1, <1>2, <1>3, InvoiceTypes, PTL DEF Spec, TypeInv

=============================================================================
