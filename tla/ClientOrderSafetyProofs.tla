----------------------- MODULE ClientOrderSafetyProofs -----------------------
(***************************************************************************)
(* The safety invariants of ClientOrderExport, for any sets of orders,     *)
(* requests, workers and processes and any bounds.                         *)
(***************************************************************************)
EXTENDS ClientOrderExportProofs

----------------------------------------------------------------------------
(* SentMeansSaved.  A step that writes "sent" or "known in 1C" to a row    *)
(* does it with data computed earlier, so the invariant follows what       *)
(* requests and runs carry, back to the step that saw 1C's answer.         *)

RowSaysSaved(r) == KnownIn1C(r) \/ r.status = "SENT_TO_1C"

DataSaysSaved(d) ==
  \/ d.status = "SENT_TO_1C"
  \/ d.number1c = TRUE \/ d.sentTo1c = TRUE \/ d.isPostedIn1c = TRUE

RequestsSaved ==
  \A c \in Clients :
    /\ req[c].op = "update" /\ DataSaysSaved(req[c].data) => doc[req[c].o] # Null
    /\ req[c].op = "create" => ~DataSaysSaved(req[c].data)

RunsSaved ==
  \A w \in Workers :
    /\ worker[w].pc \in {"answered", "marking"} => doc[worker[w].o] # Null
    /\ worker[w].pc = "erring" => ~DataSaysSaved(worker[w].data)

PulledSaved == \A o \in pulled : doc[o] # Null

SavedInv == SentMeansSaved /\ RequestsSaved /\ RunsSaved /\ PulledSaved

\* An update says no more than the row and its data did.
LEMMA UpdatedSays ==
  ASSUME NEW r \in Rows, NEW d \in Data, NEW seen,
         RowSaysSaved(Updated(r, d, seen))
  PROVE  RowSaysSaved(r) \/ DataSaysSaved(d)
<1>1. CASE Updated(r, d, seen).status = "SENT_TO_1C"
  BY <1>1 DEF Updated, Column, RowSaysSaved, DataSaysSaved
<1>2. CASE Updated(r, d, seen).number1c
  BY <1>2 DEF Updated, Column, RowSaysSaved, DataSaysSaved, KnownIn1C, Data, Rows
<1>3. CASE Updated(r, d, seen).sentTo1c
  BY <1>3 DEF Updated, Column, RowSaysSaved, DataSaysSaved, KnownIn1C, Data, Rows
<1>4. CASE Updated(r, d, seen).isPostedIn1c
  BY <1>4 DEF Updated, Column, RowSaysSaved, DataSaysSaved, KnownIn1C, Data, Rows
<1> QED  BY <1>1, <1>2, <1>3, <1>4 DEF RowSaysSaved, KnownIn1C

LEMMA NewOrderSaysNothing ==
  ASSUME NEW lines, NEW key
  PROVE  ~RowSaysSaved(NewOrder(lines, key))
BY DEF RowSaysSaved, KnownIn1C, NewOrder

\* Managers' requests never say that an order is in 1C.
LEMMA ManagerSaysNothing ==
  ASSUME NEW r \in Rows
  PROVE  /\ \A lines : ~DataSaysSaved(UpdateData(r, lines))
         /\ ~DataSaysSaved(SubmitData(r))
         /\ ~DataSaysSaved(UnqueueData(r))
         /\ ~DataSaysSaved(RetryData(r))
         /\ ~DataSaysSaved(RestoreData(r))
         /\ ~DataSaysSaved(CancelData(r))
         /\ ~DataSaysSaved(NoData)
         /\ \A lines : ~DataSaysSaved([NoData EXCEPT !.lines = lines])
<1>0. Undefined # TRUE /\ Undefined # "SENT_TO_1C"
  BY NullAssumption DEF OrderStatus
<1> USE DEF DataSaysSaved, NoData
<1>1. \A lines : ~DataSaysSaved(UpdateData(r, lines))
  BY <1>0 DEF UpdateData, ResolveUpdatedOrderQueueState
<1>2. ~DataSaysSaved(SubmitData(r)) /\ ~DataSaysSaved(UnqueueData(r))
  BY <1>0 DEF SubmitData, UnqueueData
<1>3. ~DataSaysSaved(RetryData(r)) /\ ~DataSaysSaved(RestoreData(r))
  BY <1>0 DEF RetryData, RestoreData
<1>4. ~DataSaysSaved(CancelData(r))
  BY <1>0, <1>2 DEF CancelData
<1>5. ~DataSaysSaved(NoData) /\ \A lines : ~DataSaysSaved([NoData EXCEPT !.lines = lines])
  BY <1>0
<1> QED  BY <1>1, <1>2, <1>3, <1>4, <1>5

LEMMA PutSaysNothing ==
  ASSUME NEW r \in Rows \cup {Null}, NEW body
  PROVE  ~DataSaysSaved(PutWrite(r, body))
<1>0. Undefined # TRUE /\ Undefined # "SENT_TO_1C"
  BY NullAssumption DEF OrderStatus
<1>1. ~DataSaysSaved(PutData(r, body))
  BY <1>0 DEF PutData, DataSaysSaved, NoData
<1> QED  BY <1>1, ManagerSaysNothing DEF PutWrite

\* A failure recorded by the worker, a rejected acknowledgement and a
\* snapshot that is not applied do not say so either.
LEMMA FailureSaysNothing ==
  /\ \A cancel, validation \in BOOLEAN : ~DataSaysSaved(ExportFailureData(cancel, validation))
  /\ \A revision : ~DataSaysSaved(AckErrorData(revision))
<1>0. Undefined # TRUE /\ Undefined # "SENT_TO_1C"
  BY NullAssumption DEF OrderStatus
<1>1. \A cancel, validation \in BOOLEAN : ~DataSaysSaved(ExportFailureData(cancel, validation))
  BY <1>0 DEF DataSaysSaved, NoData, ExportFailureData
<1>2. \A revision : ~DataSaysSaved(AckErrorData(revision))
  BY <1>0 DEF DataSaysSaved, NoData, AckErrorData
<1> QED  BY <1>1, <1>2

\* 1C never loses a document.
DocKept == \A o \in Orders : doc[o] # Null => doc'[o] # Null

LEMMA SavedIsDoc ==
  ASSUME NEW payload \in Payloads
  PROVE  Saved(payload) # Null
BY SavedType, DocsAssumption

LEMMA DocNext == TypeInv /\ [Next]_vars => DocKept
<1> SUFFICES ASSUME TypeInv, [Next]_vars  PROVE DocKept
  OBVIOUS
<1> USE DEF DocKept
<1>0. doc \in [Orders -> Docs \cup {Null}]
  BY DEF TypeInv, TypeOK
<1>1. CASE UNCHANGED vars
  BY <1>1 DEF vars
<1>2. ASSUME NEW c \in Clients, ManagerRequest(c)  PROVE UNCHANGED doc
  BY <1>2 DEF ManagerRequest, CreateClientOrder, PutArrives, CopyClientOrder, UpdateClientOrder,
     SubmitClientOrder, UnqueueClientOrder, RetryClientOrderExport, DeleteDraftClientOrder,
     RestoreClientOrder, CancelClientOrder, Find, FindWith, onecVars
<1>3. ASSUME NEW c \in Clients, OnecRequest(c)  PROVE UNCHANGED doc
  BY <1>3 DEF OnecRequest, HandleOrderAckError, HandleOrderAckOk, HandleOrdersStatusBatch,
     HandleOrdersSnapshotBatch, Find, FindWith, onecVars
<1>4. ASSUME NEW c \in Clients, RequestStep(c) \/ Abort(c)  PROVE UNCHANGED doc
  BY <1>4 DEF RequestStep, PutClientOrder, DeleteItems, WriteCreate, WriteUpdate, WriteDelete,
     EndRequest, Abort, onecVars
<1>5. ASSUME NEW w \in Workers, NEW batch, NEW kind, RunOnce(w, batch, kind)  PROVE UNCHANGED doc
  BY <1>5 DEF RunOnce, onecVars
<1>6. ASSUME NEW w \in Workers, worker[w].pc = "calling"
      PROVE  Saved(PayloadOf(worker[w].o, Loaded(w))) # Null
             /\ PayloadOf(worker[w].o, Loaded(w)).o \in Orders
  BY <1>6, PayloadType, SavedIsDoc, SavedType DEF TypeInv, RunsKnow
<1>7. ASSUME NEW w \in Workers, RunStep(w)  PROVE DocKept
  <2>1. ASSUME NEW number \in BOOLEAN, NEW posted \in BOOLEAN, CallSucceeds(w, number, posted)
        PROVE  DocKept
    BY <1>0, <1>6, <2>1 DEF CallSucceeds
  <2>2. ASSUME NEW o \in Orders, ExportOrder(w, o)  PROVE UNCHANGED doc
    BY <2>2 DEF ExportOrder, onecVars
  <2> QED
    BY <1>7, <2>1, <2>2 DEF RunStep, ValidationFails, Call, OnlyWorker, MarkSuccessFind,
       MarkSuccessWrite, ReleaseAfterFailure, MarkFailureFind, MarkFailureWrite, FinishRun, onecVars
<1>8. ASSUME NEW w \in Workers, NEW err \in {"other", "unsupported"}, CallFails(w, err)
      PROVE  DocKept
  BY <1>0, <1>6, <1>8 DEF CallFails
<1>9. ASSUME NEW o \in Orders, PullStep(o)  PROVE DocKept
  <2>1. CASE OnecSavesHanded(o)
    <3>1. handed[o] \in Payloads
      BY <2>1 DEF OnecSavesHanded, TypeInv, TypeOK
    <3> QED  BY <1>0, <2>1, <3>1, SavedIsDoc DEF OnecSavesHanded
  <2> QED  BY <1>9, <2>1 DEF PullStep, FilterDirectPushLockedOrders, RespondQueued
<1>10. ASSUME NEW payload \in late, OnecSavesLate(payload)  PROVE DocKept
  <2>1. payload \in Payloads
    BY DEF TypeInv, TypeOK
  <2> QED  BY <1>0, <1>10, <2>1, SavedIsDoc, SavedType DEF OnecSavesLate
<1>11. ASSUME NEW o \in Orders,
              \/ \E includeSent \in BOOLEAN : HandleOrdersQueued(o, includeSent)
              \/ ReconcilePostedLiveOrders(o) \/ ExpireOrderLock(o)
       PROVE  UNCHANGED doc
  BY <1>11 DEF HandleOrdersQueued, ReconcilePostedLiveOrders, ExpireOrderLock, onecVars
<1>12. ASSUME \/ ExpireRunLock
              \/ \E p \in Processes : Unpause(p) \/ Crash(p)
       PROVE  UNCHANGED doc
  BY <1>12 DEF ExpireRunLock, Unpause, Crash, onecVars
<1>13. CASE Next
  BY <1>2, <1>3, <1>4, <1>5, <1>7, <1>8, <1>9, <1>10, <1>11, <1>12, <1>13 DEF Next
<1> QED  BY <1>1, <1>13

\* What a step leaves alone stays true.
LEMMA SavedFrame ==
  ASSUME TypeInv, SavedInv, DocKept
  PROVE  /\ row' = row => SentMeansSaved'
         /\ req' = req => RequestsSaved'
         /\ worker' = worker => RunsSaved'
         /\ pulled' = pulled => PulledSaved'
<1>1. row' = row => SentMeansSaved'
  BY DEF SavedInv, SentMeansSaved, DocKept
<1>2. req' = req => RequestsSaved'
  BY DEF SavedInv, RequestsSaved, DocKept, TypeInv, RequestsKnow
<1>3. worker' = worker => RunsSaved'
  BY DEF SavedInv, RunsSaved, DocKept, TypeInv, RunsKnow
<1>4. pulled' = pulled => PulledSaved'
  BY DEF SavedInv, PulledSaved, DocKept, TypeInv, TypeOK
<1> QED  BY <1>1, <1>2, <1>3, <1>4

\* A row that is written by a step that may say so.
LEMMA StoreSaved ==
  ASSUME TypeInv, SavedInv, DocKept, NEW o \in Orders, NEW r, Store(o, r),
         r # Null /\ RowSaysSaved(r) => doc'[o] # Null
  PROVE  SentMeansSaved'
BY DEF TypeInv, TypeOK, SavedInv, SentMeansSaved, RowSaysSaved, DocKept, Store

\* A request finds its order.
LEMMA FindWithSaved ==
  ASSUME TypeInv, SavedInv, DocKept, NEW c \in Clients, NEW op, NEW o \in Orders \cup {Null},
         NEW data, NEW refs, FindWith(c, op, o, data, refs),
         op = "create" => ~DataSaysSaved(data),
         op = "update" => (DataSaysSaved(data) => doc[o] # Null /\ o \in Orders)
  PROVE  SavedInv'
<1>0. req \in [Clients -> Requests]
  BY DEF TypeInv, TypeOK
<1> DEFINE q == [IdleRequest EXCEPT !.stage = "found", !.op = op, !.o = o, !.data = data,
                                    !.refs = refs]
<1>1. q.op = op /\ q.o = o /\ q.data = data
  BY DEF IdleRequest
<1>2. req' = [req EXCEPT ![c] = q] /\ UNCHANGED <<row, worker, pulled, doc>>
  BY DEF FindWith, workerVars, onecVars
<1> HIDE DEF q
<1>3. RequestsSaved'
  BY <1>0, <1>1, <1>2 DEF SavedInv, RequestsSaved, DocKept
<1> QED  BY <1>2, <1>3, SavedFrame DEF SavedInv

LEMMA FindSaved ==
  ASSUME TypeInv, SavedInv, DocKept, NEW c \in Clients, NEW op, NEW o \in Orders \cup {Null},
         NEW data, Find(c, op, o, data),
         op = "create" => ~DataSaysSaved(data),
         op = "update" => (DataSaysSaved(data) => doc[o] # Null /\ o \in Orders)
  PROVE  SavedInv'
BY FindWithSaved DEF Find

\* The managers' requests.
LEMMA ManagerSaved ==
  ASSUME TypeInv, SavedInv, DocKept, NEW c \in Clients, ManagerRequest(c)
  PROVE  SavedInv'
<1>0. req \in [Clients -> Requests]
  BY DEF TypeInv, TypeOK
<1>1. ASSUME NEW o \in Orders, row[o] # Null  PROVE row[o] \in Rows
  BY <1>1 DEF TypeInv, TypeOK
<1>2. ~DataSaysSaved(NoData) /\ \A lines : ~DataSaysSaved([NoData EXCEPT !.lines = lines])
  <2>1. Undefined # TRUE /\ Undefined # "SENT_TO_1C"
    BY NullAssumption DEF OrderStatus
  <2> QED  BY <2>1 DEF DataSaysSaved, NoData
<1>3. CASE \E lines \in Versions : CreateClientOrder(c, lines)
  BY <1>2, <1>3, FindSaved DEF CreateClientOrder
<1>4. ASSUME NEW key \in ClientOrderIds, NEW body \in Bodies, PutArrives(c, key, body)
      PROVE  SavedInv'
  <2>1. /\ req' = [req EXCEPT ![c] = [IdleRequest EXCEPT !.stage = "live", !.key = key, !.body = body]]
        /\ UNCHANGED <<row, worker, pulled, doc>>
    BY <1>4, Zenon DEF PutArrives, workerVars, onecVars
  <2>2. RequestsSaved'
    BY <1>0, <2>1 DEF SavedInv, RequestsSaved, DocKept, IdleRequest
  <2> QED  BY <2>1, <2>2, SavedFrame DEF SavedInv
<1>5. ASSUME NEW o \in Orders, CopyClientOrder(c, o)  PROVE SavedInv'
  BY <1>2, <1>5, FindSaved DEF CopyClientOrder
<1>6. ASSUME NEW o \in Orders, NEW lines \in Versions, UpdateClientOrder(c, o, lines)  PROVE SavedInv'
  BY <1>1, <1>6, ManagerSaysNothing, FindWithSaved DEF UpdateClientOrder
<1>7. ASSUME NEW o \in Orders, SubmitClientOrder(c, o)  PROVE SavedInv'
  BY <1>1, <1>7, ManagerSaysNothing, FindSaved DEF SubmitClientOrder
<1>8. ASSUME NEW o \in Orders, UnqueueClientOrder(c, o)  PROVE SavedInv'
  BY <1>1, <1>8, ManagerSaysNothing, FindSaved DEF UnqueueClientOrder
<1>9. ASSUME NEW o \in Orders, RetryClientOrderExport(c, o)  PROVE SavedInv'
  BY <1>1, <1>9, ManagerSaysNothing, FindSaved DEF RetryClientOrderExport
<1>10. ASSUME NEW o \in Orders, DeleteDraftClientOrder(c, o)  PROVE SavedInv'
  BY <1>10, FindSaved DEF DeleteDraftClientOrder
<1>11. ASSUME NEW o \in Orders, RestoreClientOrder(c, o)  PROVE SavedInv'
  BY <1>1, <1>11, ManagerSaysNothing, FindSaved DEF RestoreClientOrder
<1>12. ASSUME NEW o \in Orders, CancelClientOrder(c, o)  PROVE SavedInv'
  BY <1>1, <1>12, ManagerSaysNothing, FindSaved DEF CancelClientOrder
<1> QED
  BY <1>3, <1>4, <1>5, <1>6, <1>7, <1>8, <1>9, <1>10, <1>11, <1>12 DEF ManagerRequest

\* 1C speaks of documents it has.
LEMMA OnecSaved ==
  ASSUME TypeInv, SavedInv, DocKept, NEW c \in Clients, OnecRequest(c)
  PROVE  SavedInv'
<1>1. ASSUME NEW o \in Orders, HandleOrderAckError(c, o)  PROVE SavedInv'
  BY <1>1, FailureSaysNothing, FindSaved DEF HandleOrderAckError
<1>2. ASSUME NEW o \in Orders, NEW ack \in Acks, HandleOrderAckOk(c, o, ack)  PROVE SavedInv'
  BY <1>2, FindSaved DEF HandleOrderAckOk, SavedInv, PulledSaved
<1>3. ASSUME NEW o \in Orders, NEW item \in StatusItems, HandleOrdersStatusBatch(c, o, item)
      PROVE  SavedInv'
  BY <1>3, FindSaved DEF HandleOrdersStatusBatch
<1>4. ASSUME NEW o \in Orders, NEW item, HandleOrdersSnapshotBatch(c, o, item)  PROVE SavedInv'
  BY <1>4, FindSaved DEF HandleOrdersSnapshotBatch
<1> QED  BY <1>1, <1>2, <1>3, <1>4 DEF OnecRequest

\* The steps by which a request ends.
LEMMA RequestStepSaved ==
  ASSUME TypeInv, SavedInv, DocKept, NEW c \in Clients, RequestStep(c) \/ Abort(c)
  PROVE  SavedInv'
<1>0. req \in [Clients -> Requests] /\ req[c] \in Requests /\ row \in [Orders -> Rows \cup {Null}]
  BY DEF TypeInv, TypeOK
<1>1. ASSUME req' = [req EXCEPT ![c] = IdleRequest]  PROVE RequestsSaved'
  BY <1>0, <1>1 DEF SavedInv, RequestsSaved, DocKept, TypeInv, RequestsKnow, IdleRequest
<1>2. CASE PutClientOrder(c)
  <2> DEFINE o == FindByClientOrderId(req[c].key)
             r == RowOf(o)
             body == req[c].body
             q == [req[c] EXCEPT !.stage = "found", !.o = o,
                                 !.op = IF o = Null THEN "create" ELSE "update",
                                 !.data = PutWrite(r, body),
                                 !.refs = ReferencesOf[body.lines]]
  <2>1. ~DataSaysSaved(PutWrite(r, body))
    BY FindByClientOrderIdType, PutSaysNothing
  <2>2. q.data = PutWrite(r, body)
    BY <1>0 DEF Requests
  <2>3. /\ req' = [req EXCEPT ![c] = IF PutChecks(r, body) THEN q ELSE IdleRequest]
        /\ UNCHANGED <<row, worker, pulled, doc>>
    BY <1>2, Zenon DEF PutClientOrder, workerVars, onecVars
  <2> HIDE DEF q, r, body
  <2>4. RequestsSaved'
    <3>1. CASE ~PutChecks(r, body)
      BY <1>1, <2>3, <3>1
    <3>2. CASE PutChecks(r, body)
      BY <1>0, <2>1, <2>2, <2>3, <3>2 DEF SavedInv, RequestsSaved, DocKept
    <3> QED  BY <3>1, <3>2
  <2> QED  BY <2>3, <2>4, SavedFrame DEF SavedInv
<1>3. CASE DeleteItems(c)
  <2>1. /\ req'[c].op = req[c].op /\ req'[c].o = req[c].o /\ req'[c].data = req[c].data
        /\ \A d \in Clients : d # c => req'[d] = req[d]
        /\ UNCHANGED <<row, worker, pulled, doc>>
    BY <1>0, <1>3 DEF DeleteItems, Requests, workerVars, onecVars
  <2>2. RequestsSaved'
    BY <2>1 DEF SavedInv, RequestsSaved
  <2> QED  BY <2>1, <2>2, SavedFrame DEF SavedInv
<1>4. ASSUME NEW o \in Orders, WriteCreate(c, o)  PROVE SavedInv'
  <2> DEFINE new == NewOrder(req[c].data.lines, req[c].key)
  <2>1. UNCHANGED <<worker, pulled, doc>> /\ req' = [req EXCEPT ![c] = IdleRequest]
    BY <1>4 DEF WriteCreate, EndRequest, workerVars, onecVars
  <2>2. ~DataSaysSaved(req[c].data) /\ req[c].data.lines # Undefined
    BY <1>4 DEF WriteCreate, ReadyToWrite, SavedInv, RequestsSaved, TypeInv, RequestsKnow
  <2>3. new \in Rows /\ req[c].data \in Data
    BY <1>0, <2>2, NewOrderType DEF Requests, Data
  <2>4. ~RowSaysSaved(Updated(new, req[c].data, {}))
    <3> HIDE DEF new
    <3> QED  BY <2>2, <2>3, UpdatedSays, NewOrderSaysNothing DEF new
  <2>5. CASE UNCHANGED row
    BY <1>1, <2>1, <2>5, SavedFrame DEF SavedInv
  <2>6. CASE Store(o, Updated(new, req[c].data, {}))
    BY <1>1, <2>1, <2>4, <2>6, StoreSaved, SavedFrame DEF SavedInv
  <2> QED  BY <1>4, <2>5, <2>6 DEF WriteCreate
<1>5. CASE WriteUpdate(c)
  <2> DEFINE o == req[c].o
  <2>1. UNCHANGED <<worker, pulled, doc>> /\ req' = [req EXCEPT ![c] = IdleRequest]
    BY <1>5 DEF WriteUpdate, EndRequest, workerVars, onecVars
  <2>2. o \in Orders /\ (DataSaysSaved(req[c].data) => doc[o] # Null) /\ req[c].data \in Data
    BY <1>0, <1>5
       DEF WriteUpdate, ReadyToWrite, SavedInv, RequestsSaved, TypeInv, RequestsKnow, Requests
  <2>3. CASE row[o] = Null
    BY <1>1, <1>5, <2>1, <2>3, SavedFrame DEF SavedInv, WriteUpdate
  <2>4. CASE row[o] # Null
    <3>1. RowSaysSaved(row[o]) => doc[o] # Null
      BY <2>2, <2>4 DEF SavedInv, SentMeansSaved, RowSaysSaved
    <3>2. RowSaysSaved(Updated(row[o], req[c].data, req[c].seen)) => doc'[o] # Null
      BY <1>0, <2>1, <2>2, <2>4, <3>1, UpdatedSays
    <3>3. Store(o, Updated(row[o], req[c].data, req[c].seen))
      BY <1>5, <2>4 DEF WriteUpdate
    <3> QED  BY <1>1, <2>1, <2>2, <3>2, <3>3, StoreSaved, SavedFrame DEF SavedInv
  <2> QED  BY <2>3, <2>4
<1>6. CASE WriteDelete(c)
  <2>1. UNCHANGED <<worker, pulled, doc>> /\ req' = [req EXCEPT ![c] = IdleRequest]
    BY <1>6 DEF WriteDelete, EndRequest, workerVars, onecVars
  <2>2. req[c].o \in Orders /\ Store(req[c].o, Null)
    BY <1>6 DEF WriteDelete, ReadyToWrite, TypeInv, RequestsKnow
  <2> QED  BY <1>1, <2>1, <2>2, StoreSaved, SavedFrame DEF SavedInv
<1>7. CASE Abort(c)
  <2>1. UNCHANGED <<row, worker, pulled, doc>> /\ req' = [req EXCEPT ![c] = IdleRequest]
    BY <1>7 DEF Abort, workerVars, onecVars
  <2> QED  BY <1>1, <2>1, SavedFrame DEF SavedInv
<1> QED  BY <1>2, <1>3, <1>4, <1>5, <1>6, <1>7 DEF RequestStep

\* Only run w moves.
OthersWait(w) == \A v \in Workers : v # w => worker'[v] = worker[v]

LEMMA RunMovesSaved ==
  ASSUME TypeInv, SavedInv, DocKept, NEW w \in Workers, OthersWait(w),
         worker'[w].pc \in {"answered", "marking"} => doc'[worker'[w].o] # Null,
         worker'[w].pc = "erring" => ~DataSaysSaved(worker'[w].data),
         SentMeansSaved', UNCHANGED <<req, pulled>>
  PROVE  SavedInv'
<1>1. RunsSaved'
  BY DEF TypeInv, TypeOK, SavedInv, RunsSaved, RunsKnow, DocKept, OthersWait
<1> QED  BY <1>1, SavedFrame DEF SavedInv

\* The steps of a run.
LEMMA RunStepSaved ==
  ASSUME TypeInv, SavedInv, DocKept, NEW w \in Workers,
         \/ \E batch \in SUBSET Orders, kind \in {"redis", "memory"} : RunOnce(w, batch, kind)
         \/ RunStep(w)
         \/ \E err \in {"other", "unsupported"} : CallFails(w, err)
  PROVE  SavedInv'
<1> DEFINE o == worker[w].o
<1>0. /\ worker \in [Workers -> WorkerCalls] /\ worker[w] \in WorkerCalls
      /\ row \in [Orders -> Rows \cup {Null}] /\ doc \in [Orders -> Docs \cup {Null}]
  BY DEF TypeInv, TypeOK
<1>1. worker[w].pc \notin {"idle", "loop"} => o \in Orders /\ Loaded(w) \in Rows
  BY DEF TypeInv, RunsKnow
<1>2. ASSUME worker'[w].pc \in {"idle", "loop", "locked", "calling", "failed", "failing"},
             OthersWait(w), SentMeansSaved', UNCHANGED <<req, pulled>>
      PROVE  SavedInv'
  BY <1>2, RunMovesSaved
<1>3. worker[w].pc \notin {"idle", "loop"} =>
        Continues(w).pc = "loop" /\ Breaks(w).pc = "loop" /\ IdleWorker.pc = "idle"
  BY <1>1, LoopType
<1>4. row' = row => SentMeansSaved'
  BY SavedFrame
<1>5. ASSUME NEW batch, NEW kind, RunOnce(w, batch, kind)  PROVE SavedInv'
  <2>1. worker'[w].pc = "loop" /\ OthersWait(w)
    BY <1>0, <1>5 DEF RunOnce, IdleWorker, OthersWait
  <2> QED  BY <1>2, <1>4, <1>5, <2>1 DEF RunOnce, reqVars, onecVars
<1>6. ASSUME NEW p \in Orders, ExportOrder(w, p)  PROVE SavedInv'
  <2>1. worker'[w].pc \in {"locked", "loop"} /\ OthersWait(w)
    BY <1>0, <1>6 DEF ExportOrder, WorkerCalls, OthersWait
  <2> QED  BY <1>2, <1>4, <1>6, <2>1 DEF ExportOrder, reqVars, onecVars
<1>7. ASSUME NEW err, Fails(w, err), UNCHANGED <<row, req, pulled>>  PROVE SavedInv'
  <2>1. worker'[w].pc = "failed" /\ OthersWait(w)
    BY <1>0, <1>7 DEF Fails, WorkerCalls, OthersWait
  <2> QED  BY <1>2, <1>4, <1>7, <2>1
<1>8. CASE ValidationFails(w)
  BY <1>7, <1>8 DEF ValidationFails, OnlyWorker, reqVars, onecVars
<1>9. CASE Call(w)
  <2>1. worker'[w].pc = "calling" /\ OthersWait(w)
    BY <1>0, <1>9 DEF Call, WorkerCalls, OthersWait
  <2> QED  BY <1>2, <1>4, <1>9, <2>1 DEF Call, OnlyWorker, reqVars, onecVars
<1>10. ASSUME NEW number \in BOOLEAN, NEW posted \in BOOLEAN, CallSucceeds(w, number, posted)
       PROVE  SavedInv'
  <2>1. worker'[w].pc = "answered" /\ worker'[w].o = o /\ OthersWait(w)
    BY <1>0, <1>10 DEF CallSucceeds, WorkerCalls, OthersWait
  <2>2. o \in Orders /\ Loaded(w) \in Rows
    BY <1>1, <1>10 DEF CallSucceeds
  <2>3. doc'[o] = Saved(PayloadOf(o, Loaded(w)))
    BY <1>0, <1>10, <2>2 DEF CallSucceeds, PayloadOf
  <2>4. doc'[o] # Null
    BY <2>2, <2>3, PayloadType, SavedIsDoc
  <2> QED  BY <1>4, <1>10, <2>1, <2>4, RunMovesSaved DEF CallSucceeds, reqVars
<1>11. ASSUME NEW err \in {"other", "unsupported"}, CallFails(w, err)  PROVE SavedInv'
  BY <1>7, <1>11 DEF CallFails, reqVars
<1>12. CASE MarkSuccessFind(w)
  <2>1. doc'[o] # Null
    BY <1>1, <1>12 DEF MarkSuccessFind, SavedInv, RunsSaved, DocKept
  <2>2. worker'[w].pc \in {"marking", "loop"} /\ OthersWait(w)
        /\ (worker'[w].pc = "marking" => worker'[w].o = o)
    BY <1>0, <1>3, <1>12 DEF MarkSuccessFind, WorkerCalls, OthersWait
  <2> QED  BY <1>4, <1>12, <2>1, <2>2, RunMovesSaved DEF MarkSuccessFind, reqVars, onecVars
<1>13. ASSUME o \in Orders, row[o] # Null, Store(o, Updated(row[o], worker[w].data, {})),
              DataSaysSaved(worker[w].data) => doc[o] # Null
       PROVE  SentMeansSaved'
  <2>1. worker[w].data \in Data /\ row[o] \in Rows
    BY <1>0, <1>13 DEF WorkerCalls
  <2>2. RowSaysSaved(row[o]) => doc[o] # Null
    BY <1>13 DEF SavedInv, SentMeansSaved, RowSaysSaved
  <2>3. RowSaysSaved(Updated(row[o], worker[w].data, {})) => doc'[o] # Null
    BY <1>13, <2>1, <2>2, UpdatedSays DEF DocKept
  <2> QED  BY <1>13, <2>3, StoreSaved
<1>14. CASE MarkSuccessWrite(w)
  <2>1. CASE row[o] = Null
    BY <1>7, <1>14, <2>1 DEF MarkSuccessWrite, reqVars, onecVars
  <2>2. CASE row[o] # Null
    <3>1. o \in Orders /\ doc[o] # Null
      BY <1>1, <1>14 DEF MarkSuccessWrite, SavedInv, RunsSaved
    <3>2. SentMeansSaved'
      BY <1>13, <1>14, <2>2, <3>1 DEF MarkSuccessWrite
    <3>3. worker'[w].pc = "loop" /\ OthersWait(w)
      BY <1>0, <1>3, <1>14, <2>2 DEF MarkSuccessWrite, OthersWait
    <3> QED  BY <1>2, <1>14, <3>2, <3>3 DEF MarkSuccessWrite, reqVars, onecVars
  <2> QED  BY <2>1, <2>2
<1>15. CASE ReleaseAfterFailure(w)
  <2>1. worker'[w].pc = "failing" /\ OthersWait(w)
    BY <1>0, <1>15 DEF ReleaseAfterFailure, WorkerCalls, OthersWait
  <2> QED  BY <1>2, <1>4, <1>15, <2>1 DEF ReleaseAfterFailure, reqVars, onecVars
<1>16. ASSUME AfterFailure(w), worker[w].pc \notin {"idle", "loop"}
       PROVE  worker'[w].pc = "loop" /\ OthersWait(w)
  BY <1>0, <1>3, <1>16 DEF AfterFailure, OthersWait
<1>17. CASE MarkFailureFind(w)
  <2>1. CASE StillQueued(w)
    <3> DEFINE data == ExportFailureData(IsCancelExportOrder(Loaded(w)), worker[w].err = "validation")
    <3>1. worker' = [worker EXCEPT ![w].pc = "erring", ![w].data = data]
      BY <1>17, <2>1, Zenon DEF MarkFailureFind
    <3>2. IsCancelExportOrder(Loaded(w)) \in BOOLEAN /\ (worker[w].err = "validation") \in BOOLEAN
      BY DEF IsCancelExportOrder
    <3>3. ~DataSaysSaved(data)
      BY <3>2, FailureSaysNothing
    <3> HIDE DEF data
    <3>4. worker'[w].pc = "erring" /\ worker'[w].data = data /\ OthersWait(w)
      BY <1>0, <3>1 DEF WorkerCalls, OthersWait
    <3> QED  BY <1>4, <1>17, <3>3, <3>4, RunMovesSaved DEF MarkFailureFind, reqVars, onecVars
  <2>2. CASE ~StillQueued(w)
    BY <1>2, <1>4, <1>16, <1>17, <2>2 DEF MarkFailureFind, reqVars, onecVars
  <2> QED  BY <2>1, <2>2
<1>18. CASE MarkFailureWrite(w)
  <2>1. worker'[w].pc = "loop" /\ OthersWait(w)
    BY <1>0, <1>3, <1>16, <1>18 DEF MarkFailureWrite, OthersWait
  <2>2. CASE row[o] = Null
    BY <1>2, <1>4, <1>18, <2>1, <2>2 DEF MarkFailureWrite, reqVars, onecVars
  <2>3. CASE row[o] # Null
    <3>1. o \in Orders /\ ~DataSaysSaved(worker[w].data)
      BY <1>1, <1>18 DEF MarkFailureWrite, SavedInv, RunsSaved
    <3>2. SentMeansSaved'
      BY <1>13, <1>18, <2>3, <3>1 DEF MarkFailureWrite
    <3> QED  BY <1>2, <1>18, <2>1, <3>2 DEF MarkFailureWrite, reqVars, onecVars
  <2> QED  BY <2>2, <2>3
<1>19. CASE FinishRun(w)
  <2>1. worker'[w].pc = "idle" /\ OthersWait(w)
    BY <1>0, <1>19 DEF FinishRun, IdleWorker, OthersWait
  <2> QED  BY <1>2, <1>4, <1>19, <2>1 DEF FinishRun, reqVars, onecVars
<1> QED
  BY <1>5, <1>6, <1>8, <1>9, <1>10, <1>11, <1>12, <1>14, <1>15, <1>17, <1>18, <1>19 DEF RunStep

\* The pull channel and 1C.
LEMMA OnecStepSaved ==
  ASSUME TypeInv, SavedInv, DocKept, NEW o \in Orders,
         \/ \E includeSent \in BOOLEAN : HandleOrdersQueued(o, includeSent)
         \/ PullStep(o)
         \/ ReconcilePostedLiveOrders(o)
  PROVE  SavedInv'
<1>1. CASE \E includeSent \in BOOLEAN : HandleOrdersQueued(o, includeSent)
  BY <1>1, SavedFrame DEF HandleOrdersQueued, SavedInv, workerVars
<1>2. CASE FilterDirectPushLockedOrders(o)
  BY <1>2, SavedFrame DEF FilterDirectPushLockedOrders, SavedInv, workerVars
<1>5. CASE RespondQueued(o)
  BY <1>5, SavedFrame DEF RespondQueued, SavedInv, workerVars
<1>3. CASE OnecSavesHanded(o)
  <2>1. doc'[o] # Null
    BY <1>3, SavedIsDoc DEF OnecSavesHanded, TypeInv, TypeOK
  <2>2. PulledSaved'
    BY <1>3, <2>1 DEF OnecSavesHanded, SavedInv, PulledSaved, DocKept, TypeInv, TypeOK
  <2> QED  BY <1>3, <2>2, SavedFrame DEF OnecSavesHanded, SavedInv, reqVars, workerVars
<1>4. CASE ReconcilePostedLiveOrders(o)
  <2>1. SentMeansSaved'
    BY <1>4, StoreSaved DEF ReconcilePostedLiveOrders, DocKept
  <2> QED  BY <1>4, <2>1, SavedFrame DEF ReconcilePostedLiveOrders, SavedInv, workerVars, onecVars
<1> QED  BY <1>1, <1>2, <1>3, <1>4, <1>5 DEF PullStep

\* Late saves, expiring locks, pauses and crashes.
LEMMA EnvironmentSaved ==
  ASSUME TypeInv, SavedInv, DocKept,
         \/ \E payload \in late : OnecSavesLate(payload)
         \/ \E o \in Orders : ExpireOrderLock(o)
         \/ ExpireRunLock
         \/ \E p \in Processes : Unpause(p) \/ Crash(p)
  PROVE  SavedInv'
<1>1. CASE \E payload \in late : OnecSavesLate(payload)
  BY <1>1, SavedFrame DEF OnecSavesLate, SavedInv, reqVars, workerVars
<1>2. CASE \E o \in Orders : ExpireOrderLock(o)
  BY <1>2, SavedFrame DEF ExpireOrderLock, SavedInv, reqVars, onecVars
<1>3. CASE ExpireRunLock
  <2>1. \A w \in Workers : /\ worker'[w].pc = worker[w].pc /\ worker'[w].o = worker[w].o
                            /\ worker'[w].data = worker[w].data
    BY <1>3 DEF ExpireRunLock, TypeInv, TypeOK, WorkerCalls
  <2>2. RunsSaved'
    BY <2>1 DEF SavedInv, RunsSaved, DocKept, TypeInv, RunsKnow
  <2> QED  BY <1>3, <2>2, SavedFrame DEF ExpireRunLock, SavedInv, reqVars, onecVars
<1>4. CASE \E p \in Processes : Unpause(p)
  BY <1>4, SavedFrame DEF Unpause, SavedInv, reqVars, onecVars
<1>5. CASE \E p \in Processes : Crash(p)
  <2>1. RunsSaved'
    BY <1>5 DEF Crash, SavedInv, RunsSaved, DocKept, TypeInv, TypeOK, RunsKnow, IdleWorker
  <2> QED  BY <1>5, <2>1, SavedFrame DEF Crash, SavedInv, reqVars
<1> QED  BY <1>1, <1>2, <1>3, <1>4, <1>5

LEMMA SavedInit == Init => SavedInv
BY DEF Init, SavedInv, SentMeansSaved, RequestsSaved, RunsSaved, PulledSaved, IdleRequest, IdleWorker

\* Every step keeps SavedInv.
LEMMA SavedNext == TypeInv /\ SavedInv /\ [Next]_vars => SavedInv'
<1> SUFFICES ASSUME TypeInv, SavedInv, [Next]_vars  PROVE SavedInv'
  OBVIOUS
<1>0. DocKept
  BY DocNext
<1>1. CASE UNCHANGED vars
  BY <1>0, <1>1, SavedFrame DEF vars, SavedInv
<1>2. ASSUME NEW c \in Clients, ManagerRequest(c) \/ OnecRequest(c) \/ RequestStep(c) \/ Abort(c)
      PROVE  SavedInv'
  BY <1>0, <1>2, ManagerSaved, OnecSaved, RequestStepSaved
<1>3. CASE Next
  BY <1>0, <1>2, <1>3, RunStepSaved, OnecStepSaved, EnvironmentSaved DEF Next
<1> QED  BY <1>1, <1>3

\* However calls are lost, answered late or repeated and whatever crashes, an
\* order that the API shows as sent or known in 1C has a document in 1C: the
\* worker marks success only after an answer, and 1C acknowledges only what
\* it saved (markOrderExportSuccess, handleOrderAck).
THEOREM SentOrdersAreSaved == Spec => []SentMeansSaved
<1>1. SavedInv => SentMeansSaved
  BY DEF SavedInv
<1> QED  BY <1>1, TypeInit, TypeNext, SavedInit, SavedNext, PTL DEF Spec

----------------------------------------------------------------------------
(* PushExclusive and PullSkipsPushedOrders.  A push with an order lock has *)
(* its order's key in Redis until the TTL passes, and a run has the run    *)
(* lock or the flag of its process; a process that goes on without one of  *)
(* them never takes away what another holds.                               *)

LocksHeld ==
  \A w \in Workers : \A o \in Orders :
    HoldsOrderLock(w, o) /\ w \notin lapsed => orderLock[o] = w

FlagsHeld ==
  \A w \in Workers : worker[w].run = "memory" => memLock[ProcessOf[w]] = w

RunLockHeld ==
  \A w \in Workers : HoldsRunLock(w) /\ ~worker[w].outlived => runLock = w

\* A call that runs has one of the two; FinishRun gives it back.
RunsLocked ==
  \A w \in Workers : worker[w].pc # "idle" => worker[w].run # "none"

RunInv == FlagsHeld /\ RunLockHeld /\ RunsLocked

PushInv == LocksHeld /\ RunInv /\ PullSkipsPushedOrders

LEMMA PushInit == Init => PushInv
BY DEF Init, PushInv, RunInv, LocksHeld, FlagsHeld, RunLockHeld, RunsLocked, PullSkipsPushedOrders,
   HoldsOrderLock, HoldsRunLock, Pushing, IdleWorker

\* Two pushes of one order with good locks of one kind would hold one lock.
LEMMA PushImplies == PushInv => PushExclusive
<1> SUFFICES ASSUME PushInv, NEW w \in Workers, NEW v \in Workers, NEW o \in Orders, w # v
             PROVE  ~RunsApart(w, v) /\ ~OrderApart(w, v, o)
  BY DEF PushExclusive
<1>1. ~RunsApart(w, v)
  BY DEF PushInv, RunInv, FlagsHeld, RunLockHeld, RunsApart
<1>2. ~OrderApart(w, v, o)
  BY DEF PushInv, LocksHeld, OrderApart
<1> QED  BY <1>1, <1>2

\* A step in which nobody takes an order lock and no listing passes the
\* lookup, and which leaves every order lock that is held.
NoLockTaken ==
  \A w \in Workers : \A o \in Orders :
    HoldsOrderLock(w, o)' /\ w \notin lapsed' =>
      HoldsOrderLock(w, o) /\ w \notin lapsed /\ (orderLock[o] = w => orderLock'[o] = w)

LEMMA PushFrame ==
  ASSUME PushInv, NoLockTaken, listed' = listed, RunInv'
  PROVE  PushInv'
<1>1. LocksHeld'
  BY DEF PushInv, LocksHeld, NoLockTaken
<1>2. PullSkipsPushedOrders'
  BY DEF PushInv, PullSkipsPushedOrders, NoLockTaken
<1> QED  BY <1>1, <1>2 DEF PushInv

\* A step that touches neither runs nor locks; if it changes the listings,
\* those that have passed the lookup stay as they were or go away.
LEMMA PushRests ==
  ASSUME PushInv, UNCHANGED workerVars,
         \A o \in Orders : \/ listed'[o] = listed[o] \/ listed'[o] = Null
                           \/ listed'[o].stage # "filtered"
  PROVE  PushInv'
<1>1. \A w \in Workers : \A o \in Orders :
        HoldsOrderLock(w, o)' <=> HoldsOrderLock(w, o)
  BY DEF HoldsOrderLock, Pushing, workerVars
<1>2. LocksHeld'
  BY <1>1 DEF PushInv, LocksHeld, workerVars
<1>3. RunInv'
  BY DEF PushInv, RunInv, FlagsHeld, RunLockHeld, RunsLocked, HoldsRunLock, workerVars
<1>4. PullSkipsPushedOrders'
  BY <1>1 DEF PushInv, PullSkipsPushedOrders, workerVars
<1> QED  BY <1>2, <1>3, <1>4 DEF PushInv

\* Only run w moves, and it keeps its run lock.
Keeps(w) ==
  /\ OthersWait(w)
  /\ worker[w].pc # "idle" /\ worker'[w].run = worker[w].run
  /\ worker'[w].outlived = worker[w].outlived
  /\ UNCHANGED <<runLock, memLock, lapsed, listed>>

LEMMA KeepsRun ==
  ASSUME PushInv, NEW w \in Workers, OthersWait(w), worker[w].pc # "idle",
         worker'[w].run = worker[w].run, worker'[w].outlived = worker[w].outlived,
         UNCHANGED <<runLock, memLock>>
  PROVE  RunInv'
BY DEF PushInv, RunInv, FlagsHeld, RunLockHeld, RunsLocked, HoldsRunLock, OthersWait

\* Such a step keeps the order lock, or gives it back as the push ends.
LEMMA PushMoves ==
  ASSUME TypeInv, PushInv, NEW w \in Workers, Keeps(w),
         \/ UNCHANGED orderLock /\ \A o \in Orders : HoldsOrderLock(w, o)' => HoldsOrderLock(w, o)
         \/ ReleaseOrderLock(w) /\ worker[w].o \in Orders /\ \A o \in Orders : ~HoldsOrderLock(w, o)'
  PROVE  PushInv'
<1>0. orderLock \in [Orders -> Workers \cup {Null}]
  BY DEF TypeInv, TypeOK
<1>1. \A v \in Workers, o \in Orders : v # w => (HoldsOrderLock(v, o)' <=> HoldsOrderLock(v, o))
  BY DEF Keeps, OthersWait, HoldsOrderLock, Pushing
<1>2. RunInv'
  BY KeepsRun DEF Keeps
<1>3. CASE UNCHANGED orderLock /\ \A o \in Orders : HoldsOrderLock(w, o)' => HoldsOrderLock(w, o)
  <2>1. NoLockTaken
    BY <1>1, <1>3 DEF NoLockTaken, Keeps
  <2> QED  BY <1>2, <2>1, PushFrame DEF Keeps
<1>4. CASE ReleaseOrderLock(w) /\ worker[w].o \in Orders /\ \A o \in Orders : ~HoldsOrderLock(w, o)'
  <2>1. \A v \in Workers, o \in Orders : v # w /\ orderLock[o] = v => orderLock'[o] = v
    BY <1>0, <1>4 DEF ReleaseOrderLock
  <2>2. NoLockTaken
    BY <1>1, <1>4, <2>1 DEF NoLockTaken, Keeps
  <2> QED  BY <1>2, <2>2, PushFrame DEF Keeps
<1> QED  BY <1>3, <1>4

\* The start of a run, under a lock that nobody holds.
LEMMA RunOncePush ==
  ASSUME TypeInv, PushInv, NEW w \in Workers, NEW batch, NEW kind \in {"redis", "memory"},
         RunOnce(w, batch, kind)
  PROVE  PushInv'
<1>0. /\ worker \in [Workers -> WorkerCalls] /\ memLock \in [Processes -> Workers \cup {Null}]
      /\ ProcessOf \in [Workers -> Processes]
  BY ProcessAssumption DEF TypeInv, TypeOK
<1>1. /\ worker'[w].pc = "loop" /\ worker'[w].run = kind /\ worker'[w].outlived = FALSE
      /\ OthersWait(w)
  BY <1>0 DEF RunOnce, IdleWorker, OthersWait
<1>2. NoLockTaken
  BY <1>1 DEF RunOnce, NoLockTaken, HoldsOrderLock, Pushing, OthersWait
<1>3. AcquireLock(w, kind) /\ UNCHANGED listed
  BY DEF RunOnce, onecVars
<1>4. FlagsHeld'
  <2> SUFFICES ASSUME NEW v \in Workers, worker'[v].run = "memory"
               PROVE  memLock'[ProcessOf[v]] = v
    BY DEF FlagsHeld
  <2>1. CASE v = w
    BY <1>0, <1>1, <1>3, <2>1 DEF AcquireLock
  <2>2. CASE v # w
    <3>1. memLock[ProcessOf[v]] = v /\ v # Null
      BY <1>1, <2>2, NullAssumption DEF PushInv, RunInv, FlagsHeld, OthersWait
    <3> QED  BY <1>0, <1>3, <3>1 DEF AcquireLock
  <2> QED  BY <2>1, <2>2
<1>5. RunLockHeld'
  <2> SUFFICES ASSUME NEW v \in Workers, HoldsRunLock(v)', ~worker'[v].outlived
               PROVE  runLock' = v
    BY DEF RunLockHeld
  <2>1. CASE v = w
    BY <1>1, <1>3, <2>1 DEF AcquireLock, HoldsRunLock
  <2>2. CASE v # w
    <3>1. runLock = v /\ v # Null
      BY <1>1, <2>2, NullAssumption DEF PushInv, RunInv, RunLockHeld, HoldsRunLock, OthersWait
    <3> QED  BY <1>3, <3>1 DEF AcquireLock, MaybeSet
  <2> QED  BY <2>1, <2>2
<1>6. RunsLocked'
  BY <1>1 DEF PushInv, RunInv, RunsLocked, OthersWait
<1> QED  BY <1>2, <1>3, <1>4, <1>5, <1>6, PushFrame DEF RunInv

\* The start of a push, with the order lock or without one.
LEMMA ExportOrderPush ==
  ASSUME TypeInv, PushInv, NEW w \in Workers, NEW o \in Orders, ExportOrder(w, o)
  PROVE  PushInv'
<1>0. /\ worker \in [Workers -> WorkerCalls] /\ worker[w] \in WorkerCalls
      /\ orderLock \in [Orders -> Workers \cup {Null}]
      /\ listed \in [Orders -> Listings \cup {Null}]
  BY DEF TypeInv, TypeOK
<1>1. ASSUME NEW guard \in {"redis", "none"}, AcquireOrderLock(w, o, guard),
             worker' = [worker EXCEPT ![w].pc = "locked", ![w].o = o, ![w].guard = guard],
             lapsed' = lapsed \ {w},
             listed' = IF guard = "redis" /\ listed[o] # Null /\ listed[o].stage = "filtered"
                       THEN [listed EXCEPT ![o].began = @ \cup {w}] ELSE listed
      PROVE  PushInv'
  <2>1. /\ OthersWait(w) /\ worker'[w].o = o /\ worker'[w].guard = guard
        /\ worker'[w].run = worker[w].run /\ worker'[w].outlived = worker[w].outlived
    BY <1>0, <1>1 DEF WorkerCalls, OthersWait
  <2>2. RunInv'
    BY <2>1, KeepsRun DEF ExportOrder
  <2>3. \A v \in Workers, p \in Orders :
          /\ v # w => (HoldsOrderLock(v, p)' <=> HoldsOrderLock(v, p))
          /\ HoldsOrderLock(w, p)' => p = o /\ guard = "redis"
    BY <2>1 DEF HoldsOrderLock, Pushing, OthersWait
  <2>4. \A v \in Workers, p \in Orders : orderLock[p] = v => orderLock'[p] = v
    BY <1>0, <1>1, NullAssumption DEF AcquireOrderLock, OrderLockFree, MaybeSet
  <2>5. guard = "redis" => orderLock'[o] = w
    BY <1>0, <1>1 DEF AcquireOrderLock
  <2>6. LocksHeld'
    BY <1>1, <2>3, <2>4, <2>5 DEF PushInv, LocksHeld
  <2>7. \A p \in Orders :
          /\ listed'[p] # Null /\ listed'[p].stage = "filtered" =>
               /\ listed[p] # Null /\ listed[p].stage = "filtered"
               /\ listed[p].began \subseteq listed'[p].began
               /\ p = o /\ guard = "redis" => w \in listed'[p].began
    <3>1. CASE guard = "redis" /\ listed[o] # Null /\ listed[o].stage = "filtered"
      <4>1. listed[o] \in Listings
        BY <1>0, <3>1
      <4>2. [listed[o] EXCEPT !.began = @ \cup {w}].began = listed[o].began \cup {w}
        BY <4>1 DEF Listings
      <4> QED  BY <1>0, <1>1, <3>1, <4>2
    <3>2. CASE ~(guard = "redis" /\ listed[o] # Null /\ listed[o].stage = "filtered")
      BY <1>1, <3>2
    <3> QED  BY <3>1, <3>2
  <2>8. PullSkipsPushedOrders'
    BY <1>1, <2>3, <2>7 DEF PushInv, PullSkipsPushedOrders
  <2> QED  BY <2>2, <2>6, <2>8 DEF PushInv
<1>2. ASSUME worker' = [worker EXCEPT ![w].batch[o] = Null],
             UNCHANGED <<orderLock, lapsed, listed>>
      PROVE  PushInv'
  <2>1. Keeps(w) /\ \A p \in Orders : HoldsOrderLock(w, p)' => HoldsOrderLock(w, p)
    BY <1>0, <1>2 DEF ExportOrder, Keeps, WorkerCalls, OthersWait, HoldsOrderLock, Pushing
  <2> QED  BY <1>2, <2>1, PushMoves
<1> QED  BY <1>1, <1>2 DEF ExportOrder

\* The steps of a run.
LEMMA RunStepPush ==
  ASSUME TypeInv, PushInv, NEW w \in Workers,
         \/ \E batch \in SUBSET Orders, kind \in {"redis", "memory"} : RunOnce(w, batch, kind)
         \/ RunStep(w)
         \/ \E err \in {"other", "unsupported"} : CallFails(w, err)
  PROVE  PushInv'
<1>0. /\ worker \in [Workers -> WorkerCalls] /\ worker[w] \in WorkerCalls
      /\ memLock \in [Processes -> Workers \cup {Null}] /\ ProcessOf \in [Workers -> Processes]
  BY ProcessAssumption DEF TypeInv, TypeOK
<1>1. worker[w].pc \notin {"idle", "loop"} => worker[w].o \in Orders
  BY DEF TypeInv, RunsKnow
<1>2. /\ Continues(w).pc = "loop" /\ Breaks(w).pc = "loop"
      /\ Continues(w).run = worker[w].run /\ Continues(w).outlived = worker[w].outlived
      /\ Breaks(w).run = worker[w].run /\ Breaks(w).outlived = worker[w].outlived
  BY <1>0 DEF Continues, Breaks, IdleWorker, WorkerCalls
<1>3. ASSUME worker'[w].pc \in {"idle", "loop", "failing", "erring"}
      PROVE  \A o \in Orders : ~HoldsOrderLock(w, o)'
  BY <1>3 DEF HoldsOrderLock, Pushing
<1>5. ASSUME NEW err, Fails(w, err), UNCHANGED <<runLock, memLock, lapsed, listed, orderLock>>,
             worker[w].pc \in {"locked", "calling", "marking"}
      PROVE  PushInv'
  <2>1. /\ Keeps(w) /\ worker'[w].pc = "failed" /\ worker'[w].o = worker[w].o
        /\ worker'[w].guard = worker[w].guard
    BY <1>0, <1>5 DEF Fails, WorkerCalls, OthersWait, Keeps
  <2> QED  BY <1>5, <2>1, PushMoves DEF HoldsOrderLock, Pushing
<1>6. CASE ValidationFails(w)
  BY <1>5, <1>6 DEF ValidationFails, OnlyWorker, onecVars
<1>7. CASE Call(w)
  <2>1. /\ Keeps(w) /\ worker'[w].o = worker[w].o /\ worker'[w].guard = worker[w].guard
        /\ UNCHANGED orderLock
    BY <1>0, <1>7 DEF Call, OnlyWorker, onecVars, WorkerCalls, OthersWait, Keeps
  <2> QED  BY <1>7, <2>1, PushMoves DEF HoldsOrderLock, Pushing, Call
<1>8. ASSUME NEW number \in BOOLEAN, NEW posted \in BOOLEAN, CallSucceeds(w, number, posted)
      PROVE  PushInv'
  <2>1. /\ Keeps(w) /\ worker'[w].o = worker[w].o /\ worker'[w].guard = worker[w].guard
        /\ UNCHANGED orderLock
    BY <1>0, <1>8 DEF CallSucceeds, WorkerCalls, OthersWait, Keeps
  <2> QED  BY <1>8, <2>1, PushMoves DEF HoldsOrderLock, Pushing, CallSucceeds
<1>9. ASSUME NEW err \in {"other", "unsupported"}, CallFails(w, err)  PROVE PushInv'
  BY <1>5, <1>9 DEF CallFails
<1>10. CASE MarkSuccessFind(w)
  <2>1. CASE StillQueued(w)
    <3>1. /\ Keeps(w) /\ worker'[w].o = worker[w].o /\ worker'[w].guard = worker[w].guard
          /\ UNCHANGED orderLock
      BY <1>0, <1>10, <2>1 DEF MarkSuccessFind, onecVars, WorkerCalls, OthersWait, Keeps
    <3> QED  BY <1>10, <3>1, PushMoves DEF HoldsOrderLock, Pushing, MarkSuccessFind
  <2>2. CASE ~StillQueued(w)
    <3>1. Keeps(w) /\ ReleaseOrderLock(w) /\ worker'[w].pc = "loop"
      BY <1>0, <1>2, <1>10, <2>2 DEF MarkSuccessFind, onecVars, OthersWait, Keeps
    <3> QED  BY <1>1, <1>3, <1>10, <3>1, PushMoves DEF MarkSuccessFind
  <2> QED  BY <2>1, <2>2
<1>11. CASE MarkSuccessWrite(w)
  <2>1. CASE row[worker[w].o] = Null
    BY <1>5, <1>11, <2>1 DEF MarkSuccessWrite, onecVars
  <2>2. CASE row[worker[w].o] # Null
    <3>1. Keeps(w) /\ worker'[w].pc = "loop" /\ ReleaseOrderLock(w)
      BY <1>0, <1>2, <1>11, <2>2 DEF MarkSuccessWrite, onecVars, OthersWait, Keeps
    <3> QED  BY <1>1, <1>3, <1>11, <3>1, PushMoves DEF MarkSuccessWrite
  <2> QED  BY <2>1, <2>2
<1>12. CASE ReleaseAfterFailure(w)
  <2>1. Keeps(w) /\ worker'[w].pc = "failing" /\ ReleaseOrderLock(w)
    BY <1>0, <1>12 DEF ReleaseAfterFailure, onecVars, WorkerCalls, OthersWait, Keeps
  <2> QED  BY <1>1, <1>3, <1>12, <2>1, PushMoves DEF ReleaseAfterFailure
<1>13. ASSUME AfterFailure(w)
       PROVE  /\ worker'[w].pc = "loop" /\ OthersWait(w)
              /\ worker'[w].run = worker[w].run /\ worker'[w].outlived = worker[w].outlived
  BY <1>0, <1>2, <1>13 DEF AfterFailure, OthersWait
<1>14. CASE MarkFailureFind(w)
  <2>1. Keeps(w) /\ UNCHANGED orderLock /\ worker'[w].pc \in {"erring", "loop"}
    BY <1>0, <1>13, <1>14 DEF MarkFailureFind, onecVars, WorkerCalls, OthersWait, Keeps
  <2> QED  BY <1>3, <2>1, PushMoves
<1>15. CASE MarkFailureWrite(w)
  <2>1. Keeps(w) /\ UNCHANGED orderLock /\ worker'[w].pc = "loop"
    BY <1>0, <1>2, <1>13, <1>15 DEF MarkFailureWrite, onecVars, OthersWait, Keeps
  <2> QED  BY <1>3, <2>1, PushMoves
<1>16. CASE FinishRun(w)
  <2>1. /\ worker'[w].pc = "idle" /\ worker'[w].run = "none" /\ OthersWait(w)
        /\ worker[w].run # "none" /\ UNCHANGED <<orderLock, lapsed, listed>>
    BY <1>0, <1>16
       DEF FinishRun, IdleWorker, OthersWait, onecVars, PushInv, RunInv, RunsLocked
  <2>2. NoLockTaken
    BY <1>3, <2>1 DEF NoLockTaken, HoldsOrderLock, Pushing, OthersWait
  <2>3. FlagsHeld'
    <3>1. CASE worker[w].run = "redis"
      BY <1>16, <2>1, <3>1 DEF FinishRun, ReleaseLock, PushInv, RunInv, FlagsHeld, OthersWait
    <3>2. CASE worker[w].run = "memory"
      <4>1. memLock[ProcessOf[w]] = w /\ memLock' = [memLock EXCEPT ![ProcessOf[w]] = Null]
        BY <1>16, <3>2 DEF FinishRun, ReleaseLock, PushInv, RunInv, FlagsHeld
      <4>2. ASSUME NEW v \in Workers, worker'[v].run = "memory"
            PROVE  memLock'[ProcessOf[v]] = v
        <5>1. v # w /\ memLock[ProcessOf[v]] = v
          BY <2>1, <4>2 DEF PushInv, RunInv, FlagsHeld, OthersWait
        <5> QED  BY <1>0, <4>1, <5>1
      <4> QED  BY <4>2 DEF FlagsHeld
    <3> QED  BY <1>0, <2>1, <3>1, <3>2 DEF WorkerCalls
  <2>4. RunLockHeld'
    BY <1>16, <2>1
       DEF FinishRun, ReleaseLock, PushInv, RunInv, RunLockHeld, HoldsRunLock, OthersWait
  <2>5. RunsLocked'
    BY <2>1 DEF PushInv, RunInv, RunsLocked, OthersWait
  <2> QED  BY <2>1, <2>2, <2>3, <2>4, <2>5, PushFrame DEF RunInv
<1> QED
  BY RunOncePush, ExportOrderPush, <1>6, <1>7, <1>8, <1>9, <1>10, <1>11, <1>12, <1>14, <1>15, <1>16
     DEF RunStep

\* Lookups of the pull channel: an order that passes has no lock in Redis.
LEMMA FilterPush ==
  ASSUME TypeInv, PushInv, NEW o \in Orders, FilterDirectPushLockedOrders(o)
  PROVE  PushInv'
<1>0. listed \in [Orders -> Listings \cup {Null}] /\ listed[o] \in Listings
  BY DEF FilterDirectPushLockedOrders, TypeInv, TypeOK
<1>1. \A p \in Orders : p # o => listed'[p] = listed[p]
  BY <1>0 DEF FilterDirectPushLockedOrders
<1>2. \A w \in Workers : \A p \in Orders : HoldsOrderLock(w, p)' <=> HoldsOrderLock(w, p)
  BY DEF FilterDirectPushLockedOrders, HoldsOrderLock, Pushing, workerVars
<1>3. CASE listed'[o] = Null \/ listed'[o].stage # "filtered"
  BY <1>1, <1>3, PushRests DEF FilterDirectPushLockedOrders
<1>4. CASE listed'[o] # Null /\ listed'[o].stage = "filtered"
  <2>1. orderLock[o] = Null
    <3>1. CASE listed' = [listed EXCEPT ![o].stage = "unfiltered"]
      BY <1>0, <1>4, <3>1 DEF Listings
    <3>2. CASE listed' = [listed EXCEPT ![o] = IF DirectPushLocked(o) THEN Null
                                               ELSE [@ EXCEPT !.stage = "filtered"]]
      BY <1>0, <1>4, <3>2 DEF DirectPushLocked
    <3> QED  BY <3>1, <3>2 DEF FilterDirectPushLockedOrders
  <2>2. \A w \in Workers : ~(HoldsOrderLock(w, o) /\ w \notin lapsed)
    BY <2>1, NullAssumption DEF PushInv, LocksHeld
  <2>3. LocksHeld' /\ RunInv'
    BY <1>2 DEF FilterDirectPushLockedOrders, workerVars, PushInv, LocksHeld, RunInv, FlagsHeld,
       RunLockHeld, RunsLocked, HoldsRunLock
  <2>4. PullSkipsPushedOrders'
    BY <1>1, <1>2, <2>2 DEF PushInv, PullSkipsPushedOrders, FilterDirectPushLockedOrders, workerVars
  <2> QED  BY <2>3, <2>4 DEF PushInv
<1> QED  BY <1>3, <1>4

\* Locks that pass their TTL, pauses that end, and crashes.
LEMMA EnvironmentPush ==
  ASSUME TypeInv, PushInv,
         \/ \E o \in Orders : ExpireOrderLock(o)
         \/ ExpireRunLock
         \/ \E p \in Processes : Unpause(p) \/ Crash(p)
  PROVE  PushInv'
<1>0. /\ worker \in [Workers -> WorkerCalls] /\ orderLock \in [Orders -> Workers \cup {Null}]
      /\ memLock \in [Processes -> Workers \cup {Null}] /\ ProcessOf \in [Workers -> Processes]
      /\ runLock \in Workers \cup {Null}
  BY ProcessAssumption DEF TypeInv, TypeOK
<1>1. ASSUME NEW o \in Orders, ExpireOrderLock(o)  PROVE PushInv'
  <2>1. UNCHANGED <<worker, runLock, memLock, listed>>
    BY <1>1 DEF ExpireOrderLock, onecVars
  <2>2. RunInv'
    BY <2>1 DEF PushInv, RunInv, FlagsHeld, RunLockHeld, RunsLocked, HoldsRunLock
  <2>3. \A w \in Workers : \A p \in Orders : HoldsOrderLock(w, p)' <=> HoldsOrderLock(w, p)
    BY <2>1 DEF HoldsOrderLock, Pushing
  <2>4. \A w \in Workers : \A p \in Orders :
          orderLock[p] = w /\ HoldsOrderLock(w, p) => w \in lapsed' \/ orderLock'[p] = w
    BY <1>0, <1>1 DEF ExpireOrderLock
  <2>5. lapsed \subseteq lapsed'
    BY <1>1 DEF ExpireOrderLock
  <2>6. NoLockTaken
    BY <2>3, <2>4, <2>5 DEF NoLockTaken
  <2> QED  BY <2>1, <2>2, <2>6, PushFrame
<1>2. CASE ExpireRunLock
  <2>1. \A w \in Workers : /\ worker'[w].pc = worker[w].pc /\ worker'[w].run = worker[w].run
                           /\ worker'[w].o = worker[w].o /\ worker'[w].guard = worker[w].guard
                           /\ worker[w].outlived => worker'[w].outlived
                           /\ w = runLock /\ HoldsRunLock(w) => worker'[w].outlived
    BY <1>0, <1>2 DEF ExpireRunLock, WorkerCalls
  <2>2. RunInv'
    BY <1>2, <2>1
       DEF ExpireRunLock, PushInv, RunInv, FlagsHeld, RunLockHeld, RunsLocked, HoldsRunLock
  <2>3. NoLockTaken
    BY <1>2, <2>1 DEF ExpireRunLock, NoLockTaken, HoldsOrderLock, Pushing
  <2> QED  BY <1>2, <2>2, <2>3, PushFrame DEF ExpireRunLock, onecVars
<1>3. ASSUME NEW p \in Processes, Unpause(p)  PROVE PushInv'
  <2>1. UNCHANGED <<worker, runLock, memLock, orderLock, lapsed, listed>>
    BY <1>3 DEF Unpause, onecVars
  <2>2. RunInv'
    BY <2>1 DEF PushInv, RunInv, FlagsHeld, RunLockHeld, RunsLocked, HoldsRunLock
  <2>3. NoLockTaken
    BY <2>1 DEF NoLockTaken, HoldsOrderLock, Pushing
  <2> QED  BY <2>1, <2>2, <2>3, PushFrame
<1>4. ASSUME NEW p \in Processes, Crash(p)  PROVE PushInv'
  <2>1. \A w \in Workers : IF ProcessOf[w] = p THEN worker'[w] = IdleWorker ELSE worker'[w] = worker[w]
    BY <1>4 DEF Crash
  <2>2. UNCHANGED <<runLock, orderLock, lapsed, listed>> /\ memLock' = [memLock EXCEPT ![p] = Null]
    BY <1>4 DEF Crash
  <2>3. IdleWorker.pc = "idle" /\ IdleWorker.run = "none"
    BY DEF IdleWorker
  <2>4. RunInv'
    BY <1>0, <2>1, <2>2, <2>3
       DEF PushInv, RunInv, FlagsHeld, RunLockHeld, RunsLocked, HoldsRunLock
  <2>5. NoLockTaken
    BY <2>1, <2>2, <2>3 DEF NoLockTaken, HoldsOrderLock, Pushing
  <2> QED  BY <2>2, <2>4, <2>5, PushFrame
<1> QED  BY <1>1, <1>2, <1>3, <1>4

\* Every step keeps PushInv.
LEMMA PushNext == TypeInv /\ PushInv /\ [Next]_vars => PushInv'
<1> SUFFICES ASSUME TypeInv, PushInv, [Next]_vars  PROVE PushInv'
  OBVIOUS
<1>1. ASSUME UNCHANGED workerVars, UNCHANGED listed  PROVE PushInv'
  BY <1>1, PushRests
<1>2. ASSUME NEW c \in Clients, ManagerRequest(c)  PROVE PushInv'
  <2>1. UNCHANGED workerVars /\ UNCHANGED listed
    BY <1>2 DEF ManagerRequest, CreateClientOrder, PutArrives, CopyClientOrder, UpdateClientOrder,
       SubmitClientOrder, UnqueueClientOrder, RetryClientOrderExport, DeleteDraftClientOrder,
       RestoreClientOrder, CancelClientOrder, Find, FindWith, onecVars
  <2> QED  BY <1>1, <2>1
<1>3. ASSUME NEW c \in Clients, OnecRequest(c)  PROVE PushInv'
  <2>1. UNCHANGED workerVars /\ UNCHANGED listed
    BY <1>3 DEF OnecRequest, HandleOrderAckError, HandleOrderAckOk, HandleOrdersStatusBatch,
       HandleOrdersSnapshotBatch, Find, FindWith, onecVars
  <2> QED  BY <1>1, <2>1
<1>4. ASSUME NEW c \in Clients, RequestStep(c) \/ Abort(c)  PROVE PushInv'
  <2>1. UNCHANGED workerVars /\ UNCHANGED listed
    BY <1>4 DEF RequestStep, PutClientOrder, DeleteItems, WriteCreate, WriteUpdate, WriteDelete,
       EndRequest, Abort, onecVars
  <2> QED  BY <1>1, <2>1
<1>5. ASSUME NEW o \in Orders, NEW includeSent, HandleOrdersQueued(o, includeSent)  PROVE PushInv'
  <2>1. \A p \in Orders : listed'[p] = listed[p] \/ listed'[p].stage = "read"
    BY <1>5 DEF HandleOrdersQueued, TypeInv, TypeOK
  <2> QED  BY <1>5, <2>1, PushRests DEF HandleOrdersQueued
<1>6. ASSUME NEW o \in Orders, PullStep(o)  PROVE PushInv'
  <2>1. CASE RespondQueued(o)
    <3>1. \A p \in Orders : listed'[p] = listed[p] \/ listed'[p] = Null
      BY <2>1 DEF RespondQueued, TypeInv, TypeOK
    <3> QED  BY <2>1, <3>1, PushRests DEF RespondQueued
  <2>2. CASE OnecSavesHanded(o)
    BY <1>1, <2>2 DEF OnecSavesHanded
  <2> QED  BY <1>6, <2>1, <2>2, FilterPush DEF PullStep
<1>7. ASSUME NEW o \in Orders, ReconcilePostedLiveOrders(o)  PROVE PushInv'
  BY <1>1, <1>7 DEF ReconcilePostedLiveOrders, onecVars
<1>8. ASSUME NEW payload \in late, OnecSavesLate(payload)  PROVE PushInv'
  BY <1>1, <1>8 DEF OnecSavesLate
<1>9. CASE UNCHANGED vars
  BY <1>1, <1>9 DEF vars, workerVars
<1>10. CASE Next
  BY <1>2, <1>3, <1>4, <1>5, <1>6, <1>7, <1>8, <1>10, RunStepPush, EnvironmentPush DEF Next
<1> QED  BY <1>9, <1>10

\* Two runs of the worker never push one order at the same time, in any
\* number of processes, unless both the run locks and the order locks fail to
\* part them: each of a TTL that passed in use, of a command of Redis that
\* failed and of a client that is not open spoils one lock of one run, and
\* the other lock is enough (acquireLock, acquireOrderLock).
THEOREM PushesExclusive == Spec => []PushExclusive
BY TypeInit, TypeNext, PushInit, PushNext, PushImplies, PTL DEF Spec

\* GET /orders/queued never answers with an order that a run was already
\* pushing under a good lock when the locks were looked up: such a push has
\* its key in Redis and the filter leaves the order out.  A push that begins
\* between the lookup and the answer is let through
\* (filterDirectPushLockedOrders, handleOrdersQueued).
THEOREM PullsSkipPushes == Spec => []PullSkipsPushedOrders
<1>1. PushInv => PullSkipsPushedOrders
  BY DEF PushInv
<1> QED  BY <1>1, TypeInit, TypeNext, PushInit, PushNext, PTL DEF Spec

=============================================================================
