----------------------- MODULE ClientOrderExportProofs -----------------------
(***************************************************************************)
(* Proofs about ClientOrderExport, for any sets of orders, requests,       *)
(* workers and processes and any bounds.                                   *)
(***************************************************************************)
EXTENDS ClientOrderExport, TLAPS

----------------------------------------------------------------------------
(* What the handlers write is well typed.                                  *)

\* Updating a row by id with any data leaves a row.
LEMMA UpdatedType ==
  ASSUME NEW r \in Rows, NEW d \in Data, NEW seen \in SUBSET Versions
  PROVE  Updated(r, d, seen) \in Rows
<1>1. ReplacedItems(r.items, seen, d.lines) \in SUBSET Versions
  BY DEF ReplacedItems, Rows, Data
<1>2. /\ Column(d.status, r.status) \in OrderStatus
      /\ Column(d.syncState, r.syncState) \in OrderSyncState
      /\ Column(d.revision, r.revision) \in Nat
  BY DEF Column, Rows, Data
<1>3. /\ Column(d.clientRevision, r.clientRevision) \in Nat
      /\ Column(d.clientPayloadHash, r.clientPayloadHash) \in Versions \cup {Null}
      /\ r.clientOrderId \in ClientOrderIds \cup {Null}
  BY DEF Column, Rows, Data
<1>4. /\ Column(d.submitRequested, r.submitRequested) \in BOOLEAN
      /\ Column(d.number1c, r.number1c) \in BOOLEAN
      /\ Column(d.sentTo1c, r.sentTo1c) \in BOOLEAN
      /\ Column(d.isPostedIn1c, r.isPostedIn1c) \in BOOLEAN
      /\ Column(d.hasRealization, r.hasRealization) \in BOOLEAN
  BY DEF Column, Rows, Data
<1> QED  BY <1>1, <1>2, <1>3, <1>4 DEF Updated, Rows

\* A new order is a row.
LEMMA NewOrderType ==
  ASSUME NEW lines \in Versions \cup {Null}, NEW key \in ClientOrderIds \cup {Null}
  PROVE  NewOrder(lines, key) \in Rows
BY DEF NewOrder, Rows, OrderStatus, OrderSyncState

\* An update that changes nothing is data.
LEMMA NoDataType == NoData \in Data
BY DEF NoData, Data

\* The data of the managers' handlers.
LEMMA ManagerDataType ==
  ASSUME NEW r \in Rows
  PROVE  /\ \A lines \in Versions \cup {Null} : UpdateData(r, lines) \in Data
         /\ SubmitData(r) \in Data
         /\ UnqueueData(r) \in Data
         /\ RetryData(r) \in Data
         /\ RestoreData(r) \in Data
         /\ CancelData(r) \in Data
<1> USE DEF Data, NoData, OrderStatus, OrderSyncState
<1>0. r.revision + 1 \in Nat
  BY DEF Rows
<1>1. \A lines \in Versions \cup {Null} : UpdateData(r, lines) \in Data
  BY <1>0 DEF UpdateData, ResolveUpdatedOrderQueueState
<1>2. SubmitData(r) \in Data
  BY <1>0 DEF SubmitData
<1>3. UnqueueData(r) \in Data
  BY <1>0 DEF UnqueueData
<1>4. RetryData(r) \in Data
  BY <1>0 DEF RetryData
<1>5. RestoreData(r) \in Data
  BY <1>0 DEF RestoreData
<1>6. \A state \in OrderSyncState :
        [NoData EXCEPT !.revision = r.revision + 1, !.status = "CANCELLED",
                       !.syncState = state] \in Data
  BY <1>0
<1>7. CancelData(r) \in Data
  <2> HIDE DEF Data, NoData
  <2> QED  BY <1>3, <1>6 DEF CancelData
<1> QED  BY <1>1, <1>2, <1>3, <1>4, <1>5, <1>7

\* The data of the mobile client's PUT.
LEMMA PutDataType ==
  ASSUME NEW r \in Rows \cup {Null}, NEW body \in Bodies
  PROVE  /\ PutData(r, body) \in Data
         /\ PutWrite(r, body) \in Data
<1> DEFINE queue == ShouldQueue(r, body.intent)
<1>1. (IF r = Null THEN 1 ELSE r.revision + 1) \in Nat
  BY DEF Rows
<1>2. body.clientRevision \in Nat /\ body.lines \in Versions
  BY BoundsAssumption DEF Bodies
<1>3. queue \in BOOLEAN
  BY DEF ShouldQueue
<1>4. ASSUME NEW n \in Nat, NEW m \in Nat, NEW lines \in Versions,
             NEW status \in {"QUEUED", "DRAFT"}, NEW q \in BOOLEAN
      PROVE  [NoData EXCEPT !.revision = n, !.clientRevision = m, !.clientPayloadHash = lines,
                            !.status = status, !.syncState = status,
                            !.submitRequested = q, !.lines = lines] \in Data
  BY DEF NoData, Data, OrderStatus, OrderSyncState
<1>5. (IF queue THEN "QUEUED" ELSE "DRAFT") \in {"QUEUED", "DRAFT"}
  OBVIOUS
<1>6. PutData(r, body) \in Data
  <2> HIDE DEF queue
  <2> QED  BY ZenonT(30), <1>1, <1>2, <1>3, <1>4, <1>5 DEF PutData, queue
<1>7. PutWrite(r, body) \in Data
  BY <1>6, ManagerDataType DEF PutWrite
<1> QED  BY <1>6, <1>7

\* The data the worker records.
LEMMA WorkerDataType ==
  ASSUME NEW r \in Rows, NEW cancel \in BOOLEAN, NEW b1 \in BOOLEAN, NEW b2 \in BOOLEAN
  PROVE  /\ ExportSuccessData(r, cancel, b1, b2) \in Data
         /\ ExportFailureData(cancel, b1) \in Data
<1>1. r.revision + 1 \in Nat
  BY DEF Rows
<1>2. ASSUME NEW status \in OrderStatus, NEW number \in BOOLEAN \cup {Undefined},
             NEW posted \in BOOLEAN \cup {Undefined}
      PROVE  [NoData EXCEPT !.revision = r.revision + 1, !.status = status, !.syncState = "SYNCED",
                            !.number1c = number, !.sentTo1c = TRUE, !.isPostedIn1c = posted] \in Data
  BY <1>1 DEF NoData, Data, OrderSyncState
<1>3. ExportSuccessData(r, cancel, b1, b2) \in Data
  BY ZenonT(30), <1>2 DEF ExportSuccessData, OrderStatus
<1>4. \A state \in OrderSyncState : [NoData EXCEPT !.syncState = state] \in Data
  BY DEF NoData, Data
<1>5. ExportFailureData(cancel, b1) \in Data
  BY <1>4 DEF ExportFailureData, OrderSyncState
<1> QED  BY <1>3, <1>5

\* The data of 1C's requests.
LEMMA OnecDataType ==
  ASSUME NEW r \in Rows
  PROVE  /\ AckErrorData(r.revision) \in Data
         /\ \A ack \in Acks : AckOkData(r.revision, ack) \in Data
         /\ \A item \in StatusItems : StatusData(r, item) \in Data
         /\ \A item \in SnapshotItems(r) : SnapshotOutcomes(r, item) \subseteq Data
         /\ ReconcileData \in Data
<1>0. r.revision \in Nat /\ r.revision + 1 \in Nat
  BY DEF Rows
<1>1. AckErrorData(r.revision) \in Data
  BY <1>0 DEF AckErrorData, NoData, Data, OrderStatus, OrderSyncState
<1>2. ASSUME NEW ack \in Acks  PROVE AckOkData(r.revision, ack) \in Data
  <2>1. /\ ack.status \in OrderStatus
        /\ (IF ack.number THEN TRUE ELSE Undefined) \in BOOLEAN \cup {Undefined}
        /\ ack.posted \in BOOLEAN \cup {Undefined}
    BY DEF Acks, OrderStatus
  <2>2. ASSUME NEW status \in OrderStatus, NEW number \in BOOLEAN \cup {Undefined},
               NEW posted \in BOOLEAN \cup {Undefined}
        PROVE  [NoData EXCEPT !.revision = r.revision + 1, !.status = status, !.syncState = "SYNCED",
                              !.number1c = number, !.sentTo1c = TRUE, !.isPostedIn1c = posted] \in Data
    BY <1>0 DEF NoData, Data, OrderSyncState
  <2> QED  BY <2>1, <2>2 DEF AckOkData
<1>3. ASSUME NEW item \in StatusItems  PROVE StatusData(r, item) \in Data
  <2>1. /\ item.status \in OrderStatus
        /\ (IF item.number THEN TRUE ELSE Undefined) \in BOOLEAN \cup {Undefined}
        /\ (IF item.status = "CONFIRMED" THEN TRUE ELSE Undefined) \in BOOLEAN \cup {Undefined}
    BY BoundsAssumption DEF StatusItems
  <2> QED  BY <1>0, <2>1 DEF StatusData, NoData, Data, OrderSyncState
<1>4. ASSUME NEW item \in SnapshotItems(r)  PROVE SnapshotData(r, item) \in Data
  <2>1. /\ (IF item.revision = Undefined THEN r.revision + 1 ELSE item.revision) \in Nat
        /\ item.status \in OrderStatus
        /\ (IF item.syncState = Undefined THEN "SYNCED" ELSE item.syncState) \in OrderSyncState
    BY <1>0, BoundsAssumption DEF SnapshotItems, OrderSyncState
  <2>2. /\ (IF item.number THEN TRUE ELSE Undefined) \in BOOLEAN \cup {Undefined}
        /\ item.posted \in BOOLEAN /\ item.hasRealization \in BOOLEAN
        /\ item.lines \in Versions
    BY DEF SnapshotItems
  <2> DEFINE D(n, status, state, number, posted, realization, lines) ==
        [NoData EXCEPT !.revision = n, !.status = status, !.syncState = state,
                       !.number1c = number, !.isPostedIn1c = posted,
                       !.hasRealization = realization, !.lines = lines]
  <2>3. \A n \in Nat, status \in OrderStatus, state \in OrderSyncState,
           number \in BOOLEAN \cup {Undefined}, posted \in BOOLEAN,
           realization \in BOOLEAN, lines \in Versions :
             D(n, status, state, number, posted, realization, lines) \in Data
    <3> TAKE n \in Nat, status \in OrderStatus, state \in OrderSyncState,
             number \in BOOLEAN \cup {Undefined}, posted \in BOOLEAN,
             realization \in BOOLEAN, lines \in Versions
    <3> QED  BY DEF NoData, Data
  <2> DEFINE n == IF item.revision = Undefined THEN r.revision + 1 ELSE item.revision
             state == IF item.syncState = Undefined THEN "SYNCED" ELSE item.syncState
             number == IF item.number THEN TRUE ELSE Undefined
             status == item.status
             posted == item.posted
             realization == item.hasRealization
             lines == item.lines
  <2>4. SnapshotData(r, item) = D(n, status, state, number, posted, realization, lines)
    BY Zenon DEF SnapshotData
  <2>5. /\ n \in Nat /\ status \in OrderStatus /\ state \in OrderSyncState
        /\ number \in BOOLEAN \cup {Undefined} /\ posted \in BOOLEAN /\ realization \in BOOLEAN
        /\ lines \in Versions
    BY <2>1, <2>2, Zenon
  <2> HIDE DEF D, n, state, number, status, posted, realization, lines
  <2>6. D(n, status, state, number, posted, realization, lines) \in Data
    BY <2>3, <2>5
  <2> QED  BY <2>4, <2>6, Zenon
<1>5. /\ SnapshotConflictData \in Data /\ SnapshotErrorData \in Data
      /\ SnapshotLinesErrorData \in Data /\ ReconcileData \in Data
  BY DEF SnapshotConflictData, SnapshotErrorData, SnapshotLinesErrorData, ReconcileData,
         NoData, Data, OrderStatus, OrderSyncState
<1>6. ASSUME NEW item \in SnapshotItems(r)  PROVE SnapshotOutcomes(r, item) \subseteq Data
  BY <1>4, <1>5, NoDataType DEF SnapshotOutcomes
<1> QED  BY <1>1, <1>2, <1>3, <1>5, <1>6

----------------------------------------------------------------------------
(* Type correctness.  TypeOK alone is not inductive: a write needs to know *)
(* that the request or the run it belongs to names an order.               *)

\* What a request in progress has to know.
RequestsKnow ==
  \A c \in Clients :
    /\ req[c].op \in {"update", "delete"} => req[c].o \in Orders
    /\ req[c].op = "create" => req[c].data.lines # Undefined
    /\ req[c].stage = "live" => req[c].body \in Bodies /\ req[c].key \in ClientOrderIds

\* A run that is past the loop's head has loaded the order it works on.
RunsKnow ==
  \A w \in Workers :
    worker[w].pc \notin {"idle", "loop"} => worker[w].o \in Orders /\ Loaded(w) \in Rows

TypeInv == TypeOK /\ RequestsKnow /\ RunsKnow

\* The state before the first request.
LEMMA TypeInit == Init => TypeInv
<1> SUFFICES ASSUME Init PROVE TypeInv
  OBVIOUS
<1>1. IdleRequest \in Requests
  BY NoDataType DEF IdleRequest, Requests
<1>2. IdleWorker \in WorkerCalls
  BY NoDataType DEF IdleWorker, WorkerCalls, EmptyBatch
<1>3. TypeOK
  BY <1>1, <1>2, BoundsAssumption DEF Init, TypeOK
<1>4. RequestsKnow
  BY DEF Init, RequestsKnow, IdleRequest
<1>5. RunsKnow
  BY DEF Init, RunsKnow, IdleWorker
<1> QED  BY <1>3, <1>4, <1>5 DEF TypeInv

\* A request that finds its order, or a new one that needs none.
LEMMA FindWithType ==
  ASSUME TypeInv, NEW c \in Clients, NEW op \in {"create", "update", "delete"},
         NEW o \in Orders \cup {Null}, NEW data \in Data, NEW refs \in SUBSET References,
         budget' \in Nat,
         op = "create" => data.lines # Undefined,
         op # "create" => o \in Orders,
         FindWith(c, op, o, data, refs)
  PROVE  TypeInv'
<1> DEFINE q == [IdleRequest EXCEPT !.stage = "found", !.op = op, !.o = o, !.data = data,
                                    !.refs = refs]
<1>1. q \in Requests
  BY DEF IdleRequest, Requests
<1>2. /\ q.op = op /\ q.o = o /\ q.data = data /\ q.stage = "found"
  BY DEF IdleRequest
<1>3. req' = [req EXCEPT ![c] = q]
  BY DEF FindWith
<1> HIDE DEF q
<1>4. TypeOK'
  BY <1>1, <1>3 DEF TypeInv, TypeOK, FindWith, workerVars, onecVars
<1>5. RequestsKnow'
  BY <1>2, <1>3 DEF TypeInv, TypeOK, RequestsKnow
<1>6. RunsKnow'
  BY DEF TypeInv, RunsKnow, FindWith, workerVars, Loaded
<1> QED  BY <1>4, <1>5, <1>6 DEF TypeInv

\* The same for a request that upserts no references.
LEMMA FindType ==
  ASSUME TypeInv, NEW c \in Clients, NEW op \in {"create", "update", "delete"},
         NEW o \in Orders \cup {Null}, NEW data \in Data, budget' \in Nat,
         op = "create" => data.lines # Undefined,
         op # "create" => o \in Orders,
         Find(c, op, o, data)
  PROVE  TypeInv'
BY FindWithType DEF Find

\* The references of an order's contents.
LEMMA ReferencesType ==
  ASSUME NEW v \in Versions
  PROVE  ReferencesOf[v] \in SUBSET References
BY DEF References

\* The arrival of a manager's request.
LEMMA ManagerType ==
  ASSUME TypeInv, NEW c \in Clients, ManagerRequest(c)
  PROVE  TypeInv'
<1>1. ASSUME NEW op, Arrives(c, op)  PROVE budget' \in Nat
  BY <1>1 DEF Arrives, TypeInv, TypeOK
<1>2. ASSUME NEW lines \in Versions \cup {Null}
      PROVE  [NoData EXCEPT !.lines = lines] \in Data
             /\ [NoData EXCEPT !.lines = lines].lines # Undefined
  BY NullAssumption DEF NoData, Data
<1>3. ASSUME NEW o \in Orders, row[o] # Null  PROVE row[o] \in Rows
  BY <1>3 DEF TypeInv, TypeOK
<1>4. CASE \E lines \in Versions : CreateClientOrder(c, lines)
  BY <1>1, <1>2, <1>4, FindType DEF CreateClientOrder
<1>5. ASSUME NEW key \in ClientOrderIds, NEW body \in Bodies, PutArrives(c, key, body)
      PROVE  TypeInv'
  <2> DEFINE q == [IdleRequest EXCEPT !.stage = "live", !.key = key, !.body = body]
  <2>1. q \in Requests
    BY NoDataType DEF IdleRequest, Requests
  <2>2. q.op = "none" /\ q.key = key /\ q.body = body
    BY DEF IdleRequest
  <2>3. req' = [req EXCEPT ![c] = q] /\ budget' \in Nat
    BY <1>1, <1>5 DEF PutArrives
  <2> HIDE DEF q
  <2>4. TypeOK'
    BY <1>5, <2>1, <2>3 DEF TypeInv, TypeOK, PutArrives, workerVars, onecVars
  <2>5. RequestsKnow'
    BY <2>2, <2>3 DEF TypeInv, TypeOK, RequestsKnow
  <2>6. RunsKnow'
    BY <1>5 DEF TypeInv, RunsKnow, PutArrives, workerVars, Loaded
  <2> QED  BY <2>4, <2>5, <2>6 DEF TypeInv
<1>6. ASSUME NEW o \in Orders, CopyClientOrder(c, o)  PROVE TypeInv'
  <2>1. PICK lines \in IF row[o].items = {} THEN {Null} ELSE row[o].items :
          Find(c, "create", Null, [NoData EXCEPT !.lines = lines])
    BY <1>6 DEF CopyClientOrder
  <2>2. lines \in Versions \cup {Null}
    BY <1>3, <1>6 DEF CopyClientOrder, Rows
  <2> QED  BY <1>1, <1>2, <1>6, <2>1, <2>2, FindType DEF CopyClientOrder
<1>7. ASSUME NEW o \in Orders, NEW lines \in Versions, UpdateClientOrder(c, o, lines)  PROVE TypeInv'
  BY <1>1, <1>3, <1>7, ManagerDataType, ReferencesType, FindWithType DEF UpdateClientOrder
<1>8. ASSUME NEW o \in Orders, SubmitClientOrder(c, o)  PROVE TypeInv'
  BY <1>1, <1>3, <1>8, ManagerDataType, FindType DEF SubmitClientOrder
<1>9. ASSUME NEW o \in Orders, UnqueueClientOrder(c, o)  PROVE TypeInv'
  BY <1>1, <1>3, <1>9, ManagerDataType, FindType DEF UnqueueClientOrder
<1>10. ASSUME NEW o \in Orders, RetryClientOrderExport(c, o)  PROVE TypeInv'
  BY <1>1, <1>3, <1>10, ManagerDataType, FindType DEF RetryClientOrderExport
<1>11. ASSUME NEW o \in Orders, DeleteDraftClientOrder(c, o)  PROVE TypeInv'
  BY <1>1, <1>11, NoDataType, FindType DEF DeleteDraftClientOrder
<1>12. ASSUME NEW o \in Orders, RestoreClientOrder(c, o)  PROVE TypeInv'
  BY <1>1, <1>3, <1>12, ManagerDataType, FindType DEF RestoreClientOrder
<1>13. ASSUME NEW o \in Orders, CancelClientOrder(c, o)  PROVE TypeInv'
  BY <1>1, <1>3, <1>13, ManagerDataType, FindType DEF CancelClientOrder
<1> QED
  BY <1>4, <1>5, <1>6, <1>7, <1>8, <1>9, <1>10, <1>11, <1>12, <1>13 DEF ManagerRequest

\* The arrival of a request of 1C.
LEMMA OnecType ==
  ASSUME TypeInv, NEW c \in Clients, OnecRequest(c)
  PROVE  TypeInv'
<1>1. ASSUME NEW op, Arrives(c, op)  PROVE budget' \in Nat
  BY <1>1 DEF Arrives, TypeInv, TypeOK
<1>3. ASSUME NEW o \in Orders, row[o] # Null  PROVE row[o] \in Rows
  BY <1>3 DEF TypeInv, TypeOK
<1>4. ASSUME NEW o \in Orders, HandleOrderAckError(c, o)  PROVE TypeInv'
  BY <1>1, <1>3, <1>4, OnecDataType, FindType DEF HandleOrderAckError
<1>5. ASSUME NEW o \in Orders, NEW ack \in Acks, HandleOrderAckOk(c, o, ack)  PROVE TypeInv'
  BY <1>1, <1>3, <1>5, OnecDataType, FindType DEF HandleOrderAckOk
<1>6. ASSUME NEW o \in Orders, NEW item \in StatusItems, HandleOrdersStatusBatch(c, o, item)
      PROVE  TypeInv'
  BY <1>1, <1>3, <1>6, OnecDataType, FindType DEF HandleOrdersStatusBatch
<1>7. ASSUME NEW o \in Orders, row[o] # Null, NEW item \in SnapshotItems(row[o]),
             HandleOrdersSnapshotBatch(c, o, item)
      PROVE  TypeInv'
  <2>1. SnapshotOutcomes(row[o], item) \subseteq Data
    BY <1>3, <1>7, OnecDataType
  <2>2. PICK data \in SnapshotOutcomes(row[o], item) : Find(c, "update", o, data)
    BY <1>7 DEF HandleOrdersSnapshotBatch
  <2> QED  BY <1>1, <1>7, <2>1, <2>2, FindType DEF HandleOrdersSnapshotBatch
<1> QED  BY <1>4, <1>5, <1>6, <1>7 DEF OnecRequest

\* A request ends, whatever was written to the table.
LEMMA EndType ==
  ASSUME TypeInv, NEW c \in Clients, req' = [req EXCEPT ![c] = IdleRequest],
         row' \in [Orders -> Rows \cup {Null}], used' \subseteq Orders,
         budget' \in Nat, faults' \in Nat, UNCHANGED workerVars, UNCHANGED onecVars
  PROVE  TypeInv'
<1>1. IdleRequest \in Requests
  BY NoDataType DEF IdleRequest, Requests
<1>2. TypeOK'
  BY <1>1 DEF TypeInv, TypeOK, workerVars, onecVars
<1>3. RequestsKnow'
  BY DEF TypeInv, TypeOK, RequestsKnow, IdleRequest
<1>4. RunsKnow'
  BY DEF TypeInv, RunsKnow, workerVars, Loaded
<1> QED  BY <1>2, <1>3, <1>4 DEF TypeInv

\* The order with a client's id is an order, and its row a row.
LEMMA FindByClientOrderIdType ==
  ASSUME TypeInv, NEW key
  PROVE  /\ FindByClientOrderId(key) \in Orders \cup {Null}
         /\ RowOf(FindByClientOrderId(key)) \in Rows \cup {Null}
         /\ FindByClientOrderId(key) # Null =>
              /\ row[FindByClientOrderId(key)] # Null
              /\ row[FindByClientOrderId(key)].clientOrderId = key
         /\ FindByClientOrderId(key) = Null =>
              \A o \in Orders : row[o] # Null => row[o].clientOrderId # key
<1> DEFINE found == {o \in Orders : row[o] # Null /\ row[o].clientOrderId = key}
<1>1. CASE found = {}
  BY <1>1 DEF FindByClientOrderId, RowOf
<1>2. CASE found # {}
  <2>1. FindByClientOrderId(key) \in found
    BY <1>2 DEF FindByClientOrderId
  <2> QED  BY <2>1, NullAssumption DEF RowOf, TypeInv, TypeOK
<1> QED  BY <1>1, <1>2

\* The steps by which a request ends.
LEMMA RequestStepType ==
  ASSUME TypeInv, NEW c \in Clients, RequestStep(c) \/ Abort(c)
  PROVE  TypeInv'
<1>0. req[c] \in Requests /\ budget \in Nat /\ faults \in Nat /\ used \subseteq Orders
      /\ row \in [Orders -> Rows \cup {Null}]
  BY DEF TypeInv, TypeOK
<1>1. CASE PutClientOrder(c)
  <2> DEFINE o == FindByClientOrderId(req[c].key)
             r == RowOf(o)
             body == req[c].body
             q == [req[c] EXCEPT !.stage = "found", !.o = o,
                                 !.op = IF o = Null THEN "create" ELSE "update",
                                 !.data = PutWrite(r, body),
                                 !.refs = ReferencesOf[body.lines]]
  <2>1. /\ body \in Bodies /\ r \in Rows \cup {Null} /\ o \in Orders \cup {Null}
    BY <1>1, FindByClientOrderIdType DEF TypeInv, RequestsKnow, PutClientOrder
  <2>2. PutWrite(r, body) \in Data
    BY <2>1, PutDataType
  <2>3. q \in Requests
    <3>1. ReferencesOf[body.lines] \in SUBSET References
      BY <2>1, ReferencesType DEF Bodies
    <3> QED  BY <1>0, <2>1, <2>2, <3>1 DEF Requests
  <2>4. o = Null => PutWrite(r, body).lines # Undefined
    <3>1. o = Null => PutWrite(r, body) = PutData(r, body)
      BY DEF PutWrite, RowOf
    <3>2. PutData(r, body).lines = body.lines
      BY DEF PutData, NoData
    <3> QED  BY <2>1, <3>1, <3>2, NullAssumption DEF Bodies
  <2>5. /\ q.op \in {"update", "delete"} => q.o \in Orders
        /\ q.op = "create" => q.data.lines # Undefined
        /\ q.stage = "found"
    BY <1>0, <2>1, <2>4 DEF Requests
  <2>6. /\ req' = [req EXCEPT ![c] = IF PutChecks(r, body) THEN q ELSE IdleRequest]
        /\ UNCHANGED <<row, used, faults, budget>> /\ UNCHANGED workerVars /\ UNCHANGED onecVars
    BY <1>1, Zenon DEF PutClientOrder
  <2> HIDE DEF q, r, body
  <2>7. CASE ~PutChecks(r, body)
    BY <1>0, <2>6, <2>7, EndType
  <2>8. CASE PutChecks(r, body)
    <3>1. TypeOK'
      BY <2>3, <2>6, <2>8 DEF TypeInv, TypeOK, workerVars, onecVars
    <3>2. RequestsKnow'
      BY <2>5, <2>6, <2>8 DEF TypeInv, TypeOK, RequestsKnow
    <3>3. RunsKnow'
      BY <2>6 DEF TypeInv, RunsKnow, workerVars, Loaded
    <3> QED  BY <3>1, <3>2, <3>3 DEF TypeInv
  <2> QED  BY <2>7, <2>8
<1>2. CASE DeleteItems(c)
  <2> DEFINE seen == IF row[req[c].o] = Null THEN {} ELSE row[req[c].o].items
  <2>1. req[c].o \in Orders
    BY <1>2 DEF DeleteItems, TypeInv, RequestsKnow
  <2>2. seen \in SUBSET Versions
    BY <1>0, <2>1 DEF Rows
  <2>3. req' = [req EXCEPT ![c].stage = "deleted", ![c].seen = seen]
        /\ UNCHANGED <<row, used, faults, budget>> /\ UNCHANGED workerVars /\ UNCHANGED onecVars
    BY <1>2 DEF DeleteItems
  <2> HIDE DEF seen
  <2>4. TypeOK'
    BY <1>0, <2>2, <2>3 DEF TypeInv, TypeOK, Requests, workerVars, onecVars
  <2>5. RequestsKnow'
    BY <1>0, <2>3 DEF TypeInv, TypeOK, RequestsKnow, Requests
  <2>6. RunsKnow'
    BY <2>3 DEF TypeInv, RunsKnow, workerVars, Loaded
  <2> QED  BY <2>4, <2>5, <2>6 DEF TypeInv
<1>3. ASSUME NEW o \in Orders, WriteCreate(c, o)  PROVE TypeInv'
  <2> DEFINE data == req[c].data
             new == NewOrder(data.lines, req[c].key)
  <2>1. data \in Data /\ data.lines \in Versions \cup {Null} /\ req[c].key \in ClientOrderIds \cup {Null}
    <3>1. data.lines # Undefined
      BY <1>3 DEF WriteCreate, ReadyToWrite, TypeInv, RequestsKnow
    <3> QED  BY <1>0, <3>1 DEF Requests, Data
  <2>2. Updated(new, data, {}) \in Rows
    BY <2>1, NewOrderType, UpdatedType
  <2>3. row' \in [Orders -> Rows \cup {Null}] /\ used' \subseteq Orders
    <3> HIDE DEF new, data
    <3> QED  BY <1>0, <1>3, <2>2 DEF WriteCreate, Store, new, data
  <2> QED  BY <1>0, <1>3, <2>3, EndType DEF WriteCreate, EndRequest
<1>4. CASE WriteUpdate(c)
  <2>1. req[c].o \in Orders
    BY <1>4 DEF WriteUpdate, ReadyToWrite, TypeInv, RequestsKnow
  <2>2. req[c].data \in Data /\ req[c].seen \in SUBSET Versions
    BY <1>0 DEF Requests
  <2>3. row' \in [Orders -> Rows \cup {Null}]
    BY <1>0, <1>4, <2>1, <2>2, UpdatedType DEF WriteUpdate, Store
  <2> QED  BY <1>0, <1>4, <2>3, EndType DEF WriteUpdate, EndRequest
<1>5. CASE WriteDelete(c)
  BY <1>0, <1>5, EndType DEF WriteDelete, EndRequest, Store
<1>6. CASE Abort(c)
  <2>1. faults' \in Nat
    BY <1>0, <1>6 DEF Abort
  <2> QED  BY <1>0, <1>6, <2>1, EndType DEF Abort
<1> QED  BY <1>1, <1>2, <1>3, <1>4, <1>5, <1>6 DEF RequestStep

\* What the worker and the pull channel send is a payload, and what 1C keeps
\* of it a document.
LEMMA PayloadType ==
  ASSUME NEW o \in Orders, NEW r \in Rows
  PROVE  PayloadOf(o, r) \in Payloads
BY DEF PayloadOf, Payloads, Rows, IsCancelExportOrder

LEMMA SavedType ==
  ASSUME NEW payload \in Payloads
  PROVE  Saved(payload) \in Docs /\ payload.o \in Orders
BY DEF Saved, Docs, Payloads

\* A fault leaves a number of them.
LEMMA FaultType ==
  ASSUME faults \in Nat
  PROVE  /\ Fault => faults' \in Nat
         /\ \A P : WithoutRedis(P) => faults' \in Nat
BY DEF Fault, WithoutRedis

\* The pull channel, 1C, and the statement that needs no request.
LEMMA OnecStepType ==
  ASSUME TypeInv, NEW o \in Orders,
         \/ \E includeSent \in BOOLEAN : HandleOrdersQueued(o, includeSent)
         \/ PullStep(o)
         \/ ReconcilePostedLiveOrders(o)
         \/ \E payload \in late : OnecSavesLate(payload)
  PROVE  TypeInv'
<1>1. ASSUME NEW includeSent \in BOOLEAN, HandleOrdersQueued(o, includeSent)  PROVE TypeInv'
  <2>1. PayloadOf(o, row[o]) \in Payloads
    BY <1>1, PayloadType DEF HandleOrdersQueued, TypeInv, TypeOK
  <2>2. [stage |-> "read", payload |-> PayloadOf(o, row[o]), began |-> {}] \in Listings
    BY <2>1 DEF Listings
  <2>3. listed' \in [Orders -> Listings \cup {Null}]
    BY <1>1, <2>2 DEF HandleOrdersQueued, TypeInv, TypeOK
  <2>4. TypeOK'
    BY <1>1, <2>3 DEF HandleOrdersQueued, TypeInv, TypeOK, workerVars
  <2> QED
    BY <1>1, <2>4 DEF HandleOrdersQueued, TypeInv, RequestsKnow, RunsKnow, workerVars, Loaded
<1>2. CASE FilterDirectPushLockedOrders(o)
  <2>1. faults' \in Nat
    BY <1>2, FaultType DEF FilterDirectPushLockedOrders, TypeInv, TypeOK
  <2>2. listed[o] \in Listings
    BY <1>2 DEF FilterDirectPushLockedOrders, TypeInv, TypeOK
  <2>3. \A stage \in {"filtered", "unfiltered"} : [listed[o] EXCEPT !.stage = stage] \in Listings
    BY <2>2 DEF Listings
  <2>4. listed' \in [Orders -> Listings \cup {Null}]
    BY <1>2, <2>3 DEF FilterDirectPushLockedOrders, TypeInv, TypeOK
  <2>5. TypeOK'
    BY <1>2, <2>1, <2>4 DEF FilterDirectPushLockedOrders, TypeInv, TypeOK, workerVars
  <2> QED
    BY <1>2, <2>5 DEF FilterDirectPushLockedOrders, TypeInv, RequestsKnow, RunsKnow, workerVars, Loaded
<1>6. CASE RespondQueued(o)
  <2>1. faults' \in Nat
    BY <1>6, FaultType DEF RespondQueued, TypeInv, TypeOK
  <2>2. listed[o].payload \in Payloads
    BY <1>6 DEF RespondQueued, TypeInv, TypeOK, Listings
  <2>3. TypeOK'
    BY <1>6, <2>1, <2>2 DEF RespondQueued, TypeInv, TypeOK, workerVars
  <2> QED
    BY <1>6, <2>3 DEF RespondQueued, TypeInv, RequestsKnow, RunsKnow, workerVars, Loaded
<1>3. CASE OnecSavesHanded(o)
  <2>1. Saved(handed[o]) \in Docs
    BY <1>3, SavedType DEF OnecSavesHanded, TypeInv, TypeOK
  <2>2. TypeOK'
    BY <1>3, <2>1 DEF OnecSavesHanded, TypeInv, TypeOK, workerVars, reqVars
  <2> QED
    BY <1>3, <2>2 DEF OnecSavesHanded, TypeInv, RequestsKnow, RunsKnow, workerVars, reqVars, Loaded
<1>4. CASE ReconcilePostedLiveOrders(o)
  <2>1. row[o] \in Rows
    BY <1>4 DEF ReconcilePostedLiveOrders, TypeInv, TypeOK
  <2>2. Updated(row[o], ReconcileData, {}) \in Rows
    BY <2>1, OnecDataType, UpdatedType
  <2>3. TypeOK'
    BY <1>4, <2>2 DEF ReconcilePostedLiveOrders, Store, TypeInv, TypeOK, workerVars, onecVars
  <2> QED
    BY <1>4, <2>3 DEF ReconcilePostedLiveOrders, TypeInv, RequestsKnow, RunsKnow, workerVars, Loaded
<1>5. ASSUME NEW payload \in late, OnecSavesLate(payload)  PROVE TypeInv'
  <2>1. Saved(payload) \in Docs
    BY <1>5, SavedType DEF TypeInv, TypeOK
  <2>2. TypeOK'
    BY <1>5, <2>1 DEF OnecSavesLate, TypeInv, TypeOK, workerVars, reqVars
  <2> QED
    BY <1>5, <2>2 DEF OnecSavesLate, TypeInv, RequestsKnow, RunsKnow, workerVars, reqVars, Loaded
<1> QED  BY <1>1, <1>2, <1>3, <1>4, <1>5, <1>6 DEF PullStep

\* One run moves on.
LEMMA RunMovesType ==
  ASSUME TypeInv, NEW w \in Workers, NEW x \in WorkerCalls, worker' = [worker EXCEPT ![w] = x],
         x.pc \notin {"idle", "loop"} => x.o \in Orders /\ x.batch[x.o] \in Rows,
         row' \in [Orders -> Rows \cup {Null}], doc' \in [Orders -> Docs \cup {Null}],
         late' \subseteq Payloads, faults' \in Nat, paused' \in [Processes -> BOOLEAN],
         runLock' \in Workers \cup {Null}, memLock' \in [Processes -> Workers \cup {Null}],
         orderLock' \in [Orders -> Workers \cup {Null}], lapsed' \subseteq Workers,
         listed' \in [Orders -> Listings \cup {Null}],
         UNCHANGED <<used, handed, pulled>>, UNCHANGED reqVars
  PROVE  TypeInv'
<1>1. TypeOK'
  BY DEF TypeInv, TypeOK, reqVars
<1>2. RequestsKnow'
  BY DEF TypeInv, RequestsKnow, reqVars
<1>3. RunsKnow'
  BY DEF TypeInv, TypeOK, RunsKnow, Loaded
<1> QED  BY <1>1, <1>2, <1>3 DEF TypeInv

\* A run that leaves the loop's body.
LEMMA LoopType ==
  ASSUME TypeInv, NEW w \in Workers, worker[w].o \in Orders
  PROVE  /\ Continues(w) \in WorkerCalls /\ Continues(w).pc = "loop"
         /\ Breaks(w) \in WorkerCalls /\ Breaks(w).pc = "loop"
         /\ IdleWorker \in WorkerCalls /\ IdleWorker.pc = "idle"
<1>1. worker[w] \in WorkerCalls
  BY DEF TypeInv, TypeOK
<1>2. Continues(w) \in WorkerCalls /\ Continues(w).pc = "loop"
  BY <1>1, NoDataType DEF Continues, WorkerCalls
<1>3. /\ Breaks(w) \in WorkerCalls /\ Breaks(w).pc = "loop"
      /\ IdleWorker \in WorkerCalls /\ IdleWorker.pc = "idle"
  BY <1>1, NoDataType DEF Breaks, IdleWorker, WorkerCalls, EmptyBatch
<1> QED  BY <1>2, <1>3

\* A run fails and keeps what it loaded.
LEMMA FailsType ==
  ASSUME TypeInv, NEW w \in Workers, worker[w].pc \notin {"idle", "loop"},
         NEW err \in {"validation", "unsupported", "other"}
  PROVE  LET x == [worker[w] EXCEPT !.pc = "failed", !.err = err]
         IN  x \in WorkerCalls /\ x.o \in Orders /\ x.batch[x.o] \in Rows
<1> DEFINE x == [worker[w] EXCEPT !.pc = "failed", !.err = err]
<1>1. worker[w] \in WorkerCalls /\ worker[w].o \in Orders /\ worker[w].batch[worker[w].o] \in Rows
  BY DEF TypeInv, TypeOK, RunsKnow, Loaded
<1>2. x \in WorkerCalls
  BY <1>1 DEF WorkerCalls
<1>3. x.o = worker[w].o /\ x.batch = worker[w].batch
  BY <1>1 DEF WorkerCalls
<1> QED  BY <1>1, <1>2, <1>3

\* The steps of a run.
LEMMA RunStepType ==
  ASSUME TypeInv, NEW w \in Workers,
         \/ \E batch \in SUBSET Orders, kind \in {"redis", "memory"} : RunOnce(w, batch, kind)
         \/ RunStep(w)
         \/ \E err \in {"other", "unsupported"} : CallFails(w, err)
  PROVE  TypeInv'
<1>0. /\ worker \in [Workers -> WorkerCalls] /\ worker[w] \in WorkerCalls
      /\ row \in [Orders -> Rows \cup {Null}] /\ doc \in [Orders -> Docs \cup {Null}]
      /\ late \subseteq Payloads /\ faults \in Nat /\ paused \in [Processes -> BOOLEAN]
      /\ runLock \in Workers \cup {Null} /\ memLock \in [Processes -> Workers \cup {Null}]
      /\ orderLock \in [Orders -> Workers \cup {Null}] /\ lapsed \subseteq Workers
      /\ listed \in [Orders -> Listings \cup {Null}]
  BY DEF TypeInv, TypeOK
<1>1. worker[w].pc \notin {"idle", "loop"} =>
        worker[w].o \in Orders /\ Loaded(w) \in Rows /\ worker[w].batch[worker[w].o] \in Rows
  BY DEF TypeInv, RunsKnow, Loaded
<1>2. ReleaseOrderLock(w) => orderLock' \in [Orders -> Workers \cup {Null}] /\ faults' \in Nat
  BY <1>0, FaultType DEF ReleaseOrderLock
<1>3. ASSUME NEW batch \in SUBSET Orders, NEW kind \in {"redis", "memory"}, RunOnce(w, batch, kind)
      PROVE  TypeInv'
  <2> DEFINE x == [IdleWorker EXCEPT !.pc = "loop", !.run = kind,
                     !.batch = [o \in Orders |-> IF o \in batch THEN row[o] ELSE Null]]
  <2>1. x \in WorkerCalls /\ x.pc = "loop"
    BY <1>0, NoDataType DEF IdleWorker, WorkerCalls
  <2>2. /\ runLock' \in Workers \cup {Null} /\ memLock' \in [Processes -> Workers \cup {Null}]
        /\ faults' \in Nat
    BY <1>0, <1>3, FaultType DEF RunOnce, AcquireLock, MaybeSet
  <2>3. worker' = [worker EXCEPT ![w] = x]
    BY <1>3, Zenon DEF RunOnce
  <2> HIDE DEF x
  <2> QED  BY <1>0, <1>3, <2>1, <2>2, <2>3, RunMovesType DEF RunOnce, onecVars
<1>4. ASSUME NEW o \in Orders, ExportOrder(w, o)  PROVE TypeInv'
  <2>1. worker[w].batch[o] \in Rows
    BY <1>0, <1>4 DEF ExportOrder, WorkerCalls
  <2>2. ASSUME NEW guard \in {"redis", "none"}, AcquireOrderLock(w, o, guard),
               worker' = [worker EXCEPT ![w].pc = "locked", ![w].o = o, ![w].guard = guard],
               lapsed' = lapsed \ {w},
               listed' = IF guard = "redis" /\ listed[o] # Null /\ listed[o].stage = "filtered"
                         THEN [listed EXCEPT ![o].began = @ \cup {w}] ELSE listed
        PROVE  TypeInv'
    <3> DEFINE x == [worker[w] EXCEPT !.pc = "locked", !.o = o, !.guard = guard]
    <3>1. x \in WorkerCalls /\ x.o = o /\ x.batch = worker[w].batch
      BY <1>0 DEF WorkerCalls
    <3>2. worker' = [worker EXCEPT ![w] = x]
      BY <1>0, <2>2
    <3>3. orderLock' \in [Orders -> Workers \cup {Null}] /\ lapsed' \subseteq Workers /\ faults' \in Nat
      BY <1>0, <2>2, FaultType DEF AcquireOrderLock, MaybeSet
    <3>4. listed' \in [Orders -> Listings \cup {Null}]
      <4>1. CASE guard = "redis" /\ listed[o] # Null /\ listed[o].stage = "filtered"
        <5>1. [listed[o] EXCEPT !.began = @ \cup {w}] \in Listings
          BY <1>0, <4>1 DEF Listings
        <5> QED  BY <1>0, <2>2, <4>1, <5>1
      <4>2. CASE ~(guard = "redis" /\ listed[o] # Null /\ listed[o].stage = "filtered")
        BY <1>0, <2>2, <4>2
      <4> QED  BY <4>1, <4>2
    <3> HIDE DEF x
    <3> QED  BY <1>0, <1>4, <2>1, <3>1, <3>2, <3>3, <3>4, RunMovesType DEF ExportOrder
  <2>3. ASSUME worker' = [worker EXCEPT ![w].batch[o] = Null], UNCHANGED <<faults, orderLock, lapsed, listed>>
        PROVE  TypeInv'
    <3> DEFINE x == [worker[w] EXCEPT !.batch = [@ EXCEPT ![o] = Null]]
    <3>1. x \in WorkerCalls /\ x.pc = "loop"
      BY <1>0, <1>4 DEF WorkerCalls, ExportOrder
    <3>2. worker' = [worker EXCEPT ![w] = x]
      BY <1>0, <2>3
    <3> HIDE DEF x
    <3> QED  BY <1>0, <1>4, <2>3, <3>1, <3>2, RunMovesType DEF ExportOrder
  <2> QED  BY <1>4, <2>2, <2>3 DEF ExportOrder
<1>5. CASE ValidationFails(w)
  <2>1. worker' = [worker EXCEPT ![w] = [worker[w] EXCEPT !.pc = "failed", !.err = "validation"]]
    BY <1>0, <1>5 DEF ValidationFails, Fails
  <2>2. faults' \in Nat
    BY <1>0, <1>5 DEF ValidationFails
  <2> QED  BY <1>0, <1>5, <2>1, <2>2, FailsType, RunMovesType DEF ValidationFails, OnlyWorker, onecVars
<1>6. CASE Call(w)
  <2> DEFINE x == [worker[w] EXCEPT !.pc = "calling"]
  <2>1. x \in WorkerCalls /\ x.o = worker[w].o /\ x.batch = worker[w].batch
    BY <1>0 DEF WorkerCalls
  <2>2. worker' = [worker EXCEPT ![w] = x]
    BY <1>0, <1>6 DEF Call
  <2> HIDE DEF x
  <2> QED  BY <1>0, <1>1, <1>6, <2>1, <2>2, RunMovesType DEF Call, OnlyWorker, onecVars
<1>7. ASSUME worker[w].pc = "calling"
      PROVE  /\ PayloadOf(worker[w].o, Loaded(w)) \in Payloads
             /\ PayloadOf(worker[w].o, Loaded(w)).o = worker[w].o
             /\ Saved(PayloadOf(worker[w].o, Loaded(w))) \in Docs
  BY <1>1, <1>7, PayloadType, SavedType DEF PayloadOf
<1>8. ASSUME NEW number \in BOOLEAN, NEW posted \in BOOLEAN, CallSucceeds(w, number, posted)
      PROVE  TypeInv'
  <2> DEFINE x == [worker[w] EXCEPT !.pc = "answered", !.number = number, !.posted = posted]
  <2>1. x \in WorkerCalls /\ x.o = worker[w].o /\ x.batch = worker[w].batch
    BY <1>0 DEF WorkerCalls
  <2>2. worker' = [worker EXCEPT ![w] = x]
    BY <1>0, <1>8 DEF CallSucceeds
  <2>3. doc' \in [Orders -> Docs \cup {Null}]
    BY <1>0, <1>1, <1>7, <1>8 DEF CallSucceeds
  <2> HIDE DEF x
  <2> QED  BY ZenonT(30), <1>0, <1>1, <1>8, <2>1, <2>2, <2>3, RunMovesType DEF CallSucceeds
<1>9. ASSUME NEW err \in {"other", "unsupported"}, CallFails(w, err)  PROVE TypeInv'
  <2>1. worker' = [worker EXCEPT ![w] = [worker[w] EXCEPT !.pc = "failed", !.err = err]]
    BY <1>0, <1>9 DEF CallFails, Fails
  <2>2. doc' \in [Orders -> Docs \cup {Null}] /\ late' \subseteq Payloads
    BY <1>0, <1>1, <1>7, <1>9 DEF CallFails
  <2>3. faults' \in Nat
    BY <1>0, <1>9 DEF CallFails
  <2> QED  BY <1>0, <1>9, <2>1, <2>2, <2>3, FailsType, RunMovesType DEF CallFails
<1>10. CASE MarkSuccessFind(w)
  <2> DEFINE data == ExportSuccessData(row[worker[w].o], IsCancelExportOrder(Loaded(w)),
                                       worker[w].number, worker[w].posted)
             x == [worker[w] EXCEPT !.pc = "marking", !.data = data]
  <2>1. CASE StillQueued(w)
    <3>1. row[worker[w].o] \in Rows
      BY <1>0, <1>1, <1>10, <2>1 DEF StillQueued, MarkSuccessFind
    <3>2. worker[w].number \in BOOLEAN /\ worker[w].posted \in BOOLEAN
          /\ IsCancelExportOrder(Loaded(w)) \in BOOLEAN
      BY <1>0 DEF WorkerCalls, IsCancelExportOrder
    <3>3. data \in Data
      BY <3>1, <3>2, WorkerDataType
    <3>4. worker' = [worker EXCEPT ![w] = x]
      BY <1>0, <1>10, <2>1, Zenon DEF MarkSuccessFind
    <3> HIDE DEF data
    <3>5. x \in WorkerCalls /\ x.o = worker[w].o /\ x.batch = worker[w].batch
      BY <1>0, <3>3 DEF WorkerCalls
    <3> HIDE DEF x
    <3> QED
      BY <1>0, <1>1, <1>10, <2>1, <3>4, <3>5, RunMovesType DEF MarkSuccessFind, onecVars
  <2>2. CASE ~StillQueued(w)
    BY <1>0, <1>1, <1>2, <1>10, <2>2, LoopType, RunMovesType DEF MarkSuccessFind, onecVars
  <2> QED  BY <2>1, <2>2
<1>11. CASE MarkSuccessWrite(w)
  <2>1. CASE row[worker[w].o] = Null
    <3>1. worker' = [worker EXCEPT ![w] = [worker[w] EXCEPT !.pc = "failed", !.err = "other"]]
      BY <1>0, <1>11, <2>1 DEF MarkSuccessWrite, Fails
    <3> QED  BY <1>0, <1>11, <2>1, <3>1, FailsType, RunMovesType DEF MarkSuccessWrite, onecVars
  <2>2. CASE row[worker[w].o] # Null
    <3>1. worker[w].o \in Orders /\ worker[w].data \in Data
      BY <1>0, <1>1, <1>11 DEF MarkSuccessWrite, WorkerCalls
    <3>2. Updated(row[worker[w].o], worker[w].data, {}) \in Rows
      BY <1>0, <2>2, <3>1, UpdatedType
    <3>3. row' \in [Orders -> Rows \cup {Null}]
      BY <1>0, <1>11, <2>2, <3>2 DEF MarkSuccessWrite, Store
    <3> QED
      BY <1>0, <1>2, <1>11, <2>2, <3>1, <3>3, LoopType, RunMovesType DEF MarkSuccessWrite, onecVars
  <2> QED  BY <2>1, <2>2
<1>12. CASE ReleaseAfterFailure(w)
  <2> DEFINE x == [worker[w] EXCEPT !.pc = "failing", !.guard = "none"]
  <2>1. x \in WorkerCalls /\ x.o = worker[w].o /\ x.batch = worker[w].batch
    BY <1>0 DEF WorkerCalls
  <2>2. worker' = [worker EXCEPT ![w] = x]
    BY <1>0, <1>12 DEF ReleaseAfterFailure
  <2> HIDE DEF x
  <2> QED
    BY <1>0, <1>1, <1>2, <1>12, <2>1, <2>2, RunMovesType DEF ReleaseAfterFailure, onecVars
<1>13. ASSUME AfterFailure(w), worker[w].o \in Orders
       PROVE  /\ paused' \in [Processes -> BOOLEAN]
              /\ \E x \in WorkerCalls : x.pc = "loop" /\ worker' = [worker EXCEPT ![w] = x]
  BY <1>0, <1>13, LoopType DEF AfterFailure
<1>14. CASE MarkFailureFind(w)
  <2>1. CASE StillQueued(w)
    <3> DEFINE data == ExportFailureData(IsCancelExportOrder(Loaded(w)), worker[w].err = "validation")
               x == [worker[w] EXCEPT !.pc = "erring", !.data = data]
    <3>1. row[worker[w].o] \in Rows
      BY <1>0, <1>1, <1>14, <2>1 DEF StillQueued, MarkFailureFind
    <3>2. IsCancelExportOrder(Loaded(w)) \in BOOLEAN /\ (worker[w].err = "validation") \in BOOLEAN
      BY DEF IsCancelExportOrder
    <3>3. data \in Data
      BY <3>1, <3>2, WorkerDataType
    <3>4. worker' = [worker EXCEPT ![w] = x]
      BY <1>0, <1>14, <2>1, Zenon DEF MarkFailureFind
    <3> HIDE DEF data
    <3>5. x \in WorkerCalls /\ x.o = worker[w].o /\ x.batch = worker[w].batch
      BY <1>0, <3>3 DEF WorkerCalls
    <3> HIDE DEF x
    <3> QED
      BY <1>0, <1>1, <1>14, <2>1, <3>4, <3>5, RunMovesType DEF MarkFailureFind, onecVars
  <2>2. CASE ~StillQueued(w)
    BY <1>0, <1>1, <1>13, <1>14, <2>2, RunMovesType DEF MarkFailureFind, onecVars
  <2> QED  BY <2>1, <2>2
<1>15. CASE MarkFailureWrite(w)
  <2>1. CASE row[worker[w].o] = Null
    BY <1>0, <1>1, <1>15, <2>1, LoopType, RunMovesType DEF MarkFailureWrite, onecVars
  <2>2. CASE row[worker[w].o] # Null
    <3>1. worker[w].o \in Orders /\ worker[w].data \in Data
      BY <1>0, <1>1, <1>15 DEF MarkFailureWrite, WorkerCalls
    <3>2. Updated(row[worker[w].o], worker[w].data, {}) \in Rows
      BY <1>0, <2>2, <3>1, UpdatedType
    <3>3. row' \in [Orders -> Rows \cup {Null}]
      BY <1>0, <1>15, <2>2, <3>2 DEF MarkFailureWrite, Store
    <3> QED
      BY <1>0, <1>13, <1>15, <2>2, <3>1, <3>3, RunMovesType DEF MarkFailureWrite, onecVars
  <2> QED  BY <2>1, <2>2
<1>16. CASE FinishRun(w)
  <2>1. /\ runLock' \in Workers \cup {Null} /\ memLock' \in [Processes -> Workers \cup {Null}]
        /\ faults' \in Nat
    BY <1>0, <1>16, FaultType DEF FinishRun, ReleaseLock
  <2>2. IdleWorker \in WorkerCalls /\ IdleWorker.pc = "idle"
    BY NoDataType DEF IdleWorker, WorkerCalls, EmptyBatch
  <2> QED  BY <1>0, <1>16, <2>1, <2>2, RunMovesType DEF FinishRun, onecVars
<1> QED
  BY <1>3, <1>4, <1>5, <1>6, <1>8, <1>9, <1>10, <1>11, <1>12, <1>14, <1>15, <1>16 DEF RunStep

\* Locks that pass their TTL, pauses that end, and crashes.
LEMMA EnvironmentType ==
  ASSUME TypeInv,
         \/ \E o \in Orders : ExpireOrderLock(o)
         \/ ExpireRunLock
         \/ \E p \in Processes : Unpause(p) \/ Crash(p)
  PROVE  TypeInv'
<1>0. ASSUME NEW f \in BOOLEAN, InUse(f)  PROVE faults' \in Nat
  BY <1>0, FaultType DEF InUse, TypeInv, TypeOK
<1>1. ASSUME NEW o \in Orders, ExpireOrderLock(o)  PROVE TypeInv'
  <2>1. HoldsOrderLock(orderLock[o], o) \in BOOLEAN
    BY DEF HoldsOrderLock, Pushing
  <2>2. faults' \in Nat
    BY <1>0, <1>1, <2>1 DEF ExpireOrderLock
  <2>3. TypeOK'
    BY <1>1, <2>2 DEF ExpireOrderLock, TypeInv, TypeOK, reqVars, onecVars
  <2> QED  BY <1>1, <2>3 DEF ExpireOrderLock, TypeInv, RequestsKnow, RunsKnow, reqVars, Loaded
<1>2. CASE ExpireRunLock
  <2>1. HoldsRunLock(runLock) \in BOOLEAN
    BY DEF HoldsRunLock
  <2>2. faults' \in Nat
    BY <1>0, <1>2, <2>1 DEF ExpireRunLock
  <2>3. runLock \in Workers /\ worker[runLock] \in WorkerCalls
    BY <1>2 DEF ExpireRunLock, TypeInv, TypeOK
  <2> DEFINE x == [worker[runLock] EXCEPT !.outlived = TRUE]
  <2>4. x \in WorkerCalls /\ x.pc = worker[runLock].pc /\ x.o = worker[runLock].o
        /\ x.batch = worker[runLock].batch
    BY <2>3 DEF WorkerCalls
  <2>5. worker' = [worker EXCEPT ![runLock] = x] \/ worker' = worker
    BY <1>2 DEF ExpireRunLock
  <2> HIDE DEF x
  <2>6. TypeOK'
    BY <1>2, <2>2, <2>3, <2>4, <2>5 DEF ExpireRunLock, TypeInv, TypeOK, reqVars, onecVars
  <2>7. RunsKnow'
    BY <2>3, <2>4, <2>5 DEF TypeInv, TypeOK, RunsKnow, Loaded
  <2> QED  BY <1>2, <2>6, <2>7 DEF ExpireRunLock, TypeInv, RequestsKnow, reqVars
<1>3. ASSUME NEW p \in Processes, Unpause(p)  PROVE TypeInv'
  <2>1. TypeOK'
    BY <1>3 DEF Unpause, TypeInv, TypeOK, reqVars, onecVars
  <2> QED  BY <1>3, <2>1 DEF Unpause, TypeInv, RequestsKnow, RunsKnow, reqVars, Loaded
<1>4. ASSUME NEW p \in Processes, Crash(p)  PROVE TypeInv'
  <2>1. IdleWorker \in WorkerCalls /\ IdleWorker.pc = "idle"
    BY NoDataType DEF IdleWorker, WorkerCalls, EmptyBatch
  <2>2. ASSUME NEW w \in Workers, worker[w].pc = "calling"
        PROVE  PayloadOf(worker[w].o, Loaded(w)) \in Payloads
    BY <2>2, PayloadType DEF TypeInv, RunsKnow
  <2>3. late' \subseteq Payloads
    BY <1>4, <2>2 DEF Crash, TypeInv, TypeOK
  <2>4. faults' \in Nat
    BY <1>4 DEF Crash, TypeInv, TypeOK
  <2>5. worker' \in [Workers -> WorkerCalls]
    BY <1>4, <2>1 DEF Crash, TypeInv, TypeOK
  <2>6. TypeOK'
    BY <1>4, <2>3, <2>4, <2>5 DEF Crash, TypeInv, TypeOK, reqVars
  <2>7. RequestsKnow'
    BY <1>4 DEF Crash, TypeInv, RequestsKnow, reqVars
  <2>8. RunsKnow'
    BY <1>4, <2>1 DEF Crash, TypeInv, RunsKnow, Loaded
  <2> QED  BY <2>6, <2>7, <2>8 DEF TypeInv
<1> QED  BY <1>1, <1>2, <1>3, <1>4

\* Every step keeps TypeInv.
LEMMA TypeNext == TypeInv /\ [Next]_vars => TypeInv'
<1> SUFFICES ASSUME TypeInv, [Next]_vars  PROVE TypeInv'
  OBVIOUS
<1>1. CASE UNCHANGED vars
  BY <1>1 DEF vars, TypeInv, TypeOK, RequestsKnow, RunsKnow, Loaded
<1>2. ASSUME NEW c \in Clients, ManagerRequest(c) \/ OnecRequest(c) \/ RequestStep(c) \/ Abort(c)
      PROVE  TypeInv'
  BY <1>2, ManagerType, OnecType, RequestStepType
<1>3. ASSUME NEW payload \in late, OnecSavesLate(payload)  PROVE TypeInv'
  BY <1>3, OnecStepType, SavedType DEF TypeInv, TypeOK
<1>4. CASE Next
  BY <1>2, <1>3, <1>4, RunStepType, OnecStepType, EnvironmentType DEF Next
<1> QED  BY <1>1, <1>4

\* In every reachable state every variable has its type, for any number of
\* orders, requests, runs and processes.
THEOREM TypeCorrect == Spec => []TypeOK
<1>1. TypeInv => TypeOK
  BY DEF TypeInv
<1> QED  BY <1>1, TypeInit, TypeNext, PTL DEF Spec

=============================================================================
