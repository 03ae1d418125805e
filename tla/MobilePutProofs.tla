--------------------------- MODULE MobilePutProofs ---------------------------
(***************************************************************************)
(* The mobile client's idempotent PUT: proofs about the client's id and    *)
(* version of an order in ClientOrderExport, for any sets of orders,       *)
(* requests and workers and any bounds.                                    *)
(*                                                                         *)
(* The advisory lock of a PUT protects only other PUTs of the same client  *)
(* id.  Everything else writes the same row without it, so the invariant   *)
(* has to say that all other writers leave the client's columns alone.     *)
(***************************************************************************)
EXTENDS ClientOrderExportProofs

----------------------------------------------------------------------------
(* The inductive invariant.                                                *)

\* An UPDATE that leaves the client's version alone.
Silent(d) == d.clientRevision = Undefined /\ d.clientPayloadHash = Undefined

InTransaction(q) == q.stage \in {"found", "deleted"}

RowsUsed == \A o \in Orders : row[o] # Null => o \in used

\* The table would pass its unique index on clientOrderId.
KeysUnique ==
  \A o, p \in Orders :
    /\ row[o] # Null /\ row[p] # Null
    /\ row[o].clientOrderId # Null /\ row[o].clientOrderId = row[p].clientOrderId
    => o = p

\* The advisory lock.
KeysLocked ==
  \A c, d \in Clients :
    /\ InTransaction(req[c]) /\ InTransaction(req[d])
    /\ req[c].key # Null /\ req[c].key = req[d].key
    => c = d

\* A PUT that will INSERT: what its second look at the table saw still holds.
CreatesFree ==
  \A c \in Clients :
    req[c].op = "create" /\ req[c].key # Null =>
      \A o \in Orders : row[o] # Null => row[o].clientOrderId # req[c].key

\* A PUT that will UPDATE: the row is still its client's and older than what
\* it brings.  Any other request writes nothing of the client's.
UpdateIsNewer(c) ==
  LET q == req[c]
  IN  /\ q.o \in used
      /\ q.key = Null => Silent(q.data)
      /\ q.key # Null /\ row[q.o] # Null =>
           /\ row[q.o].clientOrderId = q.key
           /\ \/ Silent(q.data)
              \/ q.data.clientRevision \in Nat /\ q.data.clientRevision > row[q.o].clientRevision

UpdatesAreNewer == \A c \in Clients : req[c].op = "update" => UpdateIsNewer(c)

OpsInTransaction == \A c \in Clients : req[c].op # "none" => InTransaction(req[c])

RunsSilent ==
  \A w \in Workers : worker[w].pc \in {"marking", "erring"} => Silent(worker[w].data)

PutInv ==
  /\ RowsUsed /\ KeysUnique /\ KeysLocked /\ CreatesFree
  /\ UpdatesAreNewer /\ OpsInTransaction /\ RunsSilent

\* The step that ClientVersionNeverRolledBack allows.
VersionStep ==
  \A o \in Orders :
    row[o] # Null /\ row'[o] # Null =>
      /\ row'[o].clientRevision >= row[o].clientRevision
      /\ row'[o].clientRevision = row[o].clientRevision =>
           row'[o].clientPayloadHash = row[o].clientPayloadHash

\* A step that creates no row and leaves the client's columns alone.
SilentStep ==
  \A o \in Orders :
    row'[o] # Null =>
      /\ row[o] # Null
      /\ row'[o].clientOrderId = row[o].clientOrderId
      /\ row'[o].clientRevision = row[o].clientRevision
      /\ row'[o].clientPayloadHash = row[o].clientPayloadHash

----------------------------------------------------------------------------
(* What the handlers write.                                                *)

\* An UPDATE never changes the client's id, and changes the client's version
\* only when its data has one.
LEMMA UpdatedVersion ==
  ASSUME NEW r, NEW d, NEW seen
  PROVE  /\ Updated(r, d, seen).clientOrderId = r.clientOrderId
         /\ Silent(d) => /\ Updated(r, d, seen).clientRevision = r.clientRevision
                         /\ Updated(r, d, seen).clientPayloadHash = r.clientPayloadHash
         /\ d.clientRevision # Undefined => Updated(r, d, seen).clientRevision = d.clientRevision
BY DEF Updated, Column, Silent

\* Every handler but the PUT leaves the client's version alone.
LEMMA HandlersSilent ==
  ASSUME NEW r
  PROVE  /\ Silent(NoData)
         /\ \A lines : Silent([NoData EXCEPT !.lines = lines])
         /\ \A lines : Silent(UpdateData(r, lines))
         /\ Silent(SubmitData(r)) /\ Silent(UnqueueData(r)) /\ Silent(RetryData(r))
         /\ Silent(RestoreData(r)) /\ Silent(CancelData(r))
<1> USE DEF Silent, NoData
<1>1. Silent(NoData) /\ \A lines : Silent([NoData EXCEPT !.lines = lines])
  OBVIOUS
<1>2. \A lines : Silent(UpdateData(r, lines))
  BY DEF UpdateData
<1>3. Silent(SubmitData(r)) /\ Silent(UnqueueData(r)) /\ Silent(RetryData(r)) /\ Silent(RestoreData(r))
  BY DEF SubmitData, UnqueueData, RetryData, RestoreData
<1>4. Silent(CancelData(r))
  BY <1>3 DEF CancelData
<1> QED  BY <1>1, <1>2, <1>3, <1>4

\* So do 1C's requests and the worker.
LEMMA OnecSilent ==
  ASSUME NEW r
  PROVE  /\ \A n : Silent(AckErrorData(n))
         /\ \A n, ack : Silent(AckOkData(n, ack))
         /\ \A item : Silent(StatusData(r, item))
         /\ \A item : \A data \in SnapshotOutcomes(r, item) : Silent(data)
         /\ Silent(ReconcileData)
         /\ \A cancel, number, posted : Silent(ExportSuccessData(r, cancel, number, posted))
         /\ \A cancel, validation : Silent(ExportFailureData(cancel, validation))
<1> USE DEF Silent, NoData
<1>1. /\ \A n : Silent(AckErrorData(n))
      /\ \A n, ack : Silent(AckOkData(n, ack))
      /\ \A item : Silent(StatusData(r, item))
  BY DEF AckErrorData, AckOkData, StatusData
<1>2. /\ \A item : Silent(SnapshotData(r, item))
      /\ Silent(SnapshotConflictData) /\ Silent(SnapshotErrorData) /\ Silent(SnapshotLinesErrorData)
  BY DEF SnapshotData, SnapshotConflictData, SnapshotErrorData, SnapshotLinesErrorData
<1>3. Silent(NoData) /\ Silent(ReconcileData)
  BY DEF ReconcileData
<1>4. /\ \A cancel, number, posted : Silent(ExportSuccessData(r, cancel, number, posted))
      /\ \A cancel, validation : Silent(ExportFailureData(cancel, validation))
  BY DEF ExportSuccessData, ExportFailureData
<1>5. \A item : \A data \in SnapshotOutcomes(r, item) : Silent(data)
  <2> HIDE DEF Silent, NoData
  <2> QED  BY <1>2, <1>3 DEF SnapshotOutcomes
<1> QED  BY <1>1, <1>3, <1>4, <1>5

----------------------------------------------------------------------------
(* Steps that leave the client's columns alone.                            *)

\* The request has ended or not reached its transaction, or has moved on
\* inside it with the data it had.
SameRequest(c) ==
  \/ req'[c].op = "none" /\ ~InTransaction(req'[c])
  \/ /\ req'[c].op = req[c].op /\ req'[c].o = req[c].o /\ req'[c].key = req[c].key
     /\ req'[c].data = req[c].data
     /\ InTransaction(req'[c]) => InTransaction(req[c])
     /\ req[c].op # "none" => InTransaction(req'[c])

\* Such a step is allowed, whatever happens to the requests.
LEMMA SilentAllowed == TypeInv /\ SilentStep => VersionStep
BY DEF SilentStep, VersionStep, TypeInv, TypeOK, Rows

\* Such a step keeps the invariant.
LEMMA SilentKeeps ==
  ASSUME TypeInv, PutInv, SilentStep, UNCHANGED used,
         \A c \in Clients : SameRequest(c),
         RunsSilent'
  PROVE  PutInv' /\ VersionStep
<1>1. RowsUsed' /\ KeysUnique'
  BY DEF PutInv, RowsUsed, KeysUnique, SilentStep
<1>2. KeysLocked'
  BY DEF PutInv, KeysLocked, SameRequest
<1>3. CreatesFree'
  BY DEF PutInv, CreatesFree, SameRequest, SilentStep
<1>4. UpdatesAreNewer'
  <2> SUFFICES ASSUME NEW c \in Clients, req'[c].op = "update"
               PROVE  UpdateIsNewer(c)'
    BY DEF UpdatesAreNewer
  <2>1. /\ req[c].op = "update" /\ req'[c].o = req[c].o /\ req'[c].key = req[c].key
        /\ req'[c].data = req[c].data
    BY DEF SameRequest
  <2>2. UpdateIsNewer(c) /\ req[c].o \in Orders
    BY <2>1 DEF PutInv, UpdatesAreNewer, TypeInv, RequestsKnow
  <2> QED  BY <2>1, <2>2 DEF UpdateIsNewer, SilentStep
<1>5. OpsInTransaction'
  BY DEF PutInv, OpsInTransaction, SameRequest
<1> QED  BY <1>1, <1>2, <1>3, <1>4, <1>5, SilentAllowed DEF PutInv

\* A step of neither a request nor a run.
LEMMA PutFrame ==
  ASSUME TypeInv, PutInv, SilentStep, UNCHANGED <<used, req, worker>>
  PROVE  PutInv' /\ VersionStep
<1>1. \A c \in Clients : SameRequest(c)
  BY DEF SameRequest, PutInv, OpsInTransaction
<1>2. RunsSilent'
  BY DEF PutInv, RunsSilent
<1> QED  BY <1>1, <1>2, SilentKeeps

\* Writing a row that is there, with data that is silent.
LEMMA StoreSilent ==
  ASSUME TypeInv, NEW o \in Orders, row[o] # Null, NEW d, Silent(d), NEW seen,
         Store(o, Updated(row[o], d, seen))
  PROVE  SilentStep
BY UpdatedVersion DEF Store, SilentStep, TypeInv, TypeOK

\* The state before the first request.
LEMMA PutInit == Init => PutInv
BY DEF Init, PutInv, RowsUsed, KeysUnique, KeysLocked, CreatesFree, UpdatesAreNewer,
   OpsInTransaction, RunsSilent, IdleRequest, IdleWorker, InTransaction

----------------------------------------------------------------------------
(* The steps of the requests.                                              *)

\* A request without a client's id finds its order, or needs none.
LEMMA FindWithPut ==
  ASSUME TypeInv, PutInv, NEW c \in Clients, NEW op \in {"create", "update", "delete"},
         NEW o, NEW data, NEW refs, FindWith(c, op, o, data, refs), Silent(data),
         op = "update" => o \in Orders /\ row[o] # Null
  PROVE  PutInv' /\ VersionStep
<1> DEFINE q == [IdleRequest EXCEPT !.stage = "found", !.op = op, !.o = o, !.data = data,
                                    !.refs = refs]
<1>1. /\ q.stage = "found" /\ q.op = op /\ q.o = o /\ q.data = data /\ q.key = Null
  BY DEF IdleRequest
<1>2. req' = [req EXCEPT ![c] = q] /\ UNCHANGED <<row, used, worker>>
  BY DEF FindWith, workerVars
<1> HIDE DEF q
<1>3. req'[c] = q /\ \A d \in Clients : d # c => req'[d] = req[d]
  BY <1>2 DEF TypeInv, TypeOK
<1>4. RowsUsed' /\ KeysUnique' /\ RunsSilent'
  BY <1>2 DEF PutInv, RowsUsed, KeysUnique, RunsSilent
<1>5. KeysLocked'
  BY <1>1, <1>3 DEF PutInv, KeysLocked
<1>6. CreatesFree'
  BY <1>1, <1>2, <1>3 DEF PutInv, CreatesFree
<1>7. UpdatesAreNewer'
  <2> SUFFICES ASSUME NEW d \in Clients, req'[d].op = "update"
               PROVE  UpdateIsNewer(d)'
    BY DEF UpdatesAreNewer
  <2>1. CASE d = c
    BY <1>1, <1>2, <1>3, <2>1 DEF UpdateIsNewer, PutInv, RowsUsed
  <2>2. CASE d # c
    BY <1>2, <1>3, <2>2 DEF UpdateIsNewer, PutInv, UpdatesAreNewer
  <2> QED  BY <2>1, <2>2
<1>8. OpsInTransaction'
  BY <1>1, <1>3 DEF PutInv, OpsInTransaction, InTransaction
<1>9. SilentStep
  BY <1>2 DEF SilentStep
<1> QED  BY <1>4, <1>5, <1>6, <1>7, <1>8, <1>9, SilentAllowed DEF PutInv

LEMMA FindPut ==
  ASSUME TypeInv, PutInv, NEW c \in Clients, NEW op \in {"create", "update", "delete"},
         NEW o, NEW data, Find(c, op, o, data), Silent(data),
         op = "update" => o \in Orders /\ row[o] # Null
  PROVE  PutInv' /\ VersionStep
BY FindWithPut DEF Find

\* A request that ends, or has not reached its transaction.
LEMMA RestPut ==
  ASSUME TypeInv, PutInv, SilentStep, NEW c \in Clients, NEW q,
         req' = [req EXCEPT ![c] = q], q.op = "none", ~InTransaction(q),
         UNCHANGED <<used, worker>>
  PROVE  PutInv' /\ VersionStep
<1>1. req'[c] = q /\ \A d \in Clients : d # c => req'[d] = req[d]
  BY DEF TypeInv, TypeOK
<1>2. \A d \in Clients : SameRequest(d)
  BY <1>1 DEF SameRequest, PutInv, OpsInTransaction
<1>3. RunsSilent'
  BY DEF PutInv, RunsSilent
<1> QED  BY <1>2, <1>3, SilentKeeps

LEMMA IdleRests == IdleRequest.op = "none" /\ ~InTransaction(IdleRequest)
BY DEF IdleRequest, InTransaction

\* The managers' requests.
LEMMA ManagerPut ==
  ASSUME TypeInv, PutInv, NEW c \in Clients, ManagerRequest(c)
  PROVE  PutInv' /\ VersionStep
<1>0. Silent(NoData) /\ \A lines : Silent([NoData EXCEPT !.lines = lines])
  BY HandlersSilent
<1>1. CASE \E lines \in Versions : CreateClientOrder(c, lines)
  BY <1>0, <1>1, FindPut DEF CreateClientOrder
<1>2. ASSUME NEW key \in ClientOrderIds, NEW body \in Bodies, PutArrives(c, key, body)
      PROVE  PutInv' /\ VersionStep
  <2> DEFINE q == [IdleRequest EXCEPT !.stage = "live", !.key = key, !.body = body]
  <2>1. q.op = "none" /\ ~InTransaction(q)
    BY DEF IdleRequest, InTransaction
  <2>2. req' = [req EXCEPT ![c] = q] /\ UNCHANGED <<row, used, worker>>
    BY <1>2, Zenon DEF PutArrives, workerVars
  <2> HIDE DEF q
  <2>3. SilentStep
    BY <2>2 DEF SilentStep
  <2> QED  BY <2>1, <2>2, <2>3, RestPut
<1>3. ASSUME NEW o \in Orders, CopyClientOrder(c, o)  PROVE PutInv' /\ VersionStep
  BY <1>0, <1>3, FindPut DEF CopyClientOrder
<1>4. ASSUME NEW o \in Orders, NEW lines \in Versions, UpdateClientOrder(c, o, lines)
      PROVE  PutInv' /\ VersionStep
  BY <1>4, HandlersSilent, FindWithPut DEF UpdateClientOrder
<1>5. ASSUME NEW o \in Orders, SubmitClientOrder(c, o)  PROVE PutInv' /\ VersionStep
  BY <1>5, HandlersSilent, FindPut DEF SubmitClientOrder
<1>6. ASSUME NEW o \in Orders, UnqueueClientOrder(c, o)  PROVE PutInv' /\ VersionStep
  BY <1>6, HandlersSilent, FindPut DEF UnqueueClientOrder
<1>7. ASSUME NEW o \in Orders, RetryClientOrderExport(c, o)  PROVE PutInv' /\ VersionStep
  BY <1>7, HandlersSilent, FindPut DEF RetryClientOrderExport
<1>8. ASSUME NEW o \in Orders, DeleteDraftClientOrder(c, o)  PROVE PutInv' /\ VersionStep
  BY <1>0, <1>8, FindPut DEF DeleteDraftClientOrder
<1>9. ASSUME NEW o \in Orders, RestoreClientOrder(c, o)  PROVE PutInv' /\ VersionStep
  BY <1>9, HandlersSilent, FindPut DEF RestoreClientOrder
<1>10. ASSUME NEW o \in Orders, CancelClientOrder(c, o)  PROVE PutInv' /\ VersionStep
  BY <1>10, HandlersSilent, FindPut DEF CancelClientOrder
<1> QED
  BY <1>1, <1>2, <1>3, <1>4, <1>5, <1>6, <1>7, <1>8, <1>9, <1>10 DEF ManagerRequest

\* The requests of 1C.
LEMMA OnecPut ==
  ASSUME TypeInv, PutInv, NEW c \in Clients, OnecRequest(c)
  PROVE  PutInv' /\ VersionStep
<1>1. ASSUME NEW o \in Orders, HandleOrderAckError(c, o)  PROVE PutInv' /\ VersionStep
  BY <1>1, OnecSilent, FindPut DEF HandleOrderAckError
<1>2. ASSUME NEW o \in Orders, NEW ack \in Acks, HandleOrderAckOk(c, o, ack)
      PROVE  PutInv' /\ VersionStep
  BY <1>2, OnecSilent, FindPut DEF HandleOrderAckOk
<1>3. ASSUME NEW o \in Orders, NEW item \in StatusItems, HandleOrdersStatusBatch(c, o, item)
      PROVE  PutInv' /\ VersionStep
  BY <1>3, OnecSilent, FindPut DEF HandleOrdersStatusBatch
<1>4. ASSUME NEW o \in Orders, NEW item, HandleOrdersSnapshotBatch(c, o, item)
      PROVE  PutInv' /\ VersionStep
  BY <1>4, OnecSilent, FindPut DEF HandleOrdersSnapshotBatch
<1> QED  BY <1>1, <1>2, <1>3, <1>4 DEF OnecRequest

\* What a PUT that passed its checks brings is newer than the row it found,
\* or only submits it.
LEMMA PutWriteNewer ==
  ASSUME NEW r \in Rows, NEW body \in Bodies, PutChecks(r, body)
  PROVE  \/ Silent(PutWrite(r, body))
         \/ /\ PutWrite(r, body).clientRevision \in Nat
            /\ PutWrite(r, body).clientRevision > r.clientRevision
<1>0. r # Null /\ body.clientRevision \in Nat /\ r.clientRevision \in Nat
  BY NullAssumption, BoundsAssumption DEF Bodies, Rows
<1>1. CASE body.clientRevision = r.clientRevision
  BY <1>0, <1>1, HandlersSilent DEF PutWrite
<1>2. CASE body.clientRevision # r.clientRevision
  <2>1. body.clientRevision > r.clientRevision
    BY <1>0, <1>2 DEF PutChecks, PutAnsweredFrom
  <2>2. PutData(r, body).clientRevision = body.clientRevision
    BY DEF PutData, NoData
  <2> QED  BY <1>0, <1>2, <2>1, <2>2 DEF PutWrite
<1> QED  BY <1>1, <1>2

\* The PUT takes its advisory lock and looks at the row again.
LEMMA PutClientOrderPut ==
  ASSUME TypeInv, PutInv, NEW c \in Clients, PutClientOrder(c)
  PROVE  PutInv' /\ VersionStep
<1> DEFINE o == FindByClientOrderId(req[c].key)
           r == RowOf(o)
           body == req[c].body
           q == [req[c] EXCEPT !.stage = "found", !.o = o,
                               !.op = IF o = Null THEN "create" ELSE "update",
                               !.data = PutWrite(r, body),
                               !.refs = ReferencesOf[body.lines]]
<1>1. /\ req' = [req EXCEPT ![c] = IF PutChecks(r, body) THEN q ELSE IdleRequest]
      /\ UNCHANGED <<row, used, worker>>
      /\ ~AdvisoryLocked(req[c].key)
  BY Zenon DEF PutClientOrder, workerVars
<1>2. /\ req[c] \in Requests /\ body \in Bodies /\ req[c].key \in ClientOrderIds
      /\ row \in [Orders -> Rows \cup {Null}]
  BY DEF PutClientOrder, TypeInv, TypeOK, RequestsKnow
<1>3. /\ o \in Orders \cup {Null}
      /\ o # Null => row[o] # Null /\ row[o].clientOrderId = req[c].key
      /\ o = Null => \A p \in Orders : row[p] # Null => row[p].clientOrderId # req[c].key
  BY FindByClientOrderIdType
<1>4. /\ q.stage = "found" /\ q.o = o /\ q.key = req[c].key /\ q.data = PutWrite(r, body)
      /\ q.op = IF o = Null THEN "create" ELSE "update"
  BY <1>2 DEF Requests
<1>5. SilentStep
  BY <1>1 DEF SilentStep
<1>6. PutChecks(r, body) /\ o # Null =>
        r = row[o] /\ (\/ Silent(PutWrite(r, body))
                      \/ /\ PutWrite(r, body).clientRevision \in Nat
                         /\ PutWrite(r, body).clientRevision > r.clientRevision)
  BY <1>2, <1>3, PutWriteNewer DEF RowOf
<1> HIDE DEF q, r, body, o
<1>7. CASE ~PutChecks(r, body)
  BY <1>1, <1>5, <1>7, IdleRests, RestPut
<1>8. CASE PutChecks(r, body)
  <2>1. req'[c] = q /\ \A d \in Clients : d # c => req'[d] = req[d]
    BY <1>1, <1>8 DEF TypeInv, TypeOK
  <2>2. RowsUsed' /\ KeysUnique' /\ RunsSilent'
    BY <1>1 DEF PutInv, RowsUsed, KeysUnique, RunsSilent
  <2>3. KeysLocked'
    BY <1>1, <1>4, <2>1 DEF PutInv, KeysLocked, AdvisoryLocked, InTransaction
  <2>4. CreatesFree'
    BY <1>1, <1>3, <1>4, <2>1 DEF PutInv, CreatesFree
  <2>5. UpdatesAreNewer'
    <3> SUFFICES ASSUME NEW d \in Clients, req'[d].op = "update"
                 PROVE  UpdateIsNewer(d)'
      BY DEF UpdatesAreNewer
    <3>1. CASE d = c
      <4>1. o # Null /\ o \in Orders /\ row[o] # Null /\ o \in used
        BY <1>3, <1>4, <2>1, <3>1 DEF PutInv, RowsUsed
      <4>2. req[c].key # Null
        BY <1>2, NullAssumption
      <4> QED  BY <1>1, <1>3, <1>4, <1>6, <1>8, <2>1, <3>1, <4>1, <4>2 DEF UpdateIsNewer
    <3>2. CASE d # c
      BY <1>1, <2>1, <3>2 DEF UpdateIsNewer, PutInv, UpdatesAreNewer
    <3> QED  BY <3>1, <3>2
  <2>6. OpsInTransaction'
    BY <1>4, <2>1 DEF PutInv, OpsInTransaction, InTransaction
  <2> QED  BY <1>5, <2>2, <2>3, <2>4, <2>5, <2>6, SilentAllowed DEF PutInv
<1> QED  BY <1>7, <1>8

\* The INSERT of an order: with a client's id, nobody else holds its lock.
LEMMA WriteCreatePut ==
  ASSUME TypeInv, PutInv, NEW c \in Clients, NEW o \in Orders, WriteCreate(c, o)
  PROVE  PutInv' /\ VersionStep
<1> DEFINE key == req[c].key
           r == Updated(NewOrder(req[c].data.lines, key), req[c].data, {})
<1>1. /\ req[c].op = "create" /\ InTransaction(req[c]) /\ o \notin used
      /\ UNCHANGED worker
  BY DEF WriteCreate, ReadyToWrite, InTransaction, EndRequest, workerVars
<1>2. key # Null => FindByClientOrderId(key) = Null
  BY <1>1, FindByClientOrderIdType DEF PutInv, CreatesFree
<1>3. /\ row' = [row EXCEPT ![o] = r] /\ used' = used \cup {o}
      /\ req' = [req EXCEPT ![c] = IdleRequest]
  BY <1>2 DEF WriteCreate, Store, EndRequest
<1>4. r.clientOrderId = key
  BY UpdatedVersion DEF NewOrder
<1> HIDE DEF r
<1>5. /\ req'[c] = IdleRequest /\ \A d \in Clients : d # c => req'[d] = req[d]
      /\ row'[o] = r /\ \A p \in Orders : p # o => row'[p] = row[p]
      /\ row[o] = Null
  BY <1>1, <1>3 DEF TypeInv, TypeOK, PutInv, RowsUsed
<1>6. RowsUsed' /\ RunsSilent'
  BY <1>1, <1>3, <1>5 DEF PutInv, RowsUsed, RunsSilent
<1>7. KeysUnique'
  BY <1>1, <1>4, <1>5 DEF PutInv, KeysUnique, CreatesFree
<1>8. KeysLocked'
  BY <1>5, IdleRests DEF PutInv, KeysLocked
<1>9. CreatesFree'
  <2> SUFFICES ASSUME NEW d \in Clients, req'[d].op = "create", req'[d].key # Null,
                      NEW p \in Orders, row'[p] # Null
               PROVE  row'[p].clientOrderId # req'[d].key
    BY DEF CreatesFree
  <2>1. d # c /\ req'[d] = req[d]
    BY <1>5, IdleRests
  <2>2. CASE p # o
    BY <1>5, <2>1, <2>2 DEF PutInv, CreatesFree
  <2>3. CASE p = o
    <3>1. InTransaction(req[d])
      BY <2>1 DEF PutInv, OpsInTransaction
    <3>2. req[d].key # key
      BY <1>1, <2>1, <3>1 DEF PutInv, KeysLocked
    <3> QED  BY <1>4, <1>5, <2>1, <2>3, <3>2
  <2> QED  BY <2>2, <2>3
<1>10. UpdatesAreNewer'
  <2> SUFFICES ASSUME NEW d \in Clients, req'[d].op = "update"
               PROVE  UpdateIsNewer(d)'
    BY DEF UpdatesAreNewer
  <2>1. d # c /\ req'[d] = req[d]
    BY <1>5, IdleRests
  <2>2. UpdateIsNewer(d) /\ req[d].o \in Orders
    BY <2>1 DEF PutInv, UpdatesAreNewer, TypeInv, RequestsKnow
  <2>3. req[d].o # o
    BY <1>1, <2>2 DEF UpdateIsNewer
  <2> QED  BY <1>3, <1>5, <2>1, <2>2, <2>3 DEF UpdateIsNewer
<1>11. OpsInTransaction'
  BY <1>5, IdleRests DEF PutInv, OpsInTransaction
<1>12. VersionStep
  BY <1>5 DEF VersionStep, TypeInv, TypeOK, Rows
<1> QED  BY <1>6, <1>7, <1>8, <1>9, <1>10, <1>11, <1>12 DEF PutInv

\* The UPDATE by id of a manager's request, of 1C's, or of a PUT.
LEMMA WriteUpdatePut ==
  ASSUME TypeInv, PutInv, NEW c \in Clients, WriteUpdate(c)
  PROVE  PutInv' /\ VersionStep
<1> DEFINE o == req[c].o
           d == req[c].data
           r == Updated(row[o], d, req[c].seen)
<1>1. /\ req[c].op = "update" /\ UNCHANGED <<used, worker>>
      /\ req' = [req EXCEPT ![c] = IdleRequest]
  BY DEF WriteUpdate, ReadyToWrite, EndRequest, workerVars
<1>2. o \in Orders /\ UpdateIsNewer(c) /\ InTransaction(req[c])
  BY <1>1 DEF PutInv, UpdatesAreNewer, TypeInv, RequestsKnow, OpsInTransaction
<1>3. CASE row[o] = Null
  <2>1. SilentStep
    BY <1>3 DEF WriteUpdate, SilentStep
  <2> QED  BY <1>1, <2>1, IdleRests, RestPut
<1>4. CASE row[o] # Null /\ Silent(d)
  <2>1. Store(o, r)
    BY <1>4 DEF WriteUpdate
  <2>2. SilentStep
    BY <1>2, <1>4, <2>1, StoreSilent
  <2> QED  BY <1>1, <2>2, IdleRests, RestPut
<1>5. CASE row[o] # Null /\ ~Silent(d)
  <2>1. /\ req[c].key # Null /\ row[o].clientOrderId = req[c].key
        /\ d.clientRevision \in Nat /\ d.clientRevision > row[o].clientRevision
    BY <1>2, <1>5 DEF UpdateIsNewer
  <2>2. /\ r.clientOrderId = req[c].key /\ r.clientRevision = d.clientRevision
        /\ row' = [row EXCEPT ![o] = r]
    BY <1>5, <2>1, UpdatedVersion, NullAssumption DEF WriteUpdate, Store
  <2> HIDE DEF r, d
  <2>3. /\ req'[c] = IdleRequest /\ \A e \in Clients : e # c => req'[e] = req[e]
        /\ row'[o] = r /\ \A p \in Orders : p # o => row'[p] = row[p]
        /\ row[o].clientRevision \in Nat
    BY <1>1, <1>2, <1>5, <2>2 DEF TypeInv, TypeOK, Rows
  <2> HIDE DEF o
  <2>4. RowsUsed' /\ RunsSilent'
    BY <1>1, <1>2, <1>5, <2>3 DEF PutInv, RowsUsed, RunsSilent
  <2>5. KeysUnique'
    BY <1>2, <1>5, <2>1, <2>2, <2>3 DEF PutInv, KeysUnique
  <2>6. KeysLocked'
    BY <2>3, IdleRests DEF PutInv, KeysLocked
  <2>7. CreatesFree'
    BY <1>2, <1>5, <2>1, <2>2, <2>3, IdleRests DEF PutInv, CreatesFree
  <2>8. UpdatesAreNewer'
    <3> SUFFICES ASSUME NEW e \in Clients, req'[e].op = "update"
                 PROVE  UpdateIsNewer(e)'
      BY DEF UpdatesAreNewer
    <3>1. e # c /\ req'[e] = req[e]
      BY <2>3, IdleRests
    <3>2. UpdateIsNewer(e) /\ req[e].o \in Orders /\ InTransaction(req[e])
      BY <3>1 DEF PutInv, UpdatesAreNewer, TypeInv, RequestsKnow, OpsInTransaction
    <3>3. CASE req[e].key = Null \/ req[e].o # o
      BY <1>1, <2>3, <3>1, <3>2, <3>3 DEF UpdateIsNewer
    <3>4. CASE req[e].key # Null /\ req[e].o = o
      <4>1. req[e].key = req[c].key
        BY <1>5, <2>1, <3>2, <3>4 DEF UpdateIsNewer
      <4> QED  BY <1>2, <2>1, <3>1, <3>2, <4>1 DEF PutInv, KeysLocked
    <3> QED  BY <3>3, <3>4
  <2>9. OpsInTransaction'
    BY <2>3, IdleRests DEF PutInv, OpsInTransaction
  <2>10. VersionStep
    <3> SUFFICES ASSUME NEW p \in Orders, row[p] # Null, row'[p] # Null
                 PROVE  /\ row'[p].clientRevision >= row[p].clientRevision
                        /\ row'[p].clientRevision = row[p].clientRevision =>
                             row'[p].clientPayloadHash = row[p].clientPayloadHash
      BY DEF VersionStep
    <3>1. CASE p = o
      BY <2>1, <2>2, <2>3, <3>1
    <3>2. CASE p # o
      BY <2>3, <3>2 DEF TypeInv, TypeOK, Rows
    <3> QED  BY <3>1, <3>2
  <2> QED  BY <2>4, <2>5, <2>6, <2>7, <2>8, <2>9, <2>10 DEF PutInv
<1> QED  BY <1>3, <1>4, <1>5

\* The steps by which a request ends.
LEMMA RequestStepPut ==
  ASSUME TypeInv, PutInv, NEW c \in Clients, RequestStep(c) \/ Abort(c)
  PROVE  PutInv' /\ VersionStep
<1>1. CASE DeleteItems(c)
  <2>1. /\ UNCHANGED <<row, used, worker>>
        /\ req' = [req EXCEPT ![c] = req'[c]]
        /\ req'[c].op = req[c].op /\ req'[c].o = req[c].o /\ req'[c].key = req[c].key
        /\ req'[c].data = req[c].data /\ req'[c].stage = "deleted"
        /\ req[c].stage = "found"
    BY ZenonT(30), <1>1 DEF DeleteItems, TypeInv, TypeOK, Requests, workerVars
  <2>2. \A d \in Clients : SameRequest(d)
    BY <2>1 DEF SameRequest, InTransaction, PutInv, OpsInTransaction, TypeInv, TypeOK
  <2>3. RunsSilent' /\ SilentStep
    BY <2>1 DEF PutInv, RunsSilent, SilentStep
  <2> QED  BY <2>1, <2>2, <2>3, SilentKeeps
<1>2. CASE WriteDelete(c)
  <2>1. SilentStep
    BY <1>2 DEF WriteDelete, Store, SilentStep, TypeInv, TypeOK
  <2> QED  BY <1>2, <2>1, IdleRests, RestPut DEF WriteDelete, EndRequest, workerVars
<1>3. CASE Abort(c)
  <2>1. SilentStep
    BY <1>3 DEF Abort, SilentStep
  <2> QED  BY <1>3, <2>1, IdleRests, RestPut DEF Abort, workerVars
<1> QED
  BY <1>1, <1>2, <1>3, PutClientOrderPut, WriteCreatePut, WriteUpdatePut DEF RequestStep

----------------------------------------------------------------------------
(* The worker and the environment.                                         *)

\* One run moves on.
LEMMA RunMovesPut ==
  ASSUME TypeInv, PutInv, SilentStep, UNCHANGED <<used, req>>,
         \A v \in Workers : \/ worker'[v] = worker[v]
                             \/ worker'[v].pc \notin {"marking", "erring"}
                             \/ Silent(worker'[v].data)
  PROVE  PutInv' /\ VersionStep
<1>1. \A c \in Clients : SameRequest(c)
  BY DEF SameRequest, PutInv, OpsInTransaction
<1>2. RunsSilent'
  BY DEF PutInv, RunsSilent
<1> QED  BY <1>1, <1>2, SilentKeeps

\* The steps of a run.
LEMMA RunStepPut ==
  ASSUME TypeInv, PutInv, NEW w \in Workers,
         \/ \E batch \in SUBSET Orders, kind \in {"redis", "memory"} : RunOnce(w, batch, kind)
         \/ RunStep(w)
         \/ \E err \in {"other", "unsupported"} : CallFails(w, err)
  PROVE  PutInv' /\ VersionStep
<1>0. worker \in [Workers -> WorkerCalls]
  BY DEF TypeInv, TypeOK
<1>1. /\ Continues(w).pc = "loop" /\ Breaks(w).pc = "loop" /\ IdleWorker.pc = "idle"
  BY <1>0 DEF Continues, Breaks, IdleWorker, WorkerCalls
<1>2. UNCHANGED row => SilentStep
  BY DEF SilentStep
<1>3. AfterFailure(w) => \E x : x.pc = "loop" /\ worker' = [worker EXCEPT ![w] = x]
  BY <1>1 DEF AfterFailure
<1>4. ASSUME NEW batch \in SUBSET Orders, NEW kind, RunOnce(w, batch, kind)
      PROVE  PutInv' /\ VersionStep
  <2> DEFINE x == [IdleWorker EXCEPT !.pc = "loop", !.run = kind,
                     !.batch = [o \in Orders |-> IF o \in batch THEN row[o] ELSE Null]]
  <2>1. x.pc = "loop"
    BY DEF IdleWorker
  <2>2. worker' = [worker EXCEPT ![w] = x] /\ UNCHANGED <<row, used, req>>
    BY <1>4, Zenon DEF RunOnce, reqVars
  <2> HIDE DEF x
  <2> QED  BY <1>0, <1>2, <2>1, <2>2, RunMovesPut
<1>5. ASSUME NEW o \in Orders, ExportOrder(w, o)  PROVE PutInv' /\ VersionStep
  <2>1. worker'[w].pc \notin {"marking", "erring"}
    BY <1>0, <1>5 DEF ExportOrder, WorkerCalls
  <2>2. (\A v \in Workers : v # w => worker'[v] = worker[v]) /\ UNCHANGED <<row, used, req>>
    BY <1>0, <1>5 DEF ExportOrder, reqVars
  <2> QED  BY <1>2, <2>1, <2>2, RunMovesPut
<1>6. ASSUME NEW err, Fails(w, err), UNCHANGED <<row, used, req>>  PROVE PutInv' /\ VersionStep
  <2>1. worker'[w].pc = "failed" /\ \A v \in Workers : v # w => worker'[v] = worker[v]
    BY <1>0, <1>6 DEF Fails, WorkerCalls
  <2> QED  BY <1>2, <1>6, <2>1, RunMovesPut
<1>7. ASSUME \/ Call(w) \/ ReleaseAfterFailure(w)
             \/ \E number, posted \in BOOLEAN : CallSucceeds(w, number, posted)
      PROVE  PutInv' /\ VersionStep
  <2>1. CASE Call(w) \/ ReleaseAfterFailure(w)
    <3>1. worker'[w].pc \in {"calling", "failing"} /\ UNCHANGED <<row, used, req>>
          /\ \A v \in Workers : v # w => worker'[v] = worker[v]
      BY <1>0, <2>1 DEF Call, ReleaseAfterFailure, OnlyWorker, reqVars, WorkerCalls
    <3> QED  BY <1>2, <3>1, RunMovesPut
  <2>2. ASSUME NEW number \in BOOLEAN, NEW posted \in BOOLEAN, CallSucceeds(w, number, posted)
        PROVE  PutInv' /\ VersionStep
    <3>1. /\ worker' = [worker EXCEPT ![w].pc = "answered", ![w].number = number, ![w].posted = posted]
          /\ UNCHANGED <<row, used, req>>
      BY <2>2 DEF CallSucceeds, reqVars
    <3>2. worker'[w].pc = "answered" /\ \A v \in Workers : v # w => worker'[v] = worker[v]
      BY <1>0, <3>1 DEF WorkerCalls
    <3> QED  BY <1>2, <3>1, <3>2, RunMovesPut
  <2> QED  BY <1>7, <2>1, <2>2
<1>8. CASE MarkSuccessFind(w)
  <2> DEFINE data == ExportSuccessData(row[worker[w].o], IsCancelExportOrder(Loaded(w)),
                                       worker[w].number, worker[w].posted)
  <2>1. Silent(data)
    BY OnecSilent
  <2>2. \/ worker' = [worker EXCEPT ![w].pc = "marking", ![w].data = data]
        \/ worker' = [worker EXCEPT ![w] = Continues(w)]
    BY <1>8 DEF MarkSuccessFind
  <2>3. UNCHANGED <<row, used, req>>
    BY <1>8 DEF MarkSuccessFind, reqVars
  <2> HIDE DEF data
  <2>4. /\ worker'[w].pc = "loop" \/ worker'[w].data = data
        /\ \A v \in Workers : v # w => worker'[v] = worker[v]
    BY <1>0, <1>1, <2>2 DEF WorkerCalls
  <2> QED  BY <1>2, <2>1, <2>3, <2>4, RunMovesPut
<1>9. CASE MarkFailureFind(w)
  <2> DEFINE data == ExportFailureData(IsCancelExportOrder(Loaded(w)), worker[w].err = "validation")
  <2>1. Silent(data)
    BY OnecSilent
  <2>2. \/ worker' = [worker EXCEPT ![w].pc = "erring", ![w].data = data]
        \/ \E x : x.pc = "loop" /\ worker' = [worker EXCEPT ![w] = x]
    BY <1>3, <1>9 DEF MarkFailureFind
  <2>3. UNCHANGED <<row, used, req>>
    BY <1>9 DEF MarkFailureFind, reqVars
  <2> HIDE DEF data
  <2>4. /\ worker'[w].pc = "loop" \/ worker'[w].data = data
        /\ \A v \in Workers : v # w => worker'[v] = worker[v]
    BY <1>0, <2>2 DEF WorkerCalls
  <2> QED  BY <1>2, <2>1, <2>3, <2>4, RunMovesPut
<1>10. ASSUME worker[w].pc \in {"marking", "erring"}, row[worker[w].o] # Null,
              Store(worker[w].o, Updated(row[worker[w].o], worker[w].data, {}))
       PROVE  SilentStep
  <2>1. worker[w].o \in Orders /\ Silent(worker[w].data)
    BY <1>10 DEF TypeInv, RunsKnow, PutInv, RunsSilent
  <2> QED  BY <1>10, <2>1, StoreSilent
<1>11. CASE MarkSuccessWrite(w)
  <2>1. CASE row[worker[w].o] = Null
    BY <1>6, <1>11, <2>1 DEF MarkSuccessWrite, reqVars
  <2>2. CASE row[worker[w].o] # Null
    <3>1. SilentStep
      BY <1>10, <1>11, <2>2 DEF MarkSuccessWrite
    <3>2. worker'[w].pc = "loop" /\ UNCHANGED <<used, req>>
          /\ \A v \in Workers : v # w => worker'[v] = worker[v]
      BY <1>0, <1>1, <1>11, <2>2 DEF MarkSuccessWrite, reqVars
    <3> QED  BY <3>1, <3>2, RunMovesPut
  <2> QED  BY <2>1, <2>2
<1>12. CASE MarkFailureWrite(w)
  <2>1. worker'[w].pc = "loop" /\ UNCHANGED <<used, req>>
        /\ \A v \in Workers : v # w => worker'[v] = worker[v]
    BY <1>0, <1>1, <1>3, <1>12 DEF MarkFailureWrite, reqVars
  <2>2. SilentStep
    BY <1>2, <1>10, <1>12 DEF MarkFailureWrite
  <2> QED  BY <2>1, <2>2, RunMovesPut
<1>13. CASE FinishRun(w)
  <2>1. worker'[w].pc = "idle" /\ UNCHANGED <<row, used, req>>
        /\ \A v \in Workers : v # w => worker'[v] = worker[v]
    BY <1>0, <1>1, <1>13 DEF FinishRun, reqVars
  <2> QED  BY <1>2, <2>1, RunMovesPut
<1>14. CASE ValidationFails(w)
  BY <1>6, <1>14 DEF ValidationFails, OnlyWorker, reqVars
<1>15. ASSUME NEW err, CallFails(w, err)  PROVE PutInv' /\ VersionStep
  BY <1>6, <1>15 DEF CallFails, reqVars
<1> QED
  BY <1>4, <1>5, <1>7, <1>8, <1>9, <1>11, <1>12, <1>13, <1>14, <1>15 DEF RunStep

LEMMA PutNext == TypeInv /\ PutInv /\ [Next]_vars => PutInv' /\ VersionStep
<1> SUFFICES ASSUME TypeInv, PutInv, [Next]_vars  PROVE PutInv' /\ VersionStep
  OBVIOUS
<1>0. UNCHANGED row => SilentStep
  BY DEF SilentStep
<1>1. CASE UNCHANGED vars
  BY <1>0, <1>1, PutFrame DEF vars
<1>2. ASSUME NEW o \in Orders, ReconcilePostedLiveOrders(o)  PROVE PutInv' /\ VersionStep
  <2>1. SilentStep
    BY <1>2, OnecSilent, StoreSilent DEF ReconcilePostedLiveOrders
  <2> QED  BY <1>2, <2>1, PutFrame DEF ReconcilePostedLiveOrders, workerVars
<1>3. ASSUME NEW o \in Orders,
             \/ \E includeSent \in BOOLEAN : HandleOrdersQueued(o, includeSent)
             \/ PullStep(o) \/ ExpireOrderLock(o)
      PROVE  PutInv' /\ VersionStep
  <2>1. UNCHANGED <<row, used, req, worker>>
    BY <1>3 DEF HandleOrdersQueued, PullStep, FilterDirectPushLockedOrders, RespondQueued, OnecSavesHanded,
       ExpireOrderLock, workerVars, reqVars
  <2> QED  BY <1>0, <2>1, PutFrame
<1>4. ASSUME \/ \E payload \in late : OnecSavesLate(payload)
             \/ \E p \in Processes : Unpause(p)
      PROVE  PutInv' /\ VersionStep
  <2>1. UNCHANGED <<row, used, req, worker>>
    BY <1>4 DEF OnecSavesLate, Unpause, workerVars, reqVars
  <2> QED  BY <1>0, <2>1, PutFrame
<1>5. ASSUME NEW p \in Processes, Crash(p)  PROVE PutInv' /\ VersionStep
  <2>1. \A w \in Workers : worker'[w] = worker[w] \/ worker'[w].pc = "idle"
    BY <1>5 DEF Crash, IdleWorker
  <2>2. UNCHANGED <<row, used, req>>
    BY <1>5 DEF Crash, reqVars
  <2> QED  BY <1>0, <2>1, <2>2, RunMovesPut
<1>6. CASE ExpireRunLock
  <2>1. \A w \in Workers : worker'[w].pc = worker[w].pc /\ worker'[w].data = worker[w].data
    BY <1>6 DEF ExpireRunLock, TypeInv, TypeOK, WorkerCalls
  <2>2. UNCHANGED <<row, used, req>>
    BY <1>6 DEF ExpireRunLock, reqVars
  <2>3. RunsSilent'
    BY <2>1 DEF PutInv, RunsSilent
  <2>4. \A c \in Clients : SameRequest(c)
    BY <2>2 DEF SameRequest, PutInv, OpsInTransaction
  <2> QED  BY <1>0, <2>2, <2>3, <2>4, SilentKeeps
<1>7. CASE Next
  BY <1>2, <1>3, <1>4, <1>5, <1>6, <1>7, ManagerPut, OnecPut, RequestStepPut, RunStepPut DEF Next
<1> QED  BY <1>1, <1>7

LEMMA PutImplies == TypeInv /\ PutInv => CreateNeverCollides
<1> SUFFICES ASSUME TypeInv, PutInv, NEW c \in Clients, req[c].op = "create", req[c].key # Null
             PROVE  FindByClientOrderId(req[c].key) = Null
  BY DEF CreateNeverCollides
<1> QED  BY FindByClientOrderIdType DEF PutInv, CreatesFree

\* However many first PUTs of one client order run at once, and whatever the
\* other handlers do meanwhile, a PUT that goes on to its INSERT finds the
\* client's id free: the unique index on clientOrderId refuses nothing
\* (putClientOrderByClientId).
THEOREM CreatesNeverCollide == Spec => []CreateNeverCollides
BY TypeInit, TypeNext, PutInit, PutNext, PutImplies, PTL DEF Spec

\* No step of any request, of the worker or of 1C takes an order back to an
\* older client version or puts other data under the same one; a PUT's
\* second look at the row, under its lock, is what it needs
\* (putClientOrderByClientId).
THEOREM ClientVersionsOnlyGrow == Spec => ClientVersionNeverRolledBack
<1>1. VersionStep => [\A o \in Orders :
        row[o] # Null /\ row'[o] # Null =>
          /\ row'[o].clientRevision >= row[o].clientRevision
          /\ row'[o].clientRevision = row[o].clientRevision =>
               row'[o].clientPayloadHash = row[o].clientPayloadHash]_vars
  BY DEF VersionStep
<1> QED
  BY <1>1, TypeInit, TypeNext, PutInit, PutNext, PTL DEF Spec, ClientVersionNeverRolledBack

=============================================================================
