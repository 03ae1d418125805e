-------------------------- MODULE ClientOrderExport --------------------------
(***************************************************************************)
(* The life of a client order between the managers' app, the API and 1C:   *)
(*                                                                         *)
(*   - managers' requests (clientOrders.service.ts), each a transaction    *)
(*     that finds the row, checks it and updates it by id.  Postgres runs  *)
(*     it at READ COMMITTED, so other transactions commit in between: a    *)
(*     request is a Find step and a Write step, with a DeleteItems step    *)
(*     in the middle when it replaces the order's lines;                   *)
(*   - the mobile client's idempotent PUT, which also holds an advisory    *)
(*     lock from its Find to its Write;                                    *)
(*   - 1C's requests (onec.controllers.ts): list queued orders,            *)
(*     acknowledge, status batch, snapshot batch;                          *)
(*   - runs of the export worker (clientOrdersExportWorker.ts), which push *)
(*     queued orders to 1C under a run lock and an order lock in Redis,    *)
(*     with TTLs that can pass while a lock is in use; where a command of  *)
(*     Redis fails, or its client is not open, they go on with a flag of   *)
(*     the process and without an order lock;                              *)
(*   - 1C itself (external): it stores what it is sent, possibly after the *)
(*     caller gave up waiting.                                             *)
(*                                                                         *)
(* Time is abstracted: backoff, intervals and the pause after an           *)
(* unsupported endpoint only decide when a run starts.                     *)
(***************************************************************************)
EXTENDS ClientOrder, FiniteSets

CONSTANTS
  Orders,          \* order identities (id and guid); each is used once
  Clients,         \* concurrent requests of managers and of 1C
  Workers,         \* concurrent calls of the worker's runOnce
  Processes,       \* API processes
  ProcessOf,       \* the process a worker call runs in
  Connected,       \* the processes whose Redis client is open
  ReferencesOf,    \* the rows of 1C's references that contents name
  EnabledOps,      \* the requests an instance explores
  OnecStatuses,    \* the statuses 1C reports in an instance
  MaxClientRevision,  \* largest clientRevision a mobile client sends
  MaxRequests,     \* bound: requests started in a behaviour
  MaxFaults        \* bound: failed calls, crashes and TTLs that pass in use

ASSUME ProcessAssumption == ProcessOf \in [Workers -> Processes] /\ Connected \subseteq Processes
ASSUME ReferencesAssumption == DOMAIN ReferencesOf = Versions
ASSUME NullAssumption ==
  /\ Null \notin Workers /\ Null \notin Orders /\ Null \notin ClientOrderIds /\ Null \notin Versions /\ Null \notin Rows
  /\ Undefined \notin OrderStatus /\ Undefined \notin OrderSyncState /\ Undefined \notin BOOLEAN
  /\ Undefined \notin Versions /\ Undefined # Null /\ Undefined \notin Nat
ASSUME BoundsAssumption ==
  OnecStatuses \subseteq OrderStatus /\ MaxRequests \in Nat /\ MaxFaults \in Nat /\ MaxClientRevision \in Nat

VARIABLES
  row,        \* the Order table: a row or Null
  used,       \* the identities given out so far
  req,        \* the requests in progress
  worker,     \* the worker calls in progress
  paused,     \* per process: directPushPausedUntil is in the future
  runLock,    \* holder of the run lock in Redis
  memLock,    \* per process: holder of the in-memory run lock
  orderLock,  \* per order: holder of the direct-push lock in Redis
  listed,     \* orders a GET /orders/queued has read and not yet answered with
  handed,     \* orders handed to 1C by GET /orders/queued, not saved there yet
  pulled,     \* orders 1C has saved from that channel and acknowledges
  doc,        \* 1C (external): the document saved for an order
  late,       \* pushes whose caller gave up and 1C may still save
  budget, faults,   \* what is left of MaxRequests and MaxFaults
  lapsed      \* history: workers whose order lock passed its TTL in use

vars == <<row, used, req, worker, paused, runLock, memLock, orderLock, listed, handed,
          pulled, doc, late, budget, faults, lapsed>>
reqVars == <<req, budget>>
workerVars == <<worker, paused, runLock, memLock, orderLock, lapsed>>
onecVars == <<listed, handed, pulled, doc, late>>

----------------------------------------------------------------------------
Bodies == [lines: Versions, clientRevision: 1..MaxClientRevision, intent: {"SAVE", "SUBMIT"}]

\* Rows of 1C's references (counterparty, products, prices).
References == UNION {ReferencesOf[v] : v \in Versions}

\* stage is where the request is: "live" a PUT loading live references after
\* its first look at the row, "found" a transaction that has checked the row,
\* "deleted" one that has also upserted its references and deleted the
\* lines it saw.
Requests ==
  [stage: {"idle", "live", "found", "deleted"},
   op: {"none", "create", "update", "delete"},
   o: Orders \cup {Null}, key: ClientOrderIds \cup {Null}, body: Bodies \cup {Null},
   data: Data, seen: SUBSET Versions, refs: SUBSET References]

IdleRequest ==
  [stage |-> "idle", op |-> "none", o |-> Null, key |-> Null,
   body |-> Null, data |-> NoData, seen |-> {}, refs |-> {}]

\* What the worker or the pull channel sends to 1C (buildQueuedOrderPayload).
Payloads == [o: Orders, items: SUBSET Versions, cancel: BOOLEAN]

PayloadOf(o, r) == [o |-> o, items |-> r.items, cancel |-> IsCancelExportOrder(r)]

Docs == [items: SUBSET Versions, cancelled: BOOLEAN]

ASSUME DocsAssumption == Null \notin Docs

\* A listed order: its locks are not looked up yet, or it has passed the
\* lookup, or the lookup was not possible.  began is history: the runs that
\* took the order's lock after the lookup.
Listings ==
  [stage: {"read", "filtered", "unfiltered"}, payload: Payloads, began: SUBSET Workers]

ASSUME ListingsAssumption == Null \notin Listings

\* run and guard: what kind of run lock and order lock the call took.
\* outlived is history: its run lock passed the TTL in use.
WorkerCalls ==
  [pc: {"idle", "loop", "locked", "calling", "answered", "marking", "failed", "failing", "erring"},
   batch: [Orders -> Rows \cup {Null}], o: Orders \cup {Null},
   err: {"none", "validation", "unsupported", "other"},
   run: {"none", "redis", "memory"}, outlived: BOOLEAN, guard: {"none", "redis"},
   number: BOOLEAN, posted: BOOLEAN, data: Data]

EmptyBatch == [o \in Orders |-> Null]

IdleWorker ==
  [pc |-> "idle", batch |-> EmptyBatch, o |-> Null, err |-> "none",
   run |-> "none", outlived |-> FALSE, guard |-> "none", number |-> FALSE, posted |-> FALSE, data |-> NoData]

Init ==
  /\ row = [o \in Orders |-> Null]
  /\ used = {}
  /\ req = [c \in Clients |-> IdleRequest]
  /\ worker = [w \in Workers |-> IdleWorker]
  /\ paused = [p \in Processes |-> FALSE]
  /\ runLock = Null
  /\ memLock = [p \in Processes |-> Null]
  /\ orderLock = [o \in Orders |-> Null]
  /\ listed = [o \in Orders |-> Null]
  /\ handed = [o \in Orders |-> Null]
  /\ pulled = {}
  /\ doc = [o \in Orders |-> Null]
  /\ late = {}
  /\ budget = MaxRequests
  /\ faults = MaxFaults
  /\ lapsed = {}

----------------------------------------------------------------------------
(* Parts of a request.                                                     *)

Store(o, r) == row' = [row EXCEPT ![o] = r]

Fault == faults > 0 /\ faults' = faults - 1

\* A process of P goes on without Redis: its client is not open, or a
\* command fails.
WithoutRedis(P) == \/ P \ Connected # {} /\ UNCHANGED faults
                   \/ P \cap Connected # {} /\ Fault

\* A transaction found row o, passed its checks, and will upsert refs and
\* send data.
FindWith(c, op, o, data, refs) ==
  /\ req' = [req EXCEPT ![c] = [IdleRequest EXCEPT !.stage = "found", !.op = op,
                                                   !.o = o, !.data = data, !.refs = refs]]
  /\ UNCHANGED <<row, used, faults>>
  /\ UNCHANGED workerVars /\ UNCHANGED onecVars

Find(c, op, o, data) == FindWith(c, op, o, data, {})

\* A new request arrives.
Arrives(c, op) ==
  /\ req[c].stage = "idle"
  /\ op \in EnabledOps
  /\ budget > 0
  /\ budget' = budget - 1

----------------------------------------------------------------------------
(* The managers' requests.  A request that fails a check changes nothing,  *)
(* and neither does one whose revision is not the row's: assertRevision    *)
(* passes when the client sends the revision found.                        *)

CreateClientOrder(c, lines) ==
  /\ Arrives(c, "create")
  /\ Find(c, "create", Null, [NoData EXCEPT !.lines = lines])

\* copyStoredClientOrder: a new order with the lines of another.
CopyClientOrder(c, source) ==
  /\ Arrives(c, "copy")
  /\ row[source] # Null
  /\ \E lines \in IF row[source].items = {} THEN {Null} ELSE row[source].items :
       Find(c, "create", Null, [NoData EXCEPT !.lines = lines])

UpdateClientOrder(c, o, lines) ==
  /\ Arrives(c, "update")
  /\ row[o] # Null
  /\ EnsureEditable(row[o])
  /\ FindWith(c, "update", o, UpdateData(row[o], lines), ReferencesOf[lines])

SubmitClientOrder(c, o) ==
  /\ Arrives(c, "submit")
  /\ row[o] # Null
  /\ EnsureEditable(row[o])
  /\ row[o].status # "CANCELLED"
  /\ CanBeSubmitted(row[o].items)
  /\ Find(c, "update", o, SubmitData(row[o]))

UnqueueClientOrder(c, o) ==
  /\ Arrives(c, "unqueue")
  /\ row[o] # Null
  /\ ~row[o].hasRealization
  /\ IsOrderQueued(row[o])
  /\ Find(c, "update", o, UnqueueData(row[o]))

RetryClientOrderExport(c, o) ==
  /\ Arrives(c, "retry")
  /\ row[o] # Null
  /\ EnsureEditable(row[o])
  /\ LinesCanBeSubmitted(row[o].items)
  /\ Find(c, "update", o, RetryData(row[o]))

DeleteDraftClientOrder(c, o) ==
  /\ Arrives(c, "delete")
  /\ row[o] # Null
  /\ CanDeleteLocal(row[o])
  /\ Find(c, "delete", o, NoData)

RestoreClientOrder(c, o) ==
  /\ Arrives(c, "restore")
  /\ row[o] # Null
  /\ row[o].status = "CANCELLED"
  /\ ~KnownIn1C(row[o])
  /\ Find(c, "update", o, RestoreData(row[o]))

CancelClientOrder(c, o) ==
  /\ Arrives(c, "cancel")
  /\ row[o] # Null
  /\ row[o].status # "CANCELLED"
  /\ IsOrderQueued(row[o]) \/ EnsureEditable(row[o])
  /\ Find(c, "update", o, CancelData(row[o]))

----------------------------------------------------------------------------
(* putClientOrderByClientId.                                               *)

\* The request is answered from the row as it is: an older retry, or the
\* stored version again with nothing left to submit.
PutAnsweredFrom(r, body) ==
  /\ r # Null
  /\ \/ body.clientRevision < r.clientRevision
     \/ /\ body.clientRevision = r.clientRevision
        /\ \/ body.intent = "SAVE"
           \/ IsOrderQueued(r)
           \/ r.submitRequested

\* 409: one version of the document with different data.
PutConflicts(r, body) ==
  /\ r # Null
  /\ body.clientRevision = r.clientRevision
  /\ r.clientPayloadHash # body.lines

\* The row with this client's id; the table has a unique index on it.
FindByClientOrderId(key) ==
  LET found == {o \in Orders : row[o] # Null /\ row[o].clientOrderId = key}
  IN  IF found = {} THEN Null ELSE CHOOSE o \in found : TRUE

RowOf(o) == IF o = Null THEN Null ELSE row[o]

\* The look at the row before the live references are loaded.
PutArrives(c, key, body) ==
  LET r == RowOf(FindByClientOrderId(key))
  IN  /\ Arrives(c, "put")
      /\ ~PutAnsweredFrom(r, body) /\ ~PutConflicts(r, body)
      /\ req' = [req EXCEPT ![c] = [IdleRequest EXCEPT !.stage = "live", !.key = key,
                                                       !.body = body]]
      /\ UNCHANGED <<row, used, faults>>
      /\ UNCHANGED workerVars /\ UNCHANGED onecVars

\* Mutant of AdvisoryLocked: the transaction does not take the lock.
MutNoAdvisoryLock(key) == FALSE

\* pg_advisory_xact_lock: held by the PUT that is between Find and Write.
AdvisoryLocked(key) ==
  \E d \in Clients : req[d].key = key /\ req[d].stage \in {"found", "deleted"}

\* Mutant of PutChecks: the first look at the row is trusted.
MutFirstLookTrusted(r, body) ==
  /\ r # Null => EnsureEditable(r)
  /\ ShouldQueue(r, body.intent) => CanBeSubmitted({body.lines})

PutChecks(r, body) ==
  /\ ~PutAnsweredFrom(r, body) /\ ~PutConflicts(r, body)
  /\ r # Null => EnsureEditable(r)
  /\ IF r # Null /\ body.clientRevision = r.clientRevision
     THEN CanBeSubmitted(r.items)
     ELSE ShouldQueue(r, body.intent) => CanBeSubmitted({body.lines})

\* What the transaction writes, from the row found under the lock.
PutWrite(r, body) ==
  IF r # Null /\ body.clientRevision = r.clientRevision THEN SubmitData(r) ELSE PutData(r, body)

PutClientOrder(c) ==
  LET o == FindByClientOrderId(req[c].key)
      body == req[c].body
  IN  /\ req[c].stage = "live"
      /\ ~AdvisoryLocked(req[c].key)
      /\ req' = [req EXCEPT ![c] =
                   IF PutChecks(RowOf(o), body)
                   THEN [@ EXCEPT !.stage = "found", !.o = o,
                                  !.op = IF o = Null THEN "create" ELSE "update",
                                  !.data = PutWrite(RowOf(o), body),
                                  !.refs = ReferencesOf[body.lines]]
                   ELSE IdleRequest]
      /\ UNCHANGED <<row, used, faults, budget>>
      /\ UNCHANGED workerVars /\ UNCHANGED onecVars

----------------------------------------------------------------------------
(* The rest of a transaction.                                              *)

\* A row of the references that another transaction has upserted and not
\* committed yet.
RowLocked(c) ==
  \E d \in Clients : req[d].stage = "deleted" /\ req[c].refs \cap req[d].refs # {}

\* materializeLiveOrderReferences upserts the references and keeps their rows
\* locked until the commit; then tx.orderItem.deleteMany, of the lines this
\* statement sees.  One step: a transaction that has a reference in common and
\* commits before the deletion commits before the upserts as well.
DeleteItems(c) ==
  /\ req[c].stage = "found" /\ req[c].op = "update"
  /\ req[c].data.lines # Undefined
  /\ ~RowLocked(c)
  /\ req' = [req EXCEPT ![c].stage = "deleted",
                        ![c].seen = IF row[req[c].o] = Null THEN {} ELSE row[req[c].o].items]
  /\ UNCHANGED <<row, used, faults, budget>>
  /\ UNCHANGED workerVars /\ UNCHANGED onecVars

ReadyToWrite(c, op) ==
  /\ req[c].op = op
  /\ \/ req[c].stage = "deleted"
     \/ req[c].stage = "found" /\ (op = "update" => req[c].data.lines = Undefined)

EndRequest(c) ==
  /\ req' = [req EXCEPT ![c] = IdleRequest]
  /\ UNCHANGED <<faults, budget>> /\ UNCHANGED workerVars /\ UNCHANGED onecVars

\* tx.order.create under a new id, and the commit.  It fails when the
\* client's id is taken.
WriteCreate(c, o) ==
  LET data == req[c].data
  IN  /\ ReadyToWrite(c, "create")
      /\ o \in Orders \ used
      /\ IF req[c].key # Null /\ FindByClientOrderId(req[c].key) # Null
         THEN UNCHANGED <<row, used>>
         ELSE /\ Store(o, Updated(NewOrder(data.lines, req[c].key), data, {}))
              /\ used' = used \cup {o}
      /\ EndRequest(c)

\* tx.order.update by id, and the commit.  A row that is gone fails it.
WriteUpdate(c) ==
  LET o == req[c].o
  IN  /\ ReadyToWrite(c, "update")
      /\ IF row[o] = Null
         THEN UNCHANGED row
         ELSE Store(o, Updated(row[o], req[c].data, req[c].seen))
      /\ UNCHANGED used
      /\ EndRequest(c)

WriteDelete(c) ==
  /\ ReadyToWrite(c, "delete")
  /\ Store(req[c].o, Null)
  /\ UNCHANGED used
  /\ EndRequest(c)

\* The request ends without a commit: a failed statement, a live 1C call
\* that failed, a transaction that timed out, or a crash of its process.
Abort(c) ==
  /\ req[c].stage # "idle"
  /\ faults > 0 /\ faults' = faults - 1
  /\ req' = [req EXCEPT ![c] = IdleRequest]
  /\ UNCHANGED <<row, used, budget>>
  /\ UNCHANGED workerVars /\ UNCHANGED onecVars

----------------------------------------------------------------------------
(* 1C's requests.  1C acknowledges what it was handed and reports on       *)
(* documents it has.                                                       *)

Acks == [status: {"SENT_TO_1C", "CANCELLED"}, number: BOOLEAN, posted: BOOLEAN \cup {Undefined}]

\* The row is read before the transaction and nothing is asked of it.
HandleOrderAckError(c, o) ==
  /\ Arrives(c, "ackError")
  /\ handed[o] # Null /\ row[o] # Null
  /\ Find(c, "update", o, AckErrorData(row[o].revision))

HandleOrderAckOk(c, o, ack) ==
  /\ Arrives(c, "ack")
  /\ o \in pulled /\ row[o] # Null
  /\ Find(c, "update", o, AckOkData(row[o].revision, ack))

HandleOrdersStatusBatch(c, o, item) ==
  /\ Arrives(c, "status")
  /\ doc[o] # Null /\ row[o] # Null
  /\ Find(c, "update", o, StatusData(row[o], item))

\* The lines are replaced unless a check stops the snapshot first, or a line
\* names an unknown product: then the error is caught after deleteMany.  A
\* line guid given twice is found before anything is deleted.
SnapshotOutcomes(r, item) ==
  IF SnapshotConflicts(r, item) THEN {SnapshotConflictData}
  ELSE IF SnapshotDeferred(r) THEN {NoData}
  ELSE {SnapshotData(r, item), SnapshotErrorData, SnapshotLinesErrorData}

HandleOrdersSnapshotBatch(c, o, item) ==
  /\ Arrives(c, "snapshot")
  /\ doc[o] # Null /\ row[o] # Null
  /\ \E data \in SnapshotOutcomes(row[o], item) : Find(c, "update", o, data)

\* GET /orders/queued: the rows are read, those under a direct-push lock
\* are taken out, the run is recorded (safeCompleteSyncRun), and then the
\* others are the answer.
HandleOrdersQueued(o, includeSent) ==
  /\ "pull" \in EnabledOps
  /\ budget > 0 /\ budget' = budget - 1
  /\ row[o] # Null /\ IsPullable(row[o], includeSent)
  /\ listed[o] = Null
  /\ listed' = [listed EXCEPT ![o] = [stage |-> "read", payload |-> PayloadOf(o, row[o]), began |-> {}]]
  /\ UNCHANGED <<row, used, req, faults, handed, pulled, doc, late>>
  /\ UNCHANGED workerVars

\* Mutant of DirectPushLocked: the locks are not looked at.
MutLocksIgnored(o) == FALSE

DirectPushLocked(o) == orderLock[o] # Null

\* Every order is kept when the client is not open or mGet fails.
FilterDirectPushLockedOrders(o) ==
  /\ listed[o] # Null /\ listed[o].stage = "read"
  /\ \/ /\ Connected # {} /\ UNCHANGED faults
        /\ listed' = [listed EXCEPT ![o] = IF DirectPushLocked(o) THEN Null ELSE [@ EXCEPT !.stage = "filtered"]]
     \/ /\ WithoutRedis(Processes)
        /\ listed' = [listed EXCEPT ![o].stage = "unfiltered"]
  /\ UNCHANGED <<row, used, req, budget, handed, pulled, doc, late>>
  /\ UNCHANGED workerVars

\* The answer, which may get lost.
RespondQueued(o) ==
  /\ listed[o] # Null /\ listed[o].stage # "read"
  /\ listed' = [listed EXCEPT ![o] = Null]
  /\ \/ handed' = [handed EXCEPT ![o] = listed[o].payload] /\ UNCHANGED faults
     \/ UNCHANGED handed /\ Fault
  /\ UNCHANGED <<row, used, req, budget, pulled, doc, late>>
  /\ UNCHANGED workerVars

\* updateMany over the posted documents of 1C's live list: one statement.
ReconcilePostedLiveOrders(o) ==
  /\ "reconcile" \in EnabledOps
  /\ doc[o] # Null /\ ~doc[o].cancelled /\ row[o] # Null
  /\ NeedsReconcile(row[o])
  /\ budget > 0 /\ budget' = budget - 1
  /\ Store(o, Updated(row[o], ReconcileData, {}))
  /\ UNCHANGED <<used, req, faults>> /\ UNCHANGED workerVars /\ UNCHANGED onecVars

----------------------------------------------------------------------------
(* 1C, as the API uses it.                                                 *)

Saved(payload) == [items |-> payload.items, cancelled |-> payload.cancel]

\* It saves an order it was handed by the pull channel.
OnecSavesHanded(o) ==
  /\ handed[o] # Null
  /\ doc' = [doc EXCEPT ![o] = Saved(handed[o])]
  /\ handed' = [handed EXCEPT ![o] = Null]
  /\ pulled' = pulled \cup {o}
  /\ UNCHANGED <<row, used, faults, listed, late>>
  /\ UNCHANGED reqVars /\ UNCHANGED workerVars

\* It saves a push whose caller has stopped waiting.
OnecSavesLate(payload) ==
  /\ payload \in late
  /\ late' = late \ {payload}
  /\ doc' = [doc EXCEPT ![payload.o] = Saved(payload)]
  /\ UNCHANGED <<row, used, faults, listed, handed, pulled>>
  /\ UNCHANGED reqVars /\ UNCHANGED workerVars

----------------------------------------------------------------------------
(* The export worker: one call of runOnce.                                 *)

\* What a SET NX of w leaves when its answer is lost.
MaybeSet(lock, w) == IF lock = Null THEN {Null, w} ELSE {lock}

\* acquireLock: SET NX in Redis, or the flag of the process without it.
AcquireLock(w, kind) ==
  LET p == ProcessOf[w]
  IN  \/ /\ kind = "redis" /\ p \in Connected
         /\ runLock = Null /\ runLock' = w
         /\ UNCHANGED <<memLock, faults>>
      \/ /\ kind = "memory" /\ WithoutRedis({p})
         /\ runLock' \in IF p \in Connected THEN MaybeSet(runLock, w) ELSE {runLock}
         /\ memLock[p] = Null /\ memLock' = [memLock EXCEPT ![p] = w]

\* Its release: GET and DEL when the value is still this call's own, unless
\* one of them fails.  The lock can pass to another holder between the two;
\* that is ExpireRunLock taking the other's lock.
ReleaseLock(w) ==
  IF worker[w].run = "redis"
  THEN /\ UNCHANGED memLock
       /\ \/ runLock' = (IF runLock = w THEN Null ELSE runLock) /\ UNCHANGED faults
          \/ UNCHANGED runLock /\ Fault
  ELSE memLock' = [memLock EXCEPT ![ProcessOf[w]] = Null] /\ UNCHANGED <<runLock, faults>>

\* Mutant of OrderLockFree: SET without NX.
MutLockOverwritten(o) == TRUE

OrderLockFree(o) == orderLock[o] = Null

\* acquireOrderLock goes on without any lock when Redis is not open or SET
\* fails.
AcquireOrderLock(w, o, guard) ==
  LET p == ProcessOf[w]
  IN  \/ /\ guard = "redis" /\ p \in Connected
         /\ OrderLockFree(o) /\ orderLock' = [orderLock EXCEPT ![o] = w]
         /\ UNCHANGED faults
      \/ /\ guard = "none" /\ WithoutRedis({p})
         /\ \E lock \in IF p \in Connected THEN MaybeSet(orderLock[o], w) ELSE {orderLock[o]} :
              orderLock' = [orderLock EXCEPT ![o] = lock]

ReleaseOrderLock(w) ==
  LET o == worker[w].o
  IN  \/ /\ orderLock' = IF worker[w].guard = "redis" /\ orderLock[o] = w
                         THEN [orderLock EXCEPT ![o] = Null] ELSE orderLock
         /\ UNCHANGED faults
      \/ worker[w].guard = "redis" /\ UNCHANGED orderLock /\ Fault

\* loadExportCandidates: exportable rows whose backoff has passed, at most a
\* batch of them.
Candidates == {o \in Orders : row[o] # Null /\ IsExportable(row[o])}

RunOnce(w, batch, kind) ==
  /\ worker[w].pc = "idle"
  /\ ~paused[ProcessOf[w]]
  /\ AcquireLock(w, kind)
  /\ batch # {} /\ batch \subseteq Candidates
  /\ worker' = [worker EXCEPT ![w] = [IdleWorker EXCEPT !.pc = "loop", !.run = kind,
                  !.batch = [o \in Orders |-> IF o \in batch THEN row[o] ELSE Null]]]
  /\ UNCHANGED <<row, used, paused, orderLock, lapsed>>
  /\ UNCHANGED reqVars /\ UNCHANGED onecVars

\* The loop goes on to the next order of the batch, or stops.
Continues(w) ==
  [worker[w] EXCEPT !.pc = "loop", !.batch = [@ EXCEPT ![worker[w].o] = Null], !.o = Null,
                    !.err = "none", !.guard = "none", !.data = NoData, !.number = FALSE, !.posted = FALSE]

Breaks(w) ==
  [IdleWorker EXCEPT !.pc = "loop", !.run = worker[w].run, !.outlived = worker[w].outlived]

\* exportOrder up to the order lock; a locked order is skipped.
ExportOrder(w, o) ==
  /\ worker[w].pc = "loop" /\ worker[w].batch[o] # Null
  /\ \/ \E guard \in {"redis", "none"} :
          /\ AcquireOrderLock(w, o, guard)
          /\ worker' = [worker EXCEPT ![w].pc = "locked", ![w].o = o, ![w].guard = guard]
          /\ lapsed' = lapsed \ {w}
          /\ listed' = IF guard = "redis" /\ listed[o] # Null /\ listed[o].stage = "filtered"
                       THEN [listed EXCEPT ![o].began = @ \cup {w}] ELSE listed
     \/ /\ ProcessOf[w] \in Connected /\ ~OrderLockFree(o)
        /\ worker' = [worker EXCEPT ![w].batch[o] = Null]
        /\ UNCHANGED <<faults, orderLock, lapsed, listed>>
  /\ UNCHANGED <<row, used, paused, runLock, memLock, handed, pulled, doc, late>>
  /\ UNCHANGED reqVars

Loaded(w) == worker[w].batch[worker[w].o]

Fails(w, err) == worker' = [worker EXCEPT ![w].pc = "failed", ![w].err = err]

OnlyWorker ==
  /\ UNCHANGED <<row, used, paused, runLock, memLock, orderLock, lapsed>>
  /\ UNCHANGED reqVars /\ UNCHANGED onecVars

\* validateOrderReadyForExport, and a deficit found by
\* validateOrderStockBeforeExport.
ValidationFails(w) ==
  /\ worker[w].pc = "locked"
  /\ ~IsCancelExportOrder(Loaded(w))
  /\ \/ ~CanBeSubmitted(Loaded(w).items) /\ UNCHANGED faults
     \/ faults > 0 /\ faults' = faults - 1
  /\ Fails(w, "validation")
  /\ OnlyWorker

\* postOnecLpAppClientOrder, with what was loaded.
Call(w) ==
  /\ worker[w].pc = "locked"
  /\ IsCancelExportOrder(Loaded(w)) \/ CanBeSubmitted(Loaded(w).items)
  /\ worker' = [worker EXCEPT ![w].pc = "calling"]
  /\ OnlyWorker /\ UNCHANGED faults

\* 1C saves the order and the answer arrives, from POST or the PUT fallback.
CallSucceeds(w, number, posted) ==
  LET payload == PayloadOf(worker[w].o, Loaded(w))
  IN  /\ worker[w].pc = "calling"
      /\ doc' = [doc EXCEPT ![payload.o] = Saved(payload)]
      /\ worker' = [worker EXCEPT ![w].pc = "answered", ![w].number = number, ![w].posted = posted]
      /\ UNCHANGED <<row, used, faults, paused, runLock, memLock, orderLock, lapsed>>
      /\ UNCHANGED <<listed, handed, pulled, late>> /\ UNCHANGED reqVars

\* The call fails (the stock preflight's calls too): 1C never saw it, or has
\* saved it and the answer is lost or has no lines
\* (assertSavedOrderDidNotLoseItems), or will save it later.
CallFails(w, err) ==
  LET payload == PayloadOf(worker[w].o, Loaded(w))
  IN  /\ worker[w].pc = "calling"
      /\ faults > 0 /\ faults' = faults - 1
      /\ Fails(w, err)
      /\ \/ UNCHANGED <<doc, late>>
         \/ err = "other" /\ doc' = [doc EXCEPT ![payload.o] = Saved(payload)] /\ UNCHANGED late
         \/ err = "other" /\ late' = late \cup {payload} /\ UNCHANGED doc
      /\ UNCHANGED <<row, used, paused, runLock, memLock, orderLock, lapsed>>
      /\ UNCHANGED <<listed, handed, pulled>> /\ UNCHANGED reqVars

\* Mutant of StillQueued: a pushed cancellation is looked up as a submit.
MutCancelNotRecognized(w) ==
  LET r == row[worker[w].o]
  IN  r # Null /\ r.status = "QUEUED" /\ r.syncState = "QUEUED"

\* The row is still in the state of the operation that was pushed.
StillQueued(w) ==
  LET r == row[worker[w].o]
  IN  /\ r # Null
      /\ IF IsCancelExportOrder(Loaded(w))
         THEN r.status = "CANCELLED" /\ r.syncState = "CANCEL_REQUESTED"
         ELSE r.status = "QUEUED" /\ r.syncState = "QUEUED"

\* markOrderExportSuccess: findFirst, then the update by id.
MarkSuccessFind(w) ==
  LET o == worker[w].o
  IN  /\ worker[w].pc = "answered"
      /\ IF StillQueued(w)
         THEN /\ worker' = [worker EXCEPT ![w].pc = "marking",
                   ![w].data = ExportSuccessData(row[o], IsCancelExportOrder(Loaded(w)),
                                                 worker[w].number, worker[w].posted)]
              /\ UNCHANGED <<orderLock, faults>>
         ELSE /\ worker' = [worker EXCEPT ![w] = Continues(w)]
              /\ ReleaseOrderLock(w)
      /\ UNCHANGED <<row, used, paused, runLock, memLock, lapsed>>
      /\ UNCHANGED reqVars /\ UNCHANGED onecVars

MarkSuccessWrite(w) ==
  LET o == worker[w].o
  IN  /\ worker[w].pc = "marking"
      /\ IF row[o] = Null
         THEN /\ Fails(w, "other")
              /\ UNCHANGED <<row, orderLock, faults>>
         ELSE /\ Store(o, Updated(row[o], worker[w].data, {}))
              /\ worker' = [worker EXCEPT ![w] = Continues(w)]
              /\ ReleaseOrderLock(w)
      /\ UNCHANGED <<used, paused, runLock, memLock, lapsed>>
      /\ UNCHANGED reqVars /\ UNCHANGED onecVars

\* The finally of exportOrder, before the failure is recorded.
ReleaseAfterFailure(w) ==
  /\ worker[w].pc = "failed"
  /\ ReleaseOrderLock(w)
  /\ worker' = [worker EXCEPT ![w].pc = "failing", ![w].guard = "none"]
  /\ UNCHANGED <<row, used, paused, runLock, memLock, lapsed>>
  /\ UNCHANGED reqVars /\ UNCHANGED onecVars

\* pauseDirectPushIfNeeded ends the loop when 1C has no such endpoint.
AfterFailure(w) ==
  IF worker[w].err = "unsupported"
  THEN /\ worker' = [worker EXCEPT ![w] = Breaks(w)]
       /\ paused' = [paused EXCEPT ![ProcessOf[w]] = TRUE]
  ELSE /\ worker' = [worker EXCEPT ![w] = Continues(w)]
       /\ UNCHANGED paused

\* markOrderExportFailure: findFirst, then the update by id.
MarkFailureFind(w) ==
  /\ worker[w].pc = "failing"
  /\ IF StillQueued(w)
     THEN /\ worker' = [worker EXCEPT ![w].pc = "erring",
               ![w].data = ExportFailureData(IsCancelExportOrder(Loaded(w)),
                                             worker[w].err = "validation")]
          /\ UNCHANGED paused
     ELSE AfterFailure(w)
  /\ UNCHANGED <<row, used, faults, runLock, memLock, orderLock, lapsed>>
  /\ UNCHANGED reqVars /\ UNCHANGED onecVars

\* When the row is gone the exception ends the whole run.
MarkFailureWrite(w) ==
  LET o == worker[w].o
  IN  /\ worker[w].pc = "erring"
      /\ IF row[o] = Null
         THEN worker' = [worker EXCEPT ![w] = Breaks(w)] /\ UNCHANGED <<row, paused>>
         ELSE Store(o, Updated(row[o], worker[w].data, {})) /\ AfterFailure(w)
      /\ UNCHANGED <<used, faults, runLock, memLock, orderLock, lapsed>>
      /\ UNCHANGED reqVars /\ UNCHANGED onecVars

\* The finally of runOnce.
FinishRun(w) ==
  /\ worker[w].pc = "loop" /\ worker[w].batch = EmptyBatch
  /\ ReleaseLock(w)
  /\ worker' = [worker EXCEPT ![w] = IdleWorker]
  /\ UNCHANGED <<row, used, paused, orderLock, lapsed>>
  /\ UNCHANGED reqVars /\ UNCHANGED onecVars

\* directPushPausedUntil passes.
Unpause(p) ==
  /\ paused[p]
  /\ paused' = [paused EXCEPT ![p] = FALSE]
  /\ UNCHANGED <<row, used, faults, worker, runLock, memLock, orderLock, lapsed>>
  /\ UNCHANGED reqVars /\ UNCHANGED onecVars

----------------------------------------------------------------------------
(* Locks that pass their TTL, and crashes.                                 *)

InUse(use) == IF use THEN Fault ELSE UNCHANGED faults

\* A worker call that is between acquireOrderLock and its release.
Pushing(w, o) ==
  worker[w].o = o /\ worker[w].pc \in {"locked", "calling", "answered", "marking", "failed"}

HoldsRunLock(w) == worker[w].run = "redis"
HoldsOrderLock(w, o) == Pushing(w, o) /\ worker[w].guard = "redis"

ExpireRunLock ==
  LET w == runLock
  IN  /\ w # Null
      /\ InUse(HoldsRunLock(w))
      /\ runLock' = Null
      /\ worker' = IF HoldsRunLock(w) THEN [worker EXCEPT ![w].outlived = TRUE] ELSE worker
      /\ UNCHANGED <<row, used, paused, memLock, orderLock, lapsed>>
      /\ UNCHANGED reqVars /\ UNCHANGED onecVars

ExpireOrderLock(o) ==
  LET w == orderLock[o]
  IN  /\ w # Null
      /\ InUse(HoldsOrderLock(w, o))
      /\ orderLock' = [orderLock EXCEPT ![o] = Null]
      /\ lapsed' = IF HoldsOrderLock(w, o) THEN lapsed \cup {w} ELSE lapsed
      /\ UNCHANGED <<row, used, worker, paused, runLock, memLock>>
      /\ UNCHANGED reqVars /\ UNCHANGED onecVars

\* A process crashes and restarts: its runs are gone, its locks in Redis stay.
\* A push in flight may have reached 1C.
Crash(p) ==
  /\ faults > 0 /\ faults' = faults - 1
  /\ \E w \in Workers : ProcessOf[w] = p /\ worker[w].pc # "idle"
  /\ worker' = [w \in Workers |-> IF ProcessOf[w] = p THEN IdleWorker ELSE worker[w]]
  /\ memLock' = [memLock EXCEPT ![p] = Null]
  /\ paused' = [paused EXCEPT ![p] = FALSE]
  /\ late' = late \cup {PayloadOf(worker[w].o, Loaded(w)) :
                         w \in {v \in Workers : ProcessOf[v] = p /\ worker[v].pc = "calling"}}
  /\ UNCHANGED <<row, used, runLock, orderLock, lapsed, listed, handed, pulled, doc>>
  /\ UNCHANGED reqVars

----------------------------------------------------------------------------
StatusItems == [status: OnecStatuses, number: BOOLEAN]

\* What a snapshot of 1C says; its revisions are what 1C last saw.
SnapshotItems(r) ==
  [baseRevision: {r.revision, r.revision - 1} \ {0}, revision: {Undefined, r.revision, r.revision + 1},
   status: OnecStatuses, syncState: {Undefined, "SYNCED"}, number: BOOLEAN,
   posted: BOOLEAN, hasRealization: BOOLEAN, lines: Versions]

ManagerRequest(c) ==
  \/ \E lines \in Versions : CreateClientOrder(c, lines)
  \/ \E key \in ClientOrderIds, body \in Bodies : PutArrives(c, key, body)
  \/ \E o \in Orders :
       \/ CopyClientOrder(c, o)
       \/ \E lines \in Versions : UpdateClientOrder(c, o, lines)
       \/ SubmitClientOrder(c, o)
       \/ UnqueueClientOrder(c, o)
       \/ RetryClientOrderExport(c, o)
       \/ DeleteDraftClientOrder(c, o)
       \/ RestoreClientOrder(c, o)
       \/ CancelClientOrder(c, o)

OnecRequest(c) ==
  \E o \in Orders :
    \/ HandleOrderAckError(c, o)
    \/ \E ack \in Acks : HandleOrderAckOk(c, o, ack)
    \/ \E item \in StatusItems : HandleOrdersStatusBatch(c, o, item)
    \/ row[o] # Null /\ \E item \in SnapshotItems(row[o]) : HandleOrdersSnapshotBatch(c, o, item)

\* The steps by which a request that has arrived ends.
RequestStep(c) ==
  \/ PutClientOrder(c)
  \/ DeleteItems(c)
  \/ \E o \in Orders : WriteCreate(c, o)
  \/ WriteUpdate(c)
  \/ WriteDelete(c)

\* The steps of a run once it has started.
RunStep(w) ==
  \/ \E o \in Orders : ExportOrder(w, o)
  \/ ValidationFails(w)
  \/ Call(w)
  \/ \E number, posted \in BOOLEAN : CallSucceeds(w, number, posted)
  \/ MarkSuccessFind(w)
  \/ MarkSuccessWrite(w)
  \/ ReleaseAfterFailure(w)
  \/ MarkFailureFind(w)
  \/ MarkFailureWrite(w)
  \/ FinishRun(w)

PullStep(o) ==
  \/ FilterDirectPushLockedOrders(o)
  \/ RespondQueued(o)
  \/ OnecSavesHanded(o)

Next ==
  \/ \E c \in Clients : ManagerRequest(c) \/ OnecRequest(c) \/ RequestStep(c) \/ Abort(c)
  \/ \E w \in Workers :
       \/ \E batch \in SUBSET Orders, kind \in {"redis", "memory"} : RunOnce(w, batch, kind)
       \/ RunStep(w)
       \/ \E err \in {"other", "unsupported"} : CallFails(w, err)
  \/ \E o \in Orders :
       \/ \E includeSent \in BOOLEAN : HandleOrdersQueued(o, includeSent)
       \/ PullStep(o)
       \/ ReconcilePostedLiveOrders(o)
       \/ ExpireOrderLock(o)
  \/ \E payload \in late : OnecSavesLate(payload)
  \/ ExpireRunLock
  \/ \E p \in Processes : Unpause(p) \/ Crash(p)

Spec == Init /\ [][Next]_vars

\* The worker's timer fires again and again in every process, a run and a
\* transaction end, 1C answers, a pause and a TTL pass.  Runs compete for
\* the run lock, so a run over a waiting order is only enabled now and then;
\* candidates are taken oldest first.
Fairness ==
  /\ \A o \in Orders : SF_vars(\E w \in Workers, batch \in SUBSET Orders, kind \in {"redis", "memory"} :
                                o \in batch /\ RunOnce(w, batch, kind))
  /\ \A w \in Workers : WF_vars(RunStep(w))
  /\ \A c \in Clients : WF_vars(RequestStep(c))
  /\ \A p \in Processes : WF_vars(Unpause(p))
  /\ \A o \in Orders : WF_vars(ExpireOrderLock(o) /\ ~HoldsOrderLock(orderLock[o], o))
  /\ WF_vars(ExpireRunLock /\ ~HoldsRunLock(runLock))

FairSpec == Spec /\ Fairness

----------------------------------------------------------------------------
(* Properties.                                                             *)

\* Every variable has its type.
TypeOK ==
  /\ row \in [Orders -> Rows \cup {Null}]
  /\ used \subseteq Orders
  /\ req \in [Clients -> Requests]
  /\ worker \in [Workers -> WorkerCalls]
  /\ paused \in [Processes -> BOOLEAN]
  /\ runLock \in Workers \cup {Null}
  /\ memLock \in [Processes -> Workers \cup {Null}]
  /\ orderLock \in [Orders -> Workers \cup {Null}]
  /\ listed \in [Orders -> Listings \cup {Null}]
  /\ handed \in [Orders -> Payloads \cup {Null}]
  /\ pulled \subseteq Orders
  /\ doc \in [Orders -> Docs \cup {Null}]
  /\ late \subseteq Payloads
  /\ budget \in Nat /\ faults \in Nat
  /\ lapsed \subseteq Workers

\* "clientRevision prevents an older queued retry from rolling newer data
\* back": however PUTs, retries of them and other handlers interleave, the
\* client version of an order never decreases, and one client version never
\* stands for two different payloads (putClientOrderByClientId).
ClientVersionNeverRolledBack ==
  [][\A o \in Orders :
       row[o] # Null /\ row'[o] # Null =>
         /\ row'[o].clientRevision >= row[o].clientRevision
         /\ row'[o].clientRevision = row[o].clientRevision =>
              row'[o].clientPayloadHash = row[o].clientPayloadHash]_vars

\* Concurrent first PUTs of one client order never both get to the INSERT:
\* the advisory lock and the second look at the row leave nothing for the
\* unique index on clientOrderId to refuse (putClientOrderByClientId).
CreateNeverCollides ==
  \A c \in Clients :
    req[c].op = "create" /\ req[c].key # Null => FindByClientOrderId(req[c].key) = Null

\* What keeps two runs apart: the run lock of Redis while its TTL lasts, or
\* the flag of their process; and the order lock of Redis while its TTL lasts.
RunsApart(w, v) ==
  \/ HoldsRunLock(w) /\ HoldsRunLock(v) /\ ~worker[w].outlived /\ ~worker[v].outlived
  \/ worker[w].run = "memory" /\ worker[v].run = "memory" /\ ProcessOf[w] = ProcessOf[v]
OrderApart(w, v, o) ==
  HoldsOrderLock(w, o) /\ HoldsOrderLock(v, o) /\ w \notin lapsed /\ v \notin lapsed

\* Two runs push one order at the same time only when both locks fail to
\* part them: a TTL passed in use, or one of them got past Redis, where a
\* command failed or the client was not open.  A failure at one of the two
\* locks is made good by the other (acquireLock, acquireOrderLock).
PushExclusive ==
  \A w, v \in Workers : \A o \in Orders :
    w # v /\ Pushing(w, o) /\ Pushing(v, o) => ~RunsApart(w, v) /\ ~OrderApart(w, v, o)

\* An order that the pull channel is about to hand to 1C is not one that a
\* run has been pushing under a good lock since before the locks were looked
\* up.  A push that begins after the lookup is not held back, and neither is
\* anything when the lookup fails (filterDirectPushLockedOrders, handleOrdersQueued).
PullSkipsPushedOrders ==
  \A o \in Orders : \A w \in Workers :
    listed[o] # Null /\ listed[o].stage = "filtered" /\ HoldsOrderLock(w, o) /\ w \notin lapsed =>
      w \in listed[o].began

\* An order the API shows as sent, or known in 1C by a number, a date or a
\* posting, has a document in 1C: no order of calls, lost answers, late
\* results and acknowledgements marks an order that 1C never got
\* (markOrderExportSuccess, handleOrderAck).
SentMeansSaved ==
  \A o \in Orders :
    row[o] # Null /\ (KnownIn1C(row[o]) \/ row[o].status = "SENT_TO_1C") => doc[o] # Null

\* Every order that waits for export leaves the queue: it is sent, refused by
\* a check, or taken back, whatever fails or crashes on the way
\* (runOnce, markOrderExportFailure).
QueueDrains ==
  \A o \in Orders : (o \in Candidates) ~> (o \notin Candidates)

----------------------------------------------------------------------------
(* What the repository says and the code does not keep.                    *)

\* deleteDraftClientOrder refuses an order that is already created in 1C:
\* an order that goes away has no document there.
DeletedOrderIsNotIn1C ==
  [][\A o \in Orders : row[o] # Null /\ row'[o] = Null => doc[o] = Null]_vars

\* assertRevision refuses a change based on an outdated version, so the
\* lines of an order never change under one revision.
RevisionNamesLines ==
  [][\A o \in Orders :
       row[o] # Null /\ row'[o] # Null /\ row'[o].items # row[o].items => row'[o].revision # row[o].revision]_vars

\* A snapshot that is rejected does not lose the order's lines
\* (handleOrdersSnapshotBatch).
RejectedSnapshotKeepsLines ==
  \A o \in Orders : row[o] # Null => row[o].items # {}

=============================================================================
