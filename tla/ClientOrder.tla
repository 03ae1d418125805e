----------------------------- MODULE ClientOrder -----------------------------
(***************************************************************************)
(* The row of a manager's client order and what every handler writes to   *)
(* it.  A handler finds the row, checks it, and then sends one UPDATE by   *)
(* id whose data is computed from what it found.  The data of an UPDATE is *)
(* a record with one entry per column; Undefined is Prisma's `undefined`,  *)
(* a column the statement leaves alone.                                    *)
(*                                                                         *)
(* Lines and header fields are abstracted to versions: a version is what   *)
(* one request body (or one 1C snapshot) says about the whole document.    *)
(* items is the set of versions whose lines are in the order's table; it   *)
(* has one element unless two writers' lines were mixed or lines lost.     *)
(* Dates are abstracted to whether they are set.  The audit journal        *)
(* (appendOrderEvent) is write-only for this component and left out.       *)
(***************************************************************************)
EXTENDS Naturals

CONSTANTS
  ClientOrderIds,  \* the ids mobile clients give their orders
  Versions,     \* the document versions clients and 1C can write
  LinesOk,      \* versions whose active lines have a quantity and a price
  Complete,     \* versions that also have every field 1C requires
  Null,         \* SQL NULL, and a row that does not exist
  Undefined     \* a column an UPDATE leaves alone

ASSUME VersionsAssumption == Complete \subseteq LinesOk /\ LinesOk \subseteq Versions

OrderStatus ==
  {"DRAFT", "QUEUED", "SENT_TO_1C", "CONFIRMED", "PARTIAL", "REJECTED", "CANCELLED"}

OrderSyncState ==
  {"DRAFT", "QUEUED", "SYNCED", "CONFLICT", "ERROR", "CANCEL_REQUESTED"}

\* clientOrderId and clientPayloadHash are Null, and clientRevision 0, for an
\* order that was not created by the mobile client's idempotent PUT.
Rows ==
  [status: OrderStatus, syncState: OrderSyncState, revision: Nat,
   items: SUBSET Versions, clientOrderId: ClientOrderIds \cup {Null},
   clientRevision: Nat, clientPayloadHash: Versions \cup {Null},
   submitRequested: BOOLEAN, number1c: BOOLEAN, sentTo1c: BOOLEAN,
   isPostedIn1c: BOOLEAN, hasRealization: BOOLEAN]

\* The data of an UPDATE.  lines is the version whose lines replace the old
\* ones, Null when the old ones are deleted and none created.
Data ==
  [status: OrderStatus \cup {Undefined}, syncState: OrderSyncState \cup {Undefined},
   revision: Nat \cup {Undefined}, lines: Versions \cup {Null, Undefined},
   clientRevision: Nat \cup {Undefined},
   clientPayloadHash: Versions \cup {Undefined},
   submitRequested: BOOLEAN \cup {Undefined}, number1c: BOOLEAN \cup {Undefined},
   sentTo1c: BOOLEAN \cup {Undefined}, isPostedIn1c: BOOLEAN \cup {Undefined},
   hasRealization: BOOLEAN \cup {Undefined}]

NoData ==
  [status |-> Undefined, syncState |-> Undefined, revision |-> Undefined,
   lines |-> Undefined, clientRevision |-> Undefined,
   clientPayloadHash |-> Undefined, submitRequested |-> Undefined,
   number1c |-> Undefined, sentTo1c |-> Undefined,
   isPostedIn1c |-> Undefined, hasRealization |-> Undefined]

Column(new, old) == IF new = Undefined THEN old ELSE new

\* The lines after the transaction's deleteMany, which saw the lines in
\* seen, and its creates: lines that another transaction committed after
\* deleteMany took its snapshot stay.
ReplacedItems(items, seen, lines) ==
  CASE lines = Undefined -> items
    [] lines = Null      -> items \ seen
    [] OTHER             -> (items \ seen) \cup {lines}

\* tx.order.update: the row as it is now, with the columns of data replaced.
Updated(row, data, seen) ==
  [status            |-> Column(data.status, row.status),
   syncState         |-> Column(data.syncState, row.syncState),
   revision          |-> Column(data.revision, row.revision),
   items             |-> ReplacedItems(row.items, seen, data.lines),
   clientOrderId     |-> row.clientOrderId,
   clientRevision    |-> Column(data.clientRevision, row.clientRevision),
   clientPayloadHash |-> Column(data.clientPayloadHash, row.clientPayloadHash),
   submitRequested   |-> Column(data.submitRequested, row.submitRequested),
   number1c          |-> Column(data.number1c, row.number1c),
   sentTo1c          |-> Column(data.sentTo1c, row.sentTo1c),
   isPostedIn1c      |-> Column(data.isPostedIn1c, row.isPostedIn1c),
   hasRealization    |-> Column(data.hasRealization, row.hasRealization)]

----------------------------------------------------------------------------
(* What the handlers ask of the row they found.                            *)

IsOrderQueued(row) == row.syncState \in {"QUEUED", "CANCEL_REQUESTED"}

EnsureEditable(row) == ~row.hasRealization

LinesCanBeSubmitted(items) == items # {} /\ items \subseteq LinesOk

CanBeSubmitted(items) == items # {} /\ items \subseteq Complete

KnownIn1C(row) == row.isPostedIn1c \/ row.number1c \/ row.sentTo1c

IsCancelExportOrder(row) ==
  row.status = "CANCELLED" \/ row.syncState = "CANCEL_REQUESTED"

\* The rows loadExportCandidates selects.
IsExportable(row) ==
  \/ row.status = "QUEUED" /\ row.syncState = "QUEUED"
  \/ row.status = "CANCELLED" /\ row.syncState = "CANCEL_REQUESTED"

\* The rows handleOrdersQueued selects.
IsPullable(row, includeSent) ==
  /\ row.status \in {"QUEUED", "CANCELLED"} \cup (IF includeSent THEN {"SENT_TO_1C"} ELSE {})
  /\ row.syncState \in {"QUEUED", "CANCEL_REQUESTED"} \cup (IF includeSent THEN {"SYNCED"} ELSE {})

----------------------------------------------------------------------------
(* What the handlers write.  row is the row the handler found.             *)

NewOrder(lines, clientOrderId) ==
  [status |-> "DRAFT", syncState |-> "DRAFT", revision |-> 1,
   items |-> IF lines = Null THEN {} ELSE {lines}, clientOrderId |-> clientOrderId, clientRevision |-> 0, clientPayloadHash |-> Null, submitRequested |-> FALSE,
   number1c |-> FALSE, sentTo1c |-> FALSE, isPostedIn1c |-> FALSE,
   hasRealization |-> FALSE]

ResolveUpdatedOrderQueueState(status) ==
  IF status \in {"SENT_TO_1C", "QUEUED"} THEN "QUEUED" ELSE "DRAFT"

UpdateData(row, lines) ==
  LET state == ResolveUpdatedOrderQueueState(row.status)
  IN  [NoData EXCEPT !.revision = row.revision + 1, !.status = state,
                     !.syncState = state, !.lines = lines]

SubmitData(row) ==
  [NoData EXCEPT !.revision = row.revision + 1, !.status = "QUEUED",
                 !.syncState = "QUEUED", !.submitRequested = TRUE]

\* Mutant of UnqueueData: the column is set to NULL as if it were a date.
MutUnqueueNull(row) ==
  [NoData EXCEPT !.revision = row.revision + 1, !.status = "DRAFT",
                 !.syncState = "DRAFT", !.submitRequested = Null]

UnqueueData(row) ==
  [NoData EXCEPT !.revision = row.revision + 1, !.status = "DRAFT",
                 !.syncState = "DRAFT", !.submitRequested = FALSE]

RetryData(row) ==
  [NoData EXCEPT !.revision = row.revision + 1, !.status = "QUEUED",
                 !.syncState = "QUEUED", !.sentTo1c = FALSE]

RestoreData(row) ==
  [NoData EXCEPT !.revision = row.revision + 1, !.status = "DRAFT",
                 !.syncState = "DRAFT"]

CancelData(row) ==
  IF IsOrderQueued(row)
  THEN UnqueueData(row)
  ELSE [NoData EXCEPT !.revision = row.revision + 1, !.status = "CANCELLED",
                      !.syncState = IF row.status # "DRAFT" THEN "CANCEL_REQUESTED" ELSE "SYNCED"]

CanDeleteLocal(row) == row.status \in {"DRAFT", "QUEUED", "CANCELLED"} /\ ~KnownIn1C(row)

\* putClientOrderByClientId: whether the new version goes to the queue.
ShouldQueue(row, intent) ==
  \/ intent = "SUBMIT"
  \/ row # Null /\ (row.submitRequested \/ row.status \in {"QUEUED", "SENT_TO_1C"})

PutData(row, body) ==
  LET queue == ShouldQueue(row, body.intent)
  IN  [NoData EXCEPT !.revision = IF row = Null THEN 1 ELSE row.revision + 1,
                     !.clientRevision = body.clientRevision,
                     !.clientPayloadHash = body.lines,
                     !.status = IF queue THEN "QUEUED" ELSE "DRAFT",
                     !.syncState = IF queue THEN "QUEUED" ELSE "DRAFT",
                     !.submitRequested = queue,
                     !.lines = body.lines]

\* The worker's two ways to record the outcome of a push.
ExportSuccessData(row, cancel, number, posted) ==
  [NoData EXCEPT !.revision = row.revision + 1,
                 !.status = IF cancel THEN "CANCELLED" ELSE "SENT_TO_1C",
                 !.syncState = "SYNCED",
                 !.number1c = IF number THEN TRUE ELSE Undefined,
                 !.sentTo1c = TRUE,
                 !.isPostedIn1c = IF cancel THEN Undefined ELSE posted]

\* Mutant of ExportFailureData: every attempt stamps sentTo1cAt.
MutFailureStamps(cancel, validation) ==
  [NoData EXCEPT !.syncState =
     IF validation THEN "ERROR" ELSE IF cancel THEN "CANCEL_REQUESTED" ELSE "QUEUED",
                 !.sentTo1c = TRUE]

ExportFailureData(cancel, validation) ==
  [NoData EXCEPT !.syncState =
     IF validation THEN "ERROR" ELSE IF cancel THEN "CANCEL_REQUESTED" ELSE "QUEUED"]

\* handleOrderAck; revision is the one read before the transaction.
AckErrorData(revision) ==
  [NoData EXCEPT !.revision = revision + 1, !.status = "QUEUED",
                 !.syncState = "ERROR", !.sentTo1c = FALSE]

AckOkData(revision, ack) ==
  [NoData EXCEPT !.revision = revision + 1, !.status = ack.status,
                 !.syncState = "SYNCED",
                 !.number1c = IF ack.number THEN TRUE ELSE Undefined,
                 !.sentTo1c = TRUE, !.isPostedIn1c = ack.posted]

\* handleOrdersStatusBatch, one item.
StatusData(row, item) ==
  [NoData EXCEPT !.revision = row.revision + 1, !.status = item.status,
                 !.syncState = "SYNCED",
                 !.isPostedIn1c = IF item.status = "CONFIRMED" THEN TRUE ELSE Undefined,
                 !.number1c = IF item.number THEN TRUE ELSE Undefined]

\* handleOrdersSnapshotBatch, one item.
IsAckAlignedSnapshot(row, item) ==
  /\ row.syncState = "SYNCED"
  /\ row.status \in {"SENT_TO_1C", "CONFIRMED", "CANCELLED"}
  /\ item.revision = row.revision
  /\ item.baseRevision + 1 = row.revision

SnapshotConflicts(row, item) ==
  item.baseRevision # row.revision /\ ~IsAckAlignedSnapshot(row, item)

SnapshotDeferred(row) ==
  row.status = "QUEUED" \/ row.syncState \in {"QUEUED", "ERROR", "CONFLICT"}

SnapshotConflictData == [NoData EXCEPT !.syncState = "CONFLICT"]

SnapshotErrorData == [NoData EXCEPT !.syncState = "ERROR"]

\* The error thrown while lines are being replaced is caught inside the
\* transaction, after deleteMany: the deletion is committed with it.
SnapshotLinesErrorData == [SnapshotErrorData EXCEPT !.lines = Null]

SnapshotData(row, item) ==
  [NoData EXCEPT !.revision = IF item.revision = Undefined THEN row.revision + 1 ELSE item.revision,
                 !.status = item.status,
                 !.syncState = IF item.syncState = Undefined THEN "SYNCED" ELSE item.syncState,
                 !.number1c = IF item.number THEN TRUE ELSE Undefined,
                 !.isPostedIn1c = item.posted,
                 !.hasRealization = item.hasRealization,
                 !.lines = item.lines]

\* reconcilePostedLiveOrdersInBackground, whose updateMany is one statement.
NeedsReconcile(row) ==
  ~row.isPostedIn1c \/ row.status # "CONFIRMED" \/ row.syncState # "SYNCED"

ReconcileData ==
  [NoData EXCEPT !.isPostedIn1c = TRUE, !.status = "CONFIRMED", !.syncState = "SYNCED"]
=============================================================================
