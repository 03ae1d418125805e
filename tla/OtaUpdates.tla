----------------------------- MODULE OtaUpdates -----------------------------
(***************************************************************************)
(* Over-the-air updates of the application (routes/ota.ts), for one        *)
(* platform, channel and runtime version: publishing, editing, the check   *)
(* a phone makes, and the cleanup of old files.                            *)
(*                                                                         *)
(* The files of an update lie in a directory of their own, so an update    *)
(* stands for its files as well.  A rollout below 100 percent is decided   *)
(* by a hash of who asks and what is asked for; the hash is any function.  *)
(* Display versions, notes and commits are text that nothing decides by:   *)
(* they are left out.                                                      *)
(***************************************************************************)
EXTENDS Naturals, FiniteSets

CONSTANTS
  NoUpdate,
  Updates,         \* AppOtaUpdate.updateId
  Phones,
  Identified,      \* the phones that send expo-device-id
  Hashes,          \* the hash functions: [(Phones \cup Updates) \X Updates -> BOOLEAN]
  Rollouts,        \* percentages
  AskedNumbers,    \* otaSequence as a caller may give it, 0 for none
  Publishers,      \* requests of administrators served at the same time
  MaxPublished     \* bound on those requests

ASSUME OtaAssumption == Identified \subseteq Phones /\ AskedNumbers \subseteq Nat

VARIABLES
  bucket,      \* the hash: TRUE for the half that a rollout of 50 percent takes
  ota,         \* the rows by id: [active, rollout, seq, at], at orders them by age (createdAt)
  stored,      \* updates whose files are in the storage
  running,     \* the update each phone runs
  publisher,   \* the requests in progress
  published,
  news,        \* history: phones since whose last check something changed
  revived,     \* history: updates made active while, or after, a cleanup took their files
  rivalled,    \* history: two requests to publish overlapped
  chosen       \* history: updates whose number a caller chose

otas == <<bucket, ota, stored, running, publisher, published, news, revived, rivalled, chosen>>

Ready == [pc |-> "ready"]
RowIds == DOMAIN ota
ActiveIds == {u \in RowIds : ota[u].active}
Highest(S) == IF S = {} THEN 0 ELSE CHOOSE n \in S : \A m \in S : m <= n

OtaInit ==
  /\ bucket \in Hashes
  /\ ota = <<>> /\ stored = {} /\ running = [ph \in Phones |-> NoUpdate]
  /\ publisher = [p \in Publishers |-> Ready] /\ published = 0
  /\ news = {} /\ revived = {} /\ rivalled = FALSE /\ chosen = {}

Serve(p, record) ==
  /\ published < MaxPublished /\ published' = published + 1
  /\ publisher[p] = Ready /\ publisher' = [publisher EXCEPT ![p] = record]
Served(p) == publisher' = [publisher EXCEPT ![p] = Ready]
\* Updates a cleanup in progress is about to take.
Doomed == UNION {publisher[p].left : p \in {q \in Publishers : publisher[q].pc \in {"files", "rows"}}}
\* A change of the rows is news to every phone.
Tell == news' = Phones
Revives(u, active) ==
  revived' = IF active /\ (u \in Doomed \/ u \notin stored) THEN revived \cup {u} ELSE revived

\* resolveOtaSequence: the number the caller asks for, whatever the others have, the number the
\* row has, or the highest one and 1.
NextSequence(u, asked) ==
  IF asked # 0 THEN asked
  ELSE IF u \in RowIds THEN ota[u].seq ELSE 1 + Highest({ota[v].seq : v \in RowIds})

\* POST /publish: the files were uploaded before.
ReadSequence(p, u, active, rollout, asked) ==
  /\ Serve(p, [pc |-> "publish", id |-> u, active |-> active, rollout |-> rollout,
               seq |-> NextSequence(u, asked)])
  /\ chosen' = IF asked # 0 THEN chosen \cup {u} ELSE chosen
  /\ stored' = IF u \in RowIds THEN stored ELSE stored \cup {u}
  /\ rivalled' = (rivalled \/ \E q \in Publishers \ {p} : publisher[q].pc = "publish")
  /\ UNCHANGED <<bucket, ota, running, news, revived>>
PublishOta(p) ==
  LET x == publisher[p]
      at == IF x.id \in RowIds THEN ota[x.id].at ELSE 1 + Highest({ota[v].at : v \in RowIds})
      row == [active |-> x.active, rollout |-> x.rollout, seq |-> x.seq, at |-> at]
  IN
  /\ x.pc = "publish" /\ Served(p) /\ Tell /\ Revives(x.id, x.active)
  /\ ota' = [u \in RowIds \cup {x.id} |-> IF u = x.id THEN row ELSE ota[u]]
  /\ UNCHANGED <<bucket, stored, running, published, rivalled, chosen>>

\* PUT /:id
EditOta(u, active, rollout) ==
  /\ published < MaxPublished /\ published' = published + 1
  /\ u \in RowIds /\ Tell /\ Revives(u, active)
  /\ ota' = [ota EXCEPT ![u].active = active, ![u].rollout = rollout]
  /\ UNCHANGED <<bucket, stored, running, publisher, rivalled, chosen>>

\* Mutant of Asker: the update that runs comes before the device.
MutRunningFirst(ph) == IF running[ph] # NoUpdate THEN running[ph] ELSE IF ph \in Identified THEN ph ELSE NoUpdate

\* Who asks: the device, or the update that runs on it.
Asker(ph) == IF ph \in Identified THEN ph ELSE running[ph]

\* shouldIncludeUpdate
Includes(asker, u) ==
  \/ ota[u].rollout = 100
  \/ asker # NoUpdate /\ ota[u].rollout = 50 /\ bucket[<<asker, u>>]

\* handleUpdateRequest: the newest active update that includes the one who asks.
Selected(ph) ==
  LET S == {u \in ActiveIds : Includes(Asker(ph), u)}
  IN IF S = {} THEN NoUpdate ELSE CHOOSE u \in S : \A v \in S : ota[v].at <= ota[u].at
\* The phone runs what it is sent; a manifest whose files are gone cannot be installed.
Check(ph) ==
  LET u == Selected(ph) IN
  /\ running' = IF u = NoUpdate \/ u \notin stored THEN running ELSE [running EXCEPT ![ph] = u]
  /\ news' = news \ {ph}
  /\ UNCHANGED <<bucket, ota, stored, publisher, published, revived, rivalled, chosen>>

\* All but the newest rows of a set.
Older(T, keep) == {u \in T : Cardinality({v \in T : ota[v].at > ota[u].at}) >= keep}

\* Mutant of CleanupRows: active updates are not left out.
MutAnyRow(keep) == Older(RowIds, keep)

\* POST /cleanup: the rows that are not active, without the newest ones; then the files are
\* deleted one by one, and the rows at the end if no deletion failed.
CleanupRows(keep) == Older(RowIds \ ActiveIds, keep)
ReadCleanup(p, keep, rows) ==
  /\ CleanupRows(keep) # {}
  /\ Serve(p, [pc |-> "files", left |-> CleanupRows(keep), all |-> CleanupRows(keep), rows |-> rows])
  /\ UNCHANGED <<bucket, ota, stored, running, news, revived, rivalled, chosen>>
DeleteFiles(p) ==
  LET x == publisher[p] IN
  /\ x.pc = "files"
  /\ \E u \in x.left, deleted \in BOOLEAN :
       /\ stored' = IF deleted THEN stored \ {u} ELSE stored
       /\ publisher' = [publisher EXCEPT ![p] =
            IF x.left # {u} THEN [x EXCEPT !.left = @ \ {u}, !.rows = @ /\ deleted]
            ELSE IF x.rows /\ deleted THEN [x EXCEPT !.pc = "rows", !.left = x.all] ELSE Ready]
  /\ UNCHANGED <<bucket, ota, running, published, news, revived, rivalled, chosen>>
DeleteRows(p) ==
  LET x == publisher[p] IN
  /\ x.pc = "rows" /\ Served(p) /\ Tell
  /\ ota' = [u \in RowIds \ x.all |-> ota[u]]
  /\ UNCHANGED <<bucket, stored, running, published, revived, rivalled, chosen>>

OtaNext ==
  \/ \E p \in Publishers :
       \/ \E u \in Updates, a \in BOOLEAN, r \in Rollouts, n \in AskedNumbers :
            ReadSequence(p, u, a, r, n)
       \/ PublishOta(p) \/ DeleteFiles(p) \/ DeleteRows(p)
       \/ \E keep \in 0..1, rows \in BOOLEAN : ReadCleanup(p, keep, rows)
  \/ \E u \in Updates, a \in BOOLEAN, r \in Rollouts : EditOta(u, a, r)
  \/ \E ph \in Phones : Check(ph)

OtaSpec == OtaInit /\ [][OtaNext]_otas

(***************************************************************************)
(* Properties                                                              *)
(***************************************************************************)

\* A phone that sends its device id is sent to another update only after something was
\* published, edited or deleted since its last check: the rollout does not move a phone back
\* and forth, however it is changed (shouldIncludeUpdate, handleUpdateRequest).
PhoneSettles == [][\A ph \in Identified : running'[ph] # running[ph] => ph \in news]_otas

\* An active update has its files, unless it was made active again while or after a cleanup took
\* them: the cleanup reads the rows once and never takes the files of an active one.
ActiveUpdateHasFiles == ActiveIds \subseteq stored \cup revived

\* Two updates of a runtime version have the same number only when a caller chose one of the two,
\* or two publications overlapped; cleanups that delete rows in between do no harm.
MayMeet(S, u, v) == u = v \/ u \in S \/ v \in S
NumbersDiffer ==
  rivalled \/ \A u, v \in RowIds : ota[u].seq = ota[v].seq => MayMeet(chosen, u, v)

\* What is offered to phones can be installed, and what the server numbered can be told apart: both
\* hold through publications, edits and cleanups whose steps interleave, but for the updates that
\* were switched on against a cleanup.
ActiveUpdatesAreServed == ActiveUpdateHasFiles /\ NumbersDiffer
=============================================================================
