------------------------------ MODULE Tracking ------------------------------
(***************************************************************************)
(* Location tracking of one user (routes/tracking.ts): start and stop a    *)
(* route, upload batches of points from the app or, with a device token,   *)
(* from the phone's background service, issue and revoke device tokens.    *)
(*                                                                         *)
(* Every transaction reads the routes and writes by id what follows from   *)
(* them; at READ COMMITTED two of them may read the same state.  A client  *)
(* that gets no answer sends its points again.                             *)
(***************************************************************************)
EXTENDS Naturals, FiniteSets, Sequences, SequencesExt

CONSTANTS
  Points,            \* points a client may send
  WithId,            \* those that carry a clientPointId; it is optional
  Batches,           \* the batches they send them in
  RecordedAt, Place,         \* recordedAt and position of a point
  IsStop,            \* eventType is STOP
  Accurate,          \* accuracy is at most DEFAULT_MAX_ACCURACY_METERS
  Times,             \* instants of recordedAt and of the server's clock
  Alive, Moving,     \* STATIONARY_ALIVE_INTERVAL_MS and MIN_MOVING_INTERVAL_MS
  Installs,          \* installations of the app
  Devices,           \* requests served at the same time
  MaxRoutes, MaxTokens, MaxUploads   \* bounds

\* POST /points takes an array that is not empty.
ASSUME TrackingAssumption ==
  /\ RecordedAt \in [Points -> Nat] /\ Times \subseteq Nat
  /\ \A b \in Batches : b \in Seq(Points) /\ b # <<>>

VARIABLES
  route,      \* the user's routes, each with its points
  token,      \* the device tokens, in the order of their creation
  device,     \* the transactions in progress
  uploads,
  acked,      \* history: points whose upload was answered with success
  overtaken   \* history: a transaction wrote by what another had changed since

tracking == <<route, token, device, uploads, acked, overtaken>>

Waiting == [pc |-> "idle"]
LatestOf(S) == CHOOSE t \in S : \A u \in S : u <= t
EarliestOf(S) == CHOOSE t \in S : \A u \in S : t <= u
TimesOf(ps) == {RecordedAt[p] : p \in ps}

TrackingInit ==
  /\ route = <<>> /\ token = <<>>
  /\ device = [d \in Devices |-> Waiting]
  /\ uploads = 0 /\ acked = {} /\ overtaken = FALSE

ActiveIn(routes) == {r \in 1..Len(routes) : routes[r].status = "ACTIVE"}
\* findFirst by startedAt, the newest first.
CurrentIn(routes) ==
  IF ActiveIn(routes) = {} THEN 0
  ELSE CHOOSE r \in ActiveIn(routes) : \A q \in ActiveIn(routes) : routes[q].started <= routes[r].started

NewRoute(t, ps) == [status |-> "ACTIVE", started |-> t, ended |-> 0, points |-> ps]
clampRouteEndAt(r, t) == IF t < r.started THEN r.started ELSE t
Complete(r, read, t) == [r EXCEPT !.status = "COMPLETED", !.ended = clampRouteEndAt(read, t)]
\* ensureRouteStartedAtCoversPoint: judged by the row read, written to the row found.
Cover(r, read, t) == IF t >= read.started THEN r ELSE [r EXCEPT !.started = t]

Enter(d, record) ==
  /\ device[d] = Waiting /\ uploads < MaxUploads /\ uploads' = uploads + 1
  /\ device' = [device EXCEPT ![d] = record]
  /\ UNCHANGED <<route, token, acked, overtaken>>

Leave(d) == device' = [device EXCEPT ![d] = Waiting]
Read(d) == device[d].routes
Overtakes(d) == overtaken' = (overtaken \/ route # Read(d))

\* POST /sessions/start: the active route or a new one.
StartRead(d, t) == Enter(d, [pc |-> "start", t |-> t, routes |-> route])
StartWrite(d) ==
  /\ device[d].pc = "start"
  /\ \/ CurrentIn(Read(d)) # 0 /\ UNCHANGED route
     \/ /\ CurrentIn(Read(d)) = 0 /\ Len(route) < MaxRoutes
        /\ route' = Append(route, NewRoute(device[d].t, {}))
  /\ Overtakes(d) /\ Leave(d) /\ UNCHANGED <<token, uploads, acked>>

\* POST /sessions/stop ends a route with its last point, or now without points.
StopRead(d, r, t) == Enter(d, [pc |-> "stop", r |-> r, t |-> t, routes |-> route])
StopWrite(d) ==
  LET x == device[d]
      r == IF x.r = 0 THEN CurrentIn(x.routes) ELSE x.r
      old == x.routes[r]
      ats == TimesOf(old.points)
      begun(row) == IF ats = {} THEN row ELSE Cover(row, old, EarliestOf(ats))
  IN  /\ x.pc = "stop"
      /\ route' = IF r = 0 \/ r > Len(x.routes) \/ old.status # "ACTIVE" THEN route
                  ELSE [route EXCEPT ![r] =
                          Complete(begun(@), begun(old), IF ats = {} THEN x.t ELSE LatestOf(ats))]
      /\ Overtakes(d) /\ Leave(d) /\ UNCHANGED <<token, uploads, acked>>

-----------------------------------------------------------------------------
(* Uploads: POST /points and POST /native/points                             *)

UploadRead(d, batch, r, new, end) ==
  Enter(d, [pc |-> "upload", batch |-> batch, r |-> r, new |-> new, end |-> end, routes |-> route])

Distance(p, q) == IF Place[p] < Place[q] THEN Place[q] - Place[p] ELSE Place[p] - Place[q]
Elapsed(prev, p) == IF RecordedAt[p] < RecordedAt[prev] THEN 0 ELSE RecordedAt[p] - RecordedAt[prev]
\* Closer than 5 m within the alive interval, or than 12 m within the moving one.
IsJitter(prev, p) ==
  \/ Distance(prev, p) < 1 /\ Elapsed(prev, p) < Alive
  \/ Distance(prev, p) < 2 /\ Elapsed(prev, p) < Moving

Stored(routes) == UNION {routes[r].points : r \in 1..Len(routes)}

\* The newest point of a route, by recordedAt.
LastPoint(ps) ==
  IF ps = {} THEN <<>> ELSE <<CHOOSE p \in ps : RecordedAt[p] = LatestOf(TimesOf(ps))>>

\* Mutant of Rejects: a stop at the last place is jitter.
MutStopsToo(prev, p) == prev # <<>> /\ IsJitter(Last(prev), p)

Rejects(prev, p) == prev # <<>> /\ ~IsStop[p] /\ IsJitter(Last(prev), p)

\* A point that is known, or comes twice, by its id, or is inexact, or is jitter.
Drops(batch, i, known, prev) ==
  \/ batch[i] \in WithId /\ batch[i] \in known \cup {batch[j] : j \in 1..(i - 1)}
  \/ ~Accurate[batch[i]]
  \/ Rejects(prev, batch[i])

\* What is left of the first points of a batch, and of all of them.
Filtered(batch, known, last) ==
  LET kept[i \in 0..Len(batch)] ==
        IF i = 0 THEN <<>>
        ELSE IF Drops(batch, i, known, last \o kept[i - 1]) THEN kept[i - 1]
        ELSE Append(kept[i - 1], batch[i])
  IN  kept
Filter(batch, known, last) == ToSet(Filtered(batch, known, last)[Len(batch)])

\* The route an upload goes to, by the routes it read: the one named, unless
\* it is closed and the upload does not close it; else the active one; 0 is a
\* new one.
Target(x) ==
  LET named == IF x.r \in 1..Len(x.routes) /\ (x.routes[x.r].status = "ACTIVE" \/ x.end)
               THEN x.r ELSE 0
  IN  IF named # 0 \/ x.new THEN named ELSE CurrentIn(x.routes)

\* startNewRoute closes the active route first.
ClosePrevious(x, routes) ==
  LET prev == CurrentIn(x.routes) IN
  IF Target(x) = 0 /\ x.new /\ prev # 0
  THEN [routes EXCEPT ![prev] = Complete(@, x.routes[prev], RecordedAt[x.batch[1]])]
  ELSE routes

\* createMany with skipDuplicates: a clientPointId is unique.  A point without
\* one is stored again, and may come into another route.
Insert(routes, r, kept) == [routes EXCEPT ![r].points = @ \cup (kept \ (Stored(routes) \cap WithId))]

UploadWrite(d, lost) ==
  LET x == device[d]
      t == Target(x)
      saved == IF t = 0 THEN {} ELSE x.routes[t].points
      kept == Filter(x.batch, Stored(x.routes), LastPoint(saved))
      closed == ClosePrevious(x, route)
      first == IF kept = {} THEN RecordedAt[x.batch[1]] ELSE EarliestOf(TimesOf(kept))
      cover(row) == IF kept \cup saved = {} THEN row
                    ELSE Cover(row, x.routes[t], EarliestOf(TimesOf(kept \cup saved)))
      begun == IF t = 0 THEN Append(closed, NewRoute(first, {}))
               ELSE [closed EXCEPT ![t] = cover(@)]
      r == IF t = 0 THEN Len(begun) ELSE t
      filled == Insert(begun, r, kept)
      ends == x.end /\ (t = 0 \/ x.routes[t].status = "ACTIVE")
      until == IF kept = {} THEN RecordedAt[Last(x.batch)] ELSE LatestOf(TimesOf(kept))
  IN  /\ x.pc = "upload" /\ Len(begun) <= MaxRoutes
      /\ route' = IF ends
                  THEN [filled EXCEPT ![r] =
                          Complete(@, IF t = 0 THEN @ ELSE cover(x.routes[t]), until)]
                  ELSE filled
      /\ acked' = IF lost THEN acked ELSE acked \cup ToSet(x.batch)
      /\ Overtakes(d) /\ Leave(d) /\ UNCHANGED <<token, uploads>>

-----------------------------------------------------------------------------
(* Device tokens                                                             *)

LiveTokens(i) == {k \in 1..Len(token) : token[k].install = i /\ ~token[k].revoked}

\* POST /native-token counts the recent tokens of the installation outside its
\* transaction: three are the recovery allowance ...
TokenRead(d, i) ==
  /\ Cardinality({k \in 1..Len(token) : token[k].install = i}) < 3
  /\ Enter(d, [pc |-> "token", i |-> i, tokens |-> token])

\* ... which then revokes them and adds the new one.
TokenWrite(d) ==
  LET x == device[d] IN
  /\ x.pc = "token" /\ Len(token) < MaxTokens
  /\ token' = Append([k \in 1..Len(token) |->
                        [token[k] EXCEPT !.revoked = @ \/ (token[k].install = x.i /\ k <= Len(x.tokens))]],
                     [install |-> x.i, revoked |-> FALSE])
  /\ overtaken' = (overtaken \/ token # x.tokens)
  /\ Leave(d) /\ UNCHANGED <<route, uploads, acked>>

\* DELETE /native-token, of one installation or of all.
RevokeTokens(S) ==
  /\ uploads < MaxUploads /\ uploads' = uploads + 1
  /\ token' = [k \in 1..Len(token) |-> [token[k] EXCEPT !.revoked = @ \/ token[k].install \in S]]
  /\ UNCHANGED <<route, device, acked, overtaken>>

TrackingNext ==
  \E d \in Devices :
    \/ \E t \in Times : StartRead(d, t) \/ \E r \in 0..MaxRoutes : StopRead(d, r, t)
    \/ \E b \in Batches, r \in 0..MaxRoutes, new, end \in BOOLEAN : UploadRead(d, b, r, new, end)
    \/ StartWrite(d) \/ StopWrite(d) \/ TokenWrite(d)
    \/ \E lost \in BOOLEAN : UploadWrite(d, lost)
    \/ \E i \in Installs : TokenRead(d, i) \/ RevokeTokens({i})
    \/ RevokeTokens(Installs)

TrackingSpec == TrackingInit /\ [][TrackingNext]_tracking

-----------------------------------------------------------------------------
(* An answered upload is not lost: an exact STOP point it carried is in a    *)
(* route, whatever batches were sent again and whatever uploads ran at the   *)
(* same time.  A point with an id is not in two.                             *)
AckedStopsAreKept ==
  /\ \A p \in acked : IsStop[p] /\ Accurate[p] => p \in Stored(route)
  /\ \A r, q \in 1..Len(route) : route[r].points \cap route[q].points \cap WithId # {} => r = q

(* As long as no two transactions of the user overlap there is one active    *)
(* route at most, a route starts no later than its points and ends no        *)
(* earlier than it starts, and an installation has one live token at most.   *)
OneRouteAtATime ==
  ~overtaken =>
    /\ \A r, q \in ActiveIn(route) : r = q
    /\ \A r \in 1..Len(route) :
         /\ \A t \in TimesOf(route[r].points) : route[r].started <= t
         /\ route[r].status = "COMPLETED" => route[r].started <= route[r].ended
    /\ \A i \in Installs : \A k, l \in LiveTokens(i) : k = l

(* What the app was told is stored, and stored in order.                     *)
TrackIsSound == AckedStopsAreKept /\ OneRouteAtATime
=============================================================================
