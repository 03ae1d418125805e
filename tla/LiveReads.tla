------------------------------ MODULE LiveReads ------------------------------
(***************************************************************************)
(* Reads of 1C behind a cache in memory, a cache in Redis and a circuit    *)
(* breaker (clientOrders.cache), as the day's summary of a manager uses    *)
(* them, with its last good value kept for when 1C is away.                *)
(*                                                                         *)
(* One key of the cache.  A value is the time at which 1C gave it.  Redis  *)
(* may fail at every call, which nobody notices.                           *)
(***************************************************************************)
EXTENDS Integers

CONSTANTS
  Readers,        \* GET /today-summary in flight
  Ttl,             \* CLIENT_ORDERS_CACHE_TTL.todaySummary
  StaleFor,        \* how long memory keeps a value for an open circuit
  CircuitTtl,      \* how long a failure keeps the circuit open
  FallbackTtl,     \* CLIENT_ORDERS_TODAY_SUMMARY_STALE_TTL_SECONDS
  Cooldown,        \* CLIENT_ORDERS_TODAY_SUMMARY_MANUAL_COOLDOWN_MS
  MaxTime,         \* bound on the clock
  Nothing

ASSUME LiveReadsAssumption ==
  /\ {Ttl, StaleFor, CircuitTtl, FallbackTtl, Cooldown, MaxTime} \subseteq Nat
  /\ 0 < Ttl /\ Ttl <= StaleFor
  /\ (Ttl - 1) + (StaleFor - 1) <= FallbackTtl     \* the oldest value of an open circuit

VARIABLES
  now,
  memory,          \* memoryReads: [value, fresh, stale]
  redis,           \* the same key in Redis: [value, until]
  circuit,         \* memoryCircuit and its key in Redis: [memory, redis], open until
  fallback,        \* today-summary:stale: [memory, redis], values
  request,         \* request |-> where it is, or Nothing
  manual,          \* the request of clientOrdersTodaySummaryManualRefreshes
  manualAt,        \* clientOrdersTodaySummaryManualRefreshAt
  answer           \* history: the answer of the last step: [age, stale, from]

reads == <<now, memory, redis, circuit, fallback, request, manual, manualAt, answer>>

ReadsInit ==
  /\ now = 1
  /\ memory = Nothing /\ redis = Nothing
  /\ circuit = [memory |-> 0, redis |-> 0]
  /\ fallback = [memory |-> Nothing, redis |-> Nothing]
  /\ request = [r \in Readers |-> Nothing]
  /\ manual = Nothing /\ manualAt = Nothing
  /\ answer = Nothing

Standing(r, place) == request[r] = place

----------------------------------------------------------------------------
(* The answer: getClientOrdersTodaySummaryFresh                            *)

\* A forced refresh answers those who joined it too.
Party(rs) == rs \cup IF manual \in rs THEN {r \in Readers : Standing(r, "join")} ELSE {}

Answered(rs, a) ==
  /\ answer' = a
  /\ request' = [r \in Readers |-> IF r \in Party(rs) THEN Nothing ELSE request[r]]
  /\ manual' = IF manual \in rs THEN Nothing ELSE manual

\* A value that is not stale becomes the fallback.
Give(rs, value, from) ==
  LET stale == now - value > Ttl
  IN  /\ Answered(rs, [age |-> now - value, stale |-> stale, from |-> from])
      /\ IF stale THEN UNCHANGED fallback
         ELSE \E kept \in {value, fallback.redis} : fallback' = [memory |-> value, redis |-> kept]

Usable(value) == value # Nothing /\ now - value <= FallbackTtl

\* 1C did not answer: the last good value, if it is not too old, or the error.
Refuse(rs) ==
  \/ /\ Usable(fallback.memory)
     /\ Answered(rs, [age |-> now - fallback.memory, stale |-> TRUE, from |-> "fallback"])
     /\ fallback' = fallback
  \/ /\ ~Usable(fallback.memory) /\ Usable(fallback.redis)
     /\ Answered(rs, [age |-> now - fallback.redis, stale |-> TRUE, from |-> "fallback"])
     /\ fallback' = [fallback EXCEPT !.memory = fallback.redis]
  \/ /\ ~Usable(fallback.memory)
     /\ Answered(rs, Nothing)
     /\ fallback' = [fallback EXCEPT !.memory = Nothing]

----------------------------------------------------------------------------
(* readThroughClientOrdersCache                                            *)

\* Mutant of Remembered: memory keeps a value as fresh for as long as stale.
MutLongFresh(value) == [value |-> value, fresh |-> now + StaleFor, stale |-> now + StaleFor]

\* rememberMemoryValue
Remembered(value) == [value |-> value, fresh |-> now + Ttl, stale |-> now + StaleFor]

\* The summary is asked for, or asked for anew, which counts once per cooldown.
Ask(r, force) ==
  LET again == force /\ manualAt # Nothing /\ now - manualAt < Cooldown
      fresh == memory # Nothing /\ memory.fresh > now
  IN  /\ request[r] = Nothing
      /\ UNCHANGED <<now, redis, circuit>>
      /\ \/ /\ force /\ manual # Nothing
            /\ request' = [request EXCEPT ![r] = "join"]
            /\ answer' = Nothing
            /\ UNCHANGED <<memory, fallback, manual, manualAt>>
         \/ /\ force /\ manual = Nothing /\ ~again
            /\ manualAt' = now /\ manual' = r
            /\ request' = [request EXCEPT ![r] = "circuit"]
            /\ answer' = Nothing
            /\ UNCHANGED <<memory, fallback>>
         \/ /\ ~force \/ (manual = Nothing /\ again)
            /\ UNCHANGED manualAt
            /\ IF fresh
               THEN Give({r}, memory.value, "memory") /\ UNCHANGED memory
               ELSE /\ memory' = Nothing
                    /\ request' = [request EXCEPT ![r] = "redis"]
                    /\ answer' = Nothing
                    /\ UNCHANGED <<fallback, manual>>

\* cacheGet; Redis drops what has expired.
ReadRedis(r) ==
  /\ Standing(r, "redis")
  /\ \/ /\ redis # Nothing /\ redis.until > now
        /\ memory' = Remembered(redis.value)
        /\ Give({r}, redis.value, "redis")
     \/ /\ request' = [request EXCEPT ![r] = "circuit"]
        /\ answer' = Nothing
        /\ UNCHANGED <<memory, fallback, manual>>
  /\ UNCHANGED <<now, redis, circuit, manualAt>>

\* An open circuit leaves what memory still has; only a forced request finds
\* something there, as looking for a fresh value removed the stale one.
CheckCircuit(r) ==
  LET kept == memory # Nothing /\ memory.stale > now
      open == circuit.memory > now \/ circuit.redis > now
  IN  /\ Standing(r, "circuit")
      /\ \/ /\ open /\ kept
            /\ Give({r}, memory.value, "open")
            /\ UNCHANGED memory
         \/ /\ open /\ ~kept
            /\ memory' = Nothing
            /\ Refuse({r})
         \/ /\ circuit.memory <= now          \* and Redis has no circuit, or fails
            /\ request' = [request EXCEPT ![r] = "load"]
            /\ answer' = Nothing
            /\ UNCHANGED <<memory, fallback, manual>>
      /\ UNCHANGED <<now, redis, circuit, manualAt>>

\* pendingReads: all who wait share one call of 1C.
Loading == {r \in Readers : Standing(r, "load")}

LoadAnswered ==
  /\ Loading # {}
  /\ memory' = Remembered(now)
  /\ redis' \in {redis, [value |-> now, until |-> now + Ttl]}
  /\ Give(Loading, now, "live")
  /\ UNCHANGED <<now, circuit, manualAt>>

\* shouldOpenClientOrdersOnecCircuit: a timeout does not open the circuit.
LoadFailed(timeout) ==
  /\ Loading # {}
  /\ IF timeout THEN circuit' = circuit
     ELSE \E noted \in {circuit.redis, now + CircuitTtl} :
            circuit' = [memory |-> now + CircuitTtl, redis |-> noted]
  /\ Refuse(Loading)
  /\ UNCHANGED <<now, memory, redis, manualAt>>

----------------------------------------------------------------------------
\* Redis drops what has expired; so, to keep the states few, do a circuit that
\* has closed and a cooldown that is over.
Tick ==
  /\ now < MaxTime /\ now' = now + 1 /\ answer' = Nothing
  /\ redis' = IF redis # Nothing /\ redis.until <= now' THEN Nothing ELSE redis
  /\ circuit' = [c \in DOMAIN circuit |-> IF circuit[c] <= now' THEN 0 ELSE circuit[c]]
  /\ manualAt' = IF manualAt # Nothing /\ now' - manualAt >= Cooldown THEN Nothing ELSE manualAt
  /\ UNCHANGED <<memory, fallback, request, manual>>

\* The process is started again; Redis keeps what it has.
Restart ==
  /\ memory' = Nothing
  /\ circuit' = [circuit EXCEPT !.memory = 0]
  /\ fallback' = [fallback EXCEPT !.memory = Nothing]
  /\ request' = [r \in Readers |-> Nothing]
  /\ answer' = Nothing
  /\ manual' = Nothing /\ manualAt' = Nothing
  /\ UNCHANGED <<now, redis>>

ReadsNext ==
  \/ \E r \in Readers : \/ \E force \in BOOLEAN : Ask(r, force)
                         \/ ReadRedis(r) \/ CheckCircuit(r)
  \/ LoadAnswered
  \/ \E timeout \in BOOLEAN : LoadFailed(timeout)
  \/ Tick \/ Restart

ReadsSpec == ReadsInit /\ [][ReadsNext]_reads

----------------------------------------------------------------------------
\* While 1C answers, a summary is at most two times to live old: a value may
\* stay in Redis for one and then in memory for another, but memory never gives
\* it back to Redis.  What is older was given because 1C failed, is at most
\* FallbackTtl old and says that it is stale.
AnswersAreRecent ==
  answer # Nothing =>
    /\ answer.from \notin {"open", "fallback"} => answer.age < 2 * Ttl
    /\ answer.age <= FallbackTtl
    /\ answer.age > Ttl => answer.stale

=============================================================================
