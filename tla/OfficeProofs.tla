---------------------------- MODULE OfficeProofs ----------------------------
(***************************************************************************)
(* Proofs about components of the office run: the reads of 1C behind the   *)
(* caches (LiveReads), the hours of an appeal (AppealLabor), the lines of  *)
(* a manager's order (OrderLines), the terms of orders (Marketplace), the  *)
(* routes of a user (Tracking), the reminders of appeals (Appeals), the    *)
(* roles of users (Roles) and who may use a service (ServiceAccess).  Each *)
(* component has an inductive invariant of its own.                        *)
(***************************************************************************)
EXTENDS LiveReads, AppealLabor, OrderLines, Marketplace, Tracking, Appeals, Roles,
        ServiceAccess, FiniteSetTheorems, WellFoundedInduction, TLAPS

-----------------------------------------------------------------------------
(* LiveReads: how old what the caches hold may be.                          *)

\* Redis holds a value for Ttl from the time 1C gave it: nobody writes a value
\* to Redis that did not come from 1C just now.
RedisIsYoung ==
  redis # Nothing => redis.value \in Nat /\ redis.until = redis.value + Ttl

\* Memory gives a value up less than two times to live after 1C gave it, and
\* keeps it for an open circuit for StaleFor after the last read of Redis.
MemoryIsYoung ==
  memory # Nothing =>
    /\ memory.value \in Nat /\ memory.fresh \in Nat /\ memory.stale \in Nat
    /\ memory.fresh < memory.value + 2 * Ttl
    /\ memory.stale < memory.value + Ttl + StaleFor

ReadsInv == now \in Nat /\ RedisIsYoung /\ MemoryIsYoung /\ AnswersAreRecent

\* An answer with a value of a known age (Give): what is more than Ttl old is
\* marked as stale, whoever gave it.
LEMMA GivenIsRecent ==
  ASSUME NEW rs, NEW value \in Nat, NEW from, now \in Nat, Give(rs, value, from),
         now - value <= FallbackTtl,
         from \notin {"open", "fallback"} => now - value < 2 * Ttl
  PROVE  AnswersAreRecent'
<1>1. answer' = [age |-> now - value, stale |-> now - value > Ttl, from |-> from]
  BY DEF Give, Answered
<1>2. /\ answer'.age = now - value /\ answer'.from = from
      /\ answer'.stale = (now - value > Ttl)
  BY <1>1
<1>. QED  BY <1>2 DEF AnswersAreRecent

\* An answer when 1C failed (Refuse): the fallback is not used once it is older
\* than FallbackTtl, and is marked as stale.
LEMMA RefusedIsRecent ==
  ASSUME NEW rs, Refuse(rs)
  PROVE  AnswersAreRecent'
<1>1. CASE answer' = Nothing
  BY <1>1 DEF AnswersAreRecent
<1>2. CASE /\ Usable(fallback.memory)
           /\ answer' = [age |-> now - fallback.memory, stale |-> TRUE, from |-> "fallback"]
  BY <1>2 DEF AnswersAreRecent, Usable
<1>3. CASE /\ Usable(fallback.redis)
           /\ answer' = [age |-> now - fallback.redis, stale |-> TRUE, from |-> "fallback"]
  BY <1>3 DEF AnswersAreRecent, Usable
<1>. QED  BY <1>1, <1>2, <1>3 DEF Refuse, Answered

\* What rememberMemoryValue keeps is young when the value is less than Ttl old.
LEMMA RememberedIsYoung ==
  ASSUME NEW value \in Nat, now \in Nat, now < value + Ttl, memory' = Remembered(value)
  PROVE  MemoryIsYoung'
<1>1. /\ memory'.value = value /\ memory'.fresh = now + Ttl /\ memory'.stale = now + StaleFor
  BY DEF Remembered
<1>. QED  BY <1>1, LiveReadsAssumption DEF MemoryIsYoung

LEMMA ReadsInvStep == ReadsInv /\ [ReadsNext]_reads => ReadsInv'
<1>. SUFFICES ASSUME ReadsInv, [ReadsNext]_reads PROVE ReadsInv'
  OBVIOUS
<1>. USE LiveReadsAssumption
<1>1. ASSUME NEW r \in Readers, NEW force \in BOOLEAN, Ask(r, force) PROVE ReadsInv'
  <2>1. now' = now /\ redis' = redis
    BY <1>1 DEF Ask
  <2>2. CASE answer' = Nothing /\ memory' \in {memory, Nothing}
    BY <2>1, <2>2 DEF ReadsInv, RedisIsYoung, MemoryIsYoung, AnswersAreRecent
  <2>3. CASE memory # Nothing /\ memory.fresh > now /\ memory' = memory
             /\ Give({r}, memory.value, "memory")
    <3>1. memory.value \in Nat /\ now - memory.value < 2 * Ttl - 1
      BY <2>3 DEF ReadsInv, MemoryIsYoung
    <3>2. now - memory.value <= FallbackTtl
      BY <3>1 DEF ReadsInv
    <3>3. AnswersAreRecent'
      BY <2>3, <3>1, <3>2, GivenIsRecent DEF ReadsInv
    <3>. QED  BY <2>1, <2>3, <3>3 DEF ReadsInv, RedisIsYoung, MemoryIsYoung
  <2>. QED  BY <1>1, <2>2, <2>3 DEF Ask
<1>2. ASSUME NEW r \in Readers, ReadRedis(r) PROVE ReadsInv'
  <2>1. now' = now /\ redis' = redis
    BY <1>2 DEF ReadRedis
  <2>2. CASE answer' = Nothing /\ memory' = memory
    BY <2>1, <2>2 DEF ReadsInv, RedisIsYoung, MemoryIsYoung, AnswersAreRecent
  <2>3. CASE redis # Nothing /\ redis.until > now /\ memory' = Remembered(redis.value)
             /\ Give({r}, redis.value, "redis")
    <3>1. redis.value \in Nat /\ now < redis.value + Ttl
      BY <2>3 DEF ReadsInv, RedisIsYoung
    <3>2. AnswersAreRecent'
      BY <2>3, <3>1, GivenIsRecent DEF ReadsInv
    <3>3. MemoryIsYoung'
      BY <2>3, <3>1, RememberedIsYoung DEF ReadsInv
    <3>. QED  BY <2>1, <3>2, <3>3 DEF ReadsInv, RedisIsYoung
  <2>. QED  BY <1>2, <2>2, <2>3 DEF ReadRedis
<1>3. ASSUME NEW r \in Readers, CheckCircuit(r) PROVE ReadsInv'
  <2>1. now' = now /\ redis' = redis
    BY <1>3 DEF CheckCircuit
  <2>2. CASE memory # Nothing /\ memory.stale > now /\ memory' = memory
             /\ Give({r}, memory.value, "open")
    <3>1. memory.value \in Nat /\ now - memory.value <= FallbackTtl
      BY <2>2 DEF ReadsInv, MemoryIsYoung
    <3>2. AnswersAreRecent'
      BY <2>2, <3>1, GivenIsRecent DEF ReadsInv
    <3>. QED  BY <2>1, <2>2, <3>2 DEF ReadsInv, RedisIsYoung, MemoryIsYoung
  <2>3. CASE memory' = Nothing /\ Refuse({r})
    <3>1. AnswersAreRecent'
      BY <2>3, RefusedIsRecent
    <3>. QED  BY <2>1, <2>3, <3>1 DEF ReadsInv, RedisIsYoung, MemoryIsYoung
  <2>4. CASE answer' = Nothing /\ memory' = memory
    BY <2>1, <2>4 DEF ReadsInv, RedisIsYoung, MemoryIsYoung, AnswersAreRecent
  <2>. QED  BY <1>3, <2>2, <2>3, <2>4 DEF CheckCircuit
<1>4. CASE LoadAnswered
  <2>1. now' = now /\ memory' = Remembered(now) /\ Give(Loading, now, "live")
        /\ redis' \in {redis, [value |-> now, until |-> now + Ttl]}
    BY <1>4 DEF LoadAnswered
  <2>2. now \in Nat
    BY DEF ReadsInv
  <2>3. AnswersAreRecent'
    BY <2>1, <2>2, GivenIsRecent
  <2>4. MemoryIsYoung'
    BY <2>1, <2>2, RememberedIsYoung
  <2>5. RedisIsYoung'
    BY <2>1, <2>2 DEF ReadsInv, RedisIsYoung
  <2>. QED  BY <2>1, <2>2, <2>3, <2>4, <2>5 DEF ReadsInv
<1>5. ASSUME NEW timeout \in BOOLEAN, LoadFailed(timeout) PROVE ReadsInv'
  <2>1. now' = now /\ redis' = redis /\ memory' = memory /\ Refuse(Loading)
    BY <1>5 DEF LoadFailed
  <2>2. AnswersAreRecent'
    BY <2>1, RefusedIsRecent
  <2>. QED  BY <2>1, <2>2 DEF ReadsInv, RedisIsYoung, MemoryIsYoung
<1>6. CASE Tick
  <2>1. now' = now + 1 /\ redis' \in {redis, Nothing} /\ memory' = memory /\ answer' = Nothing
    BY <1>6 DEF Tick
  <2>. QED  BY <2>1 DEF ReadsInv, RedisIsYoung, MemoryIsYoung, AnswersAreRecent
<1>7. CASE Restart
  BY <1>7 DEF Restart, ReadsInv, RedisIsYoung, MemoryIsYoung, AnswersAreRecent
<1>8. CASE UNCHANGED reads
  BY <1>8 DEF reads, ReadsInv, RedisIsYoung, MemoryIsYoung, AnswersAreRecent
<1>. QED  BY <1>1, <1>2, <1>3, <1>4, <1>5, <1>6, <1>7, <1>8 DEF ReadsNext

\* Whatever the times to live and however Redis and 1C fail, a summary given
\* while 1C answers is less than two times to live old, and an older one is at
\* most FallbackTtl old and says that it is stale.
THEOREM SummariesAreRecent == ReadsSpec => []AnswersAreRecent
<1>1. ReadsInit => ReadsInv
  BY DEF ReadsInit, ReadsInv, RedisIsYoung, MemoryIsYoung, AnswersAreRecent
<1>2. ReadsInv => AnswersAreRecent
  BY DEF ReadsInv
<1>. QED  BY <1>1, <1>2, ReadsInvStep, PTL DEF ReadsSpec

-----------------------------------------------------------------------------
(* AppealLabor: the entries, what is shown of them and the audit log.        *)

Entry == [hours: Nat, paid: Nat, status: PaymentStatuses, rate: Nat]
Entries == [Workers -> Entry \cup {None}]

\* What a PUT has read before its transaction ...
PutOK(x) ==
  /\ x.off \in BOOLEAN /\ x.wasOff \in BOOLEAN
  /\ x.assignees \subseteq Workers
  /\ DOMAIN x.items \subseteq x.assignees
  /\ \A w \in DOMAIN x.items : x.items[w] \in Items
  /\ \A w \in x.assignees : x.rates[w] \in Nat

\* ... and a payment.
PayOK(x) == x.w \in Workers /\ x.prev \in Entry /\ x.prev.status \notin {"NOT_REQUIRED", "PAID"}

CallerOK(c) ==
  /\ caller[c].pc = "put" =>
       /\ DOMAIN caller[c] = {"pc", "items", "off", "wasOff", "assignees", "rates", "prev"}
       /\ PutOK(caller[c])
  /\ caller[c].pc = "write" => PutOK(caller[c]) /\ caller[c].prev \in Entries
  /\ caller[c].pc = "pay" => PayOK(caller[c])

LaborTypeOK ==
  /\ laborNotRequired \in BOOLEAN /\ overlapped \in BOOLEAN
  /\ assignees \subseteq Workers
  /\ rate \in [Workers -> Nat \cup {None}] /\ departmentRate \in Nat
  /\ entry \in Entries
  /\ DOMAIN ledger = Workers
  /\ DOMAIN caller = Callers /\ \A c \in Callers : CallerOK(c)

\* An entry says itself what mapLaborEntryDto shows of it, and has hours unless
\* labor is switched off.
EntryIsDerived(e, off) ==
  e # None => Shown(e) = mapLaborEntryDto(e, off) /\ (~off => e.hours > 0)

EntriesAreDerived == ~overlapped => \A w \in Workers : EntryIsDerived(entry[w], laborNotRequired)

LaborInv == LaborTypeOK /\ EntriesAreDerived /\ AuditMatchesEntries

LEMMA NoneIsNoEntry == None \notin Entry
BY LaborAssumption DEF Entry, PaymentStatuses

LEMMA PaidHoursType ==
  ASSUME NEW x, PutOK(x), x.prev \in Entries, NEW w \in DOMAIN x.items
  PROVE  /\ x.items[w].hours \in Nat
         /\ PaidHours(x, w) \in Nat
<1>1. w \in Workers /\ x.items[w] \in Items
  BY DEF PutOK
<1>2. x.items[w].hours \in Nat /\ x.items[w].paid \in Nat \cup {None}
  BY <1>1, LaborAssumption DEF Items, Hours
<1>3. x.prev[w] # None => x.prev[w].paid \in Nat
  BY <1>1 DEF Entries, Entry
<1>4. ASSUME NEW accrued \in Nat, NEW status, NEW previous \in Nat
      PROVE  resolveLegacyPaidHours(accrued, status, previous) \in Nat
  BY DEF resolveLegacyPaidHours, Least
<1>. QED  BY <1>2, <1>3, <1>4 DEF PaidHours

LEMMA LockedRateType ==
  ASSUME NEW x, PutOK(x), x.prev \in Entries, NEW w \in DOMAIN x.items
  PROVE  LockedRate(x, w) \in Nat
BY DEF LockedRate, PutOK, Entries, Entry

LEMMA StatusType ==
  ASSUME NEW payable, NEW accrued, NEW paid
  PROVE  deriveLaborPaymentStatus(payable, accrued, paid) \in PaymentStatuses
BY DEF deriveLaborPaymentStatus, PaymentStatuses

\* An entry that PUT writes is what it says: paid hours above the accrued ones
\* refuse the request, and nothing paid for no hours leaves no entry.
LEMMA NextEntryIsDerived ==
  ASSUME NEW x, PutOK(x), x.prev \in Entries, NEW w \in Workers,
         ~x.off /\ w \in DOMAIN x.items => PaidHours(x, w) <= x.items[w].hours
  PROVE  /\ NextEntry(x, w) \in Entry \cup {None}
         /\ EntryIsDerived(NextEntry(x, w), x.off)
<1>1. CASE x.off
  <2>1. NextEntry(x, w) \in {None, [hours |-> 0, paid |-> 0, status |-> "NOT_REQUIRED", rate |-> 0]}
    BY <1>1 DEF NextEntry, StoredEntry, Row
  <2>. DEFINE e == [hours |-> 0, paid |-> 0, status |-> "NOT_REQUIRED", rate |-> 0]
  <2>2. e \in Entry
    BY DEF Entry, PaymentStatuses
  <2>3. Shown(e) = mapLaborEntryDto(e, x.off) \/ e = None
    BY <1>1 DEF Shown, mapLaborEntryDto, Row
  <2>. QED  BY <1>1, <2>1, <2>2, <2>3 DEF EntryIsDerived
<1>2. CASE ~x.off /\ w \notin DOMAIN x.items
  BY <1>2 DEF NextEntry, EntryIsDerived
<1>3. CASE ~x.off /\ w \in DOMAIN x.items
  <2>. DEFINE i == x.items[w]
              r == LockedRate(x, w)
              paid == IF r > 0 THEN PaidHours(x, w) ELSE 0
              s == deriveLaborPaymentStatus(r > 0, i.hours, paid)
              e == [hours |-> i.hours, paid |-> paid, status |-> s, rate |-> r]
  <2>1. i.hours \in Nat /\ r \in Nat /\ paid \in Nat /\ paid <= i.hours
    BY <1>3, PaidHoursType, LockedRateType
  <2>2. NextEntry(x, w) = IF i.hours = 0 /\ paid = 0 THEN None ELSE e
    BY <1>3 DEF NextEntry, StoredEntry, Row
  <2>. HIDE DEF i, r, paid
  <2>3. e \in Entry
    BY <2>1, StatusType DEF Entry
  <2>4. ASSUME e # None PROVE Shown(e) = mapLaborEntryDto(e, x.off)
    <3>1. (IF r > 0 THEN (IF paid < i.hours THEN paid ELSE i.hours) ELSE 0) = paid
      BY <2>1 DEF paid
    <3>2. mapLaborEntryDto(e, x.off) = Row(i.hours, paid, s)
      BY <1>3, <3>1 DEF mapLaborEntryDto, Least
    <3>. QED  BY <2>4, <3>2 DEF Shown
  <2>5. ~(i.hours = 0 /\ paid = 0) => i.hours > 0
    BY <2>1
  <2>. QED  BY <2>2, <2>3, <2>4, <2>5 DEF EntryIsDerived
<1>. QED  BY <1>1, <1>2, <1>3

\* A step of one caller keeps what is known of the others.
LEMMA CallersKept ==
  ASSUME LaborTypeOK, NEW c \in Callers, NEW record,
         caller' = [caller EXCEPT ![c] = record],
         CallerOK(c)'
  PROVE  DOMAIN caller' = Callers /\ \A d \in Callers : CallerOK(d)'
<1>1. DOMAIN caller' = Callers
  BY DEF LaborTypeOK
<1>2. ASSUME NEW d \in Callers, d # c PROVE CallerOK(d)'
  <2>1. caller'[d] = caller[d]
    BY <1>2 DEF LaborTypeOK
  <2>2. CallerOK(d)
    BY DEF LaborTypeOK
  <2>. QED  BY <2>1, <2>2 DEF CallerOK, PutOK, PayOK
<1>. QED  BY <1>1, <1>2

\* The entries and the log are kept where nobody writes them.
LEMMA UnwrittenKept ==
  ASSUME LaborInv, UNCHANGED <<laborNotRequired, entry, ledger, overlapped>>
  PROVE  EntriesAreDerived' /\ AuditMatchesEntries'
BY Zenon DEF LaborInv, EntriesAreDerived, AuditMatchesEntries

LEMMA LaborInvStep == LaborInv /\ [LaborNext]_labor => LaborInv'
<1>. SUFFICES ASSUME LaborInv, [LaborNext]_labor PROVE LaborInv'
  OBVIOUS
<1>0. LaborTypeOK /\ EntriesAreDerived /\ AuditMatchesEntries
  BY DEF LaborInv
<1>1. ASSUME NEW c \in Callers, NEW S \in SUBSET Workers, NEW off \in BOOLEAN,
             NEW items \in [S -> Items], ReadLabor(c, items, off)
      PROVE  LaborInv'
  <2>. DEFINE rates == [w \in assignees |-> resolveEffectiveHourlyRate(rate[w], departmentRate)]
              x == [pc |-> "put", items |-> items, off |-> off, wasOff |-> laborNotRequired,
                    assignees |-> assignees, prev |-> None, rates |-> rates]
  <2>1. /\ UNCHANGED <<laborNotRequired, assignees, rate, departmentRate, entry, ledger, overlapped>>
        /\ caller' = [caller EXCEPT ![c] = x] /\ DOMAIN items \subseteq assignees
    BY <1>1 DEF ReadLabor, Start
  <2>2. \A w \in assignees : rates[w] \in Nat
    BY <1>0 DEF LaborTypeOK, resolveEffectiveHourlyRate
  <2>3. caller'[c] = x
    BY <1>0, <2>1 DEF LaborTypeOK
  <2>. HIDE DEF rates
  <2>4. PutOK(x)
    BY <1>0, <2>1, <2>2 DEF PutOK, LaborTypeOK
  <2>5. DOMAIN x = {"pc", "items", "off", "wasOff", "assignees", "rates", "prev"} /\ x.pc = "put"
    OBVIOUS
  <2>. HIDE DEF x
  <2>6. CallerOK(c)'
    BY <2>3, <2>4, <2>5 DEF CallerOK, PutOK
  <2>7. DOMAIN caller' = Callers /\ \A d \in Callers : CallerOK(d)'
    BY <1>0, <2>1, <2>6, CallersKept
  <2>. QED  BY <1>0, <2>1, <2>7, UnwrittenKept DEF LaborInv, LaborTypeOK
<1>2. ASSUME NEW c \in Callers, LockLabor(c) PROVE LaborInv'
  <2>. DEFINE x == caller[c]
              y == [x EXCEPT !.pc = "write", !.prev = entry]
  <2>1. /\ UNCHANGED <<laborNotRequired, assignees, rate, departmentRate, entry, ledger, overlapped>>
        /\ caller' = [caller EXCEPT ![c] = y] /\ x.pc = "put"
    BY <1>2 DEF LockLabor
  <2>2. caller'[c] = y
    BY <1>0, <2>1 DEF LaborTypeOK
  <2>3. /\ DOMAIN x = {"pc", "items", "off", "wasOff", "assignees", "rates", "prev"}
        /\ PutOK(x)
    BY <1>0, <2>1 DEF LaborTypeOK, CallerOK
  <2>4. /\ y.pc = "write" /\ y.prev = entry /\ y.items = x.items /\ y.off = x.off
        /\ y.wasOff = x.wasOff /\ y.assignees = x.assignees /\ y.rates = x.rates
    BY <2>3
  <2>5. entry \in Entries
    BY <1>0 DEF LaborTypeOK
  <2>. HIDE DEF x, y
  <2>6. CallerOK(c)'
    BY <2>2, <2>3, <2>4, <2>5 DEF CallerOK, PutOK
  <2>7. DOMAIN caller' = Callers /\ \A d \in Callers : CallerOK(d)'
    BY <1>0, <2>1, <2>6, CallersKept
  <2>. QED  BY <1>0, <2>1, <2>7, UnwrittenKept DEF LaborInv, LaborTypeOK
<1>3. ASSUME NEW c \in Callers, WriteLabor(c) PROVE LaborInv'
  <2>. DEFINE x == caller[c]
  <2>1. /\ UNCHANGED <<assignees, rate, departmentRate>>
        /\ caller' = [caller EXCEPT ![c] = Free] /\ x.pc = "write"
    BY <1>3 DEF WriteLabor
  <2>2. CallerOK(c)'
    BY <1>0, <2>1 DEF CallerOK, Free, LaborTypeOK
  <2>3. DOMAIN caller' = Callers /\ \A d \in Callers : CallerOK(d)'
    BY <1>0, <2>1, <2>2, CallersKept
  <2>4. PutOK(x) /\ x.prev \in Entries
    BY <1>0, <2>1 DEF LaborTypeOK, CallerOK
  <2>5. CASE UNCHANGED <<laborNotRequired, entry, ledger, overlapped>>
    BY <1>0, <2>1, <2>3, <2>5, UnwrittenKept DEF LaborInv, LaborTypeOK
  <2>6. CASE /\ ~(~x.off /\ \E w \in DOMAIN x.items : PaidHours(x, w) > x.items[w].hours)
             /\ laborNotRequired' = x.off
             /\ entry' = [w \in Workers |-> NextEntry(x, w)]
             /\ ledger' = [w \in Workers |-> NextLedger(x, w)]
             /\ overlapped' = (overlapped \/ entry # x.prev)
    <3>. HIDE DEF x
    <3>1. ASSUME NEW w \in Workers
          PROVE  /\ NextEntry(x, w) \in Entry \cup {None}
                 /\ EntryIsDerived(NextEntry(x, w), x.off)
      <4>1. ~x.off /\ w \in DOMAIN x.items => PaidHours(x, w) <= x.items[w].hours
        BY <2>4, <2>6, PaidHoursType
      <4>. QED  BY <2>4, <4>1, NextEntryIsDerived
    <3>2. LaborTypeOK'
      <4>1. x.off \in BOOLEAN
        BY <2>4 DEF PutOK
      <4>2. entry' \in Entries
        BY <2>6, <3>1 DEF Entries
      <4>. QED  BY <1>0, <2>1, <2>3, <2>6, <4>1, <4>2 DEF LaborTypeOK
    <3>3. EntriesAreDerived'
      BY <2>6, <3>1 DEF EntriesAreDerived, EntryIsDerived
    <3>4. ASSUME NEW w \in Workers, ~overlapped', ledger'[w] # None \/ entry'[w] # None
          PROVE  ledger'[w] = IF entry'[w] = None THEN Row(0, 0, "UNPAID")
                              ELSE mapLaborEntryDto(entry'[w], laborNotRequired')
      <4>. DEFINE e == NextEntry(x, w)
                  old == Shown(x.prev[w])
                  new == IF e = None THEN Row(0, 0, "UNPAID") ELSE Shown(e)
                  touched == e # None \/ old # None \/ w \in DOMAIN x.items
      <4>1. ~overlapped /\ entry = x.prev
        BY <2>6, <3>4
      <4>2. entry'[w] = e /\ laborNotRequired' = x.off
        BY <2>6
      <4>3. ledger'[w] = IF touched /\ old # new THEN new ELSE ledger[w]
        BY <2>6, Zenon DEF NextLedger
      <4>4. new = IF e = None THEN Row(0, 0, "UNPAID") ELSE mapLaborEntryDto(e, x.off)
        BY <3>1 DEF EntryIsDerived
      <4>5. x.prev[w] # None => ledger[w] = old
        BY <1>0, <4>1 DEF AuditMatchesEntries, EntriesAreDerived, EntryIsDerived
      <4>6. x.prev[w] = None => old = None /\ ledger[w] \in {None, Row(0, 0, "UNPAID")}
        BY <1>0, <4>1 DEF AuditMatchesEntries, Shown
      <4>7. ASSUME x.prev[w] # None PROVE old # None
        <5>1. x.prev[w] \in Entry
          BY <2>4, <4>7 DEF Entries
        <5>. QED  BY <4>7, <5>1, LaborAssumption DEF Shown, Row, Entry, PaymentStatuses
      <4>8. ASSUME e # None PROVE new # None
        <5>1. e \in Entry
          BY <3>1, <4>8
        <5>. QED  BY <4>8, <5>1, LaborAssumption DEF Shown, Row, Entry, PaymentStatuses
      <4>. HIDE DEF e, old, new
      <4>9. CASE x.prev[w] # None
        BY <4>2, <4>3, <4>4, <4>5, <4>7, <4>9
      <4>10. CASE x.prev[w] = None /\ e # None
        BY <4>2, <4>3, <4>4, <4>6, <4>8, <4>10
      <4>11. CASE x.prev[w] = None /\ e = None
        BY <3>4, <4>2, <4>3, <4>4, <4>6, <4>11
      <4>. QED  BY <4>9, <4>10, <4>11
    <3>5. AuditMatchesEntries'
      BY <3>4 DEF AuditMatchesEntries
    <3>. QED  BY <3>2, <3>3, <3>5 DEF LaborInv
  <2>. QED  BY <1>3, <2>5, <2>6 DEF WriteLabor
<1>4. ASSUME NEW c \in Callers, NEW w \in Workers, ReadPayment(c, w) PROVE LaborInv'
  <2>. DEFINE x == [pc |-> "pay", w |-> w, prev |-> entry[w]]
  <2>1. /\ UNCHANGED <<laborNotRequired, assignees, rate, departmentRate, entry, ledger, overlapped>>
        /\ caller' = [caller EXCEPT ![c] = x]
        /\ entry[w] # None /\ entry[w].status \notin {"NOT_REQUIRED", "PAID"}
    BY <1>4 DEF ReadPayment, Start
  <2>2. caller'[c] = x
    BY <1>0, <2>1 DEF LaborTypeOK
  <2>3. PayOK(x) /\ x.pc = "pay"
    BY <1>0, <2>1 DEF PayOK, LaborTypeOK, Entries
  <2>. HIDE DEF x
  <2>4. CallerOK(c)'
    BY <2>2, <2>3 DEF CallerOK, PayOK
  <2>5. DOMAIN caller' = Callers /\ \A d \in Callers : CallerOK(d)'
    BY <1>0, <2>1, <2>4, CallersKept
  <2>. QED  BY <1>0, <2>1, <2>5, UnwrittenKept DEF LaborInv, LaborTypeOK
<1>5. ASSUME NEW c \in Callers, WritePayment(c) PROVE LaborInv'
  <2>. DEFINE x == caller[c]
  <2>1. /\ UNCHANGED <<laborNotRequired, assignees, rate, departmentRate>>
        /\ caller' = [caller EXCEPT ![c] = Free] /\ x.pc = "pay"
    BY <1>5 DEF WritePayment
  <2>2. CallerOK(c)'
    BY <1>0, <2>1 DEF CallerOK, Free, LaborTypeOK
  <2>3. DOMAIN caller' = Callers /\ \A d \in Callers : CallerOK(d)'
    BY <1>0, <2>1, <2>2, CallersKept
  <2>4. PayOK(x)
    BY <1>0, <2>1 DEF LaborTypeOK, CallerOK
  <2>5. CASE UNCHANGED <<entry, ledger, overlapped>>
    BY <1>0, <2>1, <2>3, <2>5, UnwrittenKept DEF LaborInv, LaborTypeOK
  <2>6. CASE /\ entry[x.w] # None
             /\ entry' = [entry EXCEPT ![x.w].paid = x.prev.hours, ![x.w].status = "PAID"]
             /\ ledger' = [ledger EXCEPT ![x.w] = Row(x.prev.hours, x.prev.hours, "PAID")]
             /\ overlapped' = (overlapped \/ entry[x.w] # x.prev)
    <3>. DEFINE v == x.w
                e == entry[v]
                h == x.prev.hours
                n == [e EXCEPT !.paid = h, !.status = "PAID"]
    <3>1. v \in Workers /\ e \in Entry /\ h \in Nat /\ x.prev.status \notin {"NOT_REQUIRED", "PAID"}
      BY <1>0, <2>4, <2>6 DEF LaborTypeOK, Entries, Entry, PayOK
    <3>2. n \in Entry /\ n.hours = e.hours /\ n.paid = h /\ n.status = "PAID" /\ n.rate = e.rate
      BY <3>1 DEF Entry, PaymentStatuses
    <3>3. entry' = [entry EXCEPT ![v] = n]
      BY <2>6
    <3>4. entry \in Entries /\ entry'[v] = n /\ \A w \in Workers : w # v => entry'[w] = entry[w]
      BY <1>0, <3>1, <3>3 DEF LaborTypeOK, Entries
    <3>5. DOMAIN ledger' = Workers /\ ledger'[v] = Row(h, h, "PAID")
          /\ \A w \in Workers : w # v => ledger'[w] = ledger[w]
      BY <1>0, <2>6, <3>1 DEF LaborTypeOK
    <3>. HIDE DEF n, v
    <3>6. entry' \in Entries
      BY <3>1, <3>2, <3>3, <3>4 DEF Entries
    <3>7. LaborTypeOK'
      BY <1>0, <2>1, <2>3, <2>6, <3>5, <3>6 DEF LaborTypeOK
    <3>8. ASSUME ~overlapped' PROVE ~overlapped /\ e = x.prev /\ e.hours = h
      BY <2>6, <3>8 DEF v
    \* What was to be paid was payable and had hours.
    <3>9. ASSUME ~overlapped' PROVE ~laborNotRequired /\ e.rate > 0 /\ h > 0
      <4>1. EntryIsDerived(e, laborNotRequired) /\ e # None
        BY <1>0, <2>6, <3>1, <3>8, <3>9 DEF EntriesAreDerived, v
      <4>2. Shown(e).status = e.status
        BY <4>1 DEF Shown, Row
      <4>3. mapLaborEntryDto(e, laborNotRequired).status # "NOT_REQUIRED"
        BY <3>1, <3>8, <3>9, <4>1, <4>2 DEF EntryIsDerived
      <4>4. ~laborNotRequired
        BY <1>0, <4>3 DEF mapLaborEntryDto, Row, LaborTypeOK
      <4>5. ASSUME ~(e.rate > 0) PROVE FALSE
        <5>1. ~(~laborNotRequired /\ e.rate > 0)
          BY <4>5
        <5>2. ASSUME NEW payable, ~payable
              PROVE  deriveLaborPaymentStatus(payable, e.hours, 0) = "NOT_REQUIRED"
          BY <5>2, Zenon DEF deriveLaborPaymentStatus
        <5>3. mapLaborEntryDto(e, laborNotRequired) = Row(e.hours, 0, "NOT_REQUIRED")
          BY <4>4, <5>1, <5>2, Zenon DEF mapLaborEntryDto
        <5>. QED  BY <4>3, <5>3 DEF Row
      <4>. QED  BY <3>8, <3>9, <4>1, <4>4, <4>5 DEF EntryIsDerived
    <3>10. ASSUME ~overlapped' PROVE mapLaborEntryDto(n, laborNotRequired) = Row(h, h, "PAID")
      <4>1. Least(n.paid, n.hours) = h
        BY <3>1, <3>2, <3>8, <3>10 DEF Least
      <4>2. deriveLaborPaymentStatus(TRUE, h, h) = "PAID"
        BY <3>1, <3>9, <3>10 DEF deriveLaborPaymentStatus
      <4>3. n.hours = h /\ n.rate > 0 /\ ~laborNotRequired
        BY <3>2, <3>8, <3>9, <3>10
      <4>. QED  BY <4>1, <4>2, <4>3 DEF mapLaborEntryDto
    <3>11. EntriesAreDerived'
      <4>1. ASSUME ~overlapped', NEW w \in Workers
            PROVE  EntryIsDerived(entry'[w], laborNotRequired)
        <5>1. CASE w # v
          BY <1>0, <3>4, <3>8, <4>1, <5>1 DEF EntriesAreDerived
        <5>2. CASE w = v
          <6>1. n # None => Shown(n) = Row(h, h, "PAID")
            BY <3>2, <3>8, <4>1 DEF Shown
          <6>. QED  BY <3>1, <3>2, <3>4, <3>8, <3>9, <3>10, <4>1, <5>2, <6>1 DEF EntryIsDerived
        <5>. QED  BY <5>1, <5>2
      <4>. QED  BY <2>1, <4>1 DEF EntriesAreDerived, EntryIsDerived
    <3>12. AuditMatchesEntries'
      <4>1. ASSUME ~overlapped', NEW w \in Workers, ledger'[w] # None \/ entry'[w] # None
            PROVE  ledger'[w] = IF entry'[w] = None THEN Row(0, 0, "UNPAID")
                                ELSE mapLaborEntryDto(entry'[w], laborNotRequired')
        <5>1. CASE w # v
          BY <1>0, <2>1, <3>4, <3>5, <3>8, <4>1, <5>1 DEF AuditMatchesEntries
        <5>2. CASE w = v /\ n # None
          BY <2>1, <3>4, <3>5, <3>10, <4>1, <5>2
        <5>3. n # None
          BY <3>2, NoneIsNoEntry
        <5>. QED  BY <5>1, <5>2, <5>3
      <4>. QED  BY <4>1 DEF AuditMatchesEntries
    <3>. QED  BY <3>7, <3>11, <3>12 DEF LaborInv
  <2>. QED  BY <1>5, <2>1, <2>5, <2>6 DEF WritePayment
<1>6. ASSUME NEW w \in Workers, NEW r \in 0..MaxRate, SetHourlyRate(w, r) PROVE LaborInv'
  <2>1. /\ UNCHANGED <<laborNotRequired, assignees, departmentRate, entry, ledger, caller, overlapped>>
        /\ rate' = [rate EXCEPT ![w] = r]
    BY <1>6 DEF SetHourlyRate
  <2>2. rate' \in [Workers -> Nat \cup {None}]
    BY <1>0, <2>1, LaborAssumption DEF LaborTypeOK
  <2>3. \A c \in Callers : CallerOK(c)'
    BY <1>0, <2>1 DEF LaborTypeOK, CallerOK, PutOK, PayOK
  <2>. QED  BY <1>0, <2>1, <2>2, <2>3, UnwrittenKept DEF LaborInv, LaborTypeOK
<1>7. ASSUME NEW S \in SUBSET Workers, ChangeAssignees(S) PROVE LaborInv'
  <2>1. /\ UNCHANGED <<laborNotRequired, rate, departmentRate, entry, ledger, caller, overlapped>>
        /\ assignees' = S
    BY <1>7 DEF ChangeAssignees
  <2>2. \A c \in Callers : CallerOK(c)'
    BY <1>0, <2>1 DEF LaborTypeOK, CallerOK, PutOK, PayOK
  <2>. QED  BY <1>0, <2>1, <2>2, UnwrittenKept DEF LaborInv, LaborTypeOK
<1>8. CASE UNCHANGED labor
  <2>1. UNCHANGED <<laborNotRequired, assignees, rate, departmentRate, entry, ledger, caller, overlapped>>
    BY <1>8 DEF labor
  <2>2. \A c \in Callers : CallerOK(c)'
    BY <1>0, <2>1 DEF LaborTypeOK, CallerOK, PutOK, PayOK
  <2>. QED  BY <1>0, <2>1, <2>2, UnwrittenKept DEF LaborInv, LaborTypeOK
<1>. QED  BY <1>1, <1>2, <1>3, <1>4, <1>5, <1>6, <1>7, <1>8 DEF LaborNext

\* Whatever the workers, the rates and the number of PUTs and payments at once,
\* the audit log of the hours ends with what the readers are shown, until a
\* payment and a PUT write over each other.
THEOREM AuditLogMatches == LaborSpec => []AuditMatchesEntries
<1>1. LaborInit => LaborInv
  <2>. SUFFICES ASSUME LaborInit PROVE LaborInv
    OBVIOUS
  <2>1. \A c \in Callers : CallerOK(c)
    BY DEF LaborInit, CallerOK, Free
  <2>2. LaborTypeOK
    BY <2>1, LaborAssumption DEF LaborInit, LaborTypeOK, Entries
  <2>. QED  BY <2>2 DEF LaborInit, LaborInv, EntriesAreDerived, EntryIsDerived, AuditMatchesEntries
<1>2. LaborInv => AuditMatchesEntries
  BY DEF LaborInv
<1>. QED  BY <1>1, <1>2, LaborInvStep, PTL DEF LaborSpec

-----------------------------------------------------------------------------
(* OrderLines: lines without a price are active, so a submit finds them.     *)

LineFields == {"isManual", "base", "price", "amount", "qty", "cancelled", "pct"}

\* A line without a price comes from a copy, which takes cancellations back.
LinesOK(ls) == \A i \in DOMAIN ls : DOMAIN ls[i] = LineFields /\ (ls[i].cancelled => ls[i].base # NoRef)

StoredOK(o) ==
  orderOf[o] # NoRef =>
    /\ DOMAIN orderOf[o] = {"order", "queued", "copied"}
    /\ LinesOK(orderOf[o].order.lines)
    /\ orderOf[o].queued => \A i \in DOMAIN orderOf[o].order.lines : orderOf[o].order.lines[i].base # NoRef
    /\ ~orderOf[o].copied => orderOf[o].order.total = Total(orderOf[o].order.lines)

LinesInv == DOMAIN orderOf = OrderIds /\ \A o \in OrderIds : StoredOK(o)

\* What prepareOrderItems makes of an accepted request has a price on every line.
LEMMA PreparedIsPriced ==
  ASSUME NEW bodies, NEW general, \A i \in DOMAIN bodies : Acceptable(bodies[i])
  PROVE  /\ LinesOK(Prepared(bodies, general).lines)
         /\ \A i \in DOMAIN Prepared(bodies, general).lines :
              Prepared(bodies, general).lines[i].base # NoRef
         /\ Prepared(bodies, general).total = Total(Prepared(bodies, general).lines)
<1>. DEFINE ls == [i \in DOMAIN bodies |-> PreparedLine(bodies[i], general)]
<1>1. Prepared(bodies, general).lines = ls /\ Prepared(bodies, general).total = Total(ls)
  BY DEF Prepared
<1>2. ASSUME NEW i \in DOMAIN bodies PROVE DOMAIN ls[i] = LineFields /\ ls[i].base # NoRef
  BY DEF PreparedLine, Acceptable, LineFields
<1>. HIDE DEF ls
<1>3. DOMAIN ls = DOMAIN bodies
  BY DEF ls
<1>. QED  BY <1>1, <1>2, <1>3 DEF LinesOK

LEMMA CopyIsActive ==
  ASSUME NEW l, DOMAIN l = LineFields
  PROVE  DOMAIN CopiedLine(l) = LineFields /\ CopiedLine(l).cancelled = FALSE
BY DEF CopiedLine, LineFields

\* A step writes one order.
LEMMA OrdersKept ==
  ASSUME LinesInv, NEW o \in OrderIds, NEW x, orderOf' = [orderOf EXCEPT ![o] = x], StoredOK(o)'
  PROVE  LinesInv'
BY DEF LinesInv, StoredOK

LEMMA LinesInvStep == LinesInv /\ [LinesNext]_lines => LinesInv'
<1>. SUFFICES ASSUME LinesInv, [LinesNext]_lines PROVE LinesInv'
  OBVIOUS
<1>1. ASSUME NEW o \in OrderIds, NEW bodies, NEW general, NEW queued, Save(o, bodies, general, queued)
      PROVE  LinesInv'
  <2>. DEFINE x == [order |-> Prepared(bodies, general), queued |-> queued, copied |-> FALSE]
  <2>1. orderOf' = [orderOf EXCEPT ![o] = x] /\ \A i \in DOMAIN bodies : Acceptable(bodies[i])
    BY <1>1 DEF Save
  <2>2. orderOf'[o] = x
    BY <2>1 DEF LinesInv
  <2>3. StoredOK(o)'
    BY <2>1, <2>2, PreparedIsPriced DEF StoredOK, LinesOK
  <2>. QED  BY <2>1, <2>3, OrdersKept
<1>2. ASSUME NEW o \in OrderIds, NEW new \in OrderIds, CopyLines(o, new) PROVE LinesInv'
  <2>. DEFINE old == orderOf[o].order.lines
              ls == [i \in DOMAIN old |-> CopiedLine(old[i])]
              x == [order |-> [lines |-> ls, total |-> 0, general |-> orderOf[o].order.general],
                    queued |-> FALSE, copied |-> TRUE]
  <2>1. orderOf' = [orderOf EXCEPT ![new] = x] /\ orderOf[o] # NoRef
    BY <1>2 DEF CopyLines
  <2>2. orderOf'[new] = x
    BY <2>1 DEF LinesInv
  <2>3. \A i \in DOMAIN old : DOMAIN old[i] = LineFields
    BY <2>1 DEF LinesInv, StoredOK, LinesOK
  <2>4. LinesOK(ls)
    BY <2>3, CopyIsActive DEF LinesOK
  <2>. HIDE DEF ls
  <2>5. x.order.lines = ls /\ x.queued = FALSE /\ x.copied = TRUE /\ DOMAIN x = {"order", "queued", "copied"}
    OBVIOUS
  <2>. HIDE DEF x
  <2>6. StoredOK(new)'
    BY <2>2, <2>4, <2>5 DEF StoredOK, LinesOK
  <2>. QED  BY <2>1, <2>6, OrdersKept
\* Submitting and taking back change queued only.
<1>3. ASSUME NEW o \in OrderIds, orderOf[o] # NoRef, NEW q \in BOOLEAN,
             orderOf' = [orderOf EXCEPT ![o].queued = q],
             q => \A i \in DOMAIN orderOf[o].order.lines : orderOf[o].order.lines[i].base # NoRef
      PROVE  LinesInv'
  <2>. DEFINE x == [orderOf[o] EXCEPT !.queued = q]
  <2>1. orderOf' = [orderOf EXCEPT ![o] = x] /\ StoredOK(o)
    BY <1>3 DEF LinesInv
  <2>2. orderOf'[o] = x
    BY <2>1 DEF LinesInv
  <2>3. /\ DOMAIN x = {"order", "queued", "copied"} /\ x.queued = q
        /\ x.order = orderOf[o].order /\ x.copied = orderOf[o].copied
    BY <1>3, <2>1 DEF StoredOK
  <2>. HIDE DEF x
  <2>4. StoredOK(o)'
    BY <1>3, <2>1, <2>2, <2>3 DEF StoredOK, LinesOK
  <2>. QED  BY <2>1, <2>4, OrdersKept
<1>4. ASSUME NEW o \in OrderIds, SubmitLines(o) PROVE LinesInv'
  <2>. DEFINE ls == orderOf[o].order.lines
  <2>1. orderOf[o] # NoRef /\ Submittable(ls) /\ orderOf' = [orderOf EXCEPT ![o].queued = TRUE]
    BY <1>4 DEF SubmitLines
  <2>2. LinesOK(ls)
    BY <2>1 DEF LinesInv, StoredOK
  <2>3. ASSUME NEW i \in DOMAIN ls PROVE ls[i].base # NoRef
    <3>1. ls[i].cancelled => ls[i].base # NoRef
      BY <2>2 DEF LinesOK
    <3>2. ~ls[i].cancelled => Or(ls[i].base, 0) > 0
      BY <2>1 DEF Submittable
    <3>3. ls[i].base = NoRef => ~(Or(ls[i].base, 0) > 0)
      BY DEF Or
    <3>. QED  BY <3>1, <3>2, <3>3
  <2>4. \A i \in DOMAIN orderOf[o].order.lines : orderOf[o].order.lines[i].base # NoRef
    BY <2>3
  <2>5. TRUE \in BOOLEAN  OBVIOUS
  <2>. QED  BY <1>3, <2>1, <2>4, <2>5, Zenon
<1>5. ASSUME NEW o \in OrderIds, UnqueueLines(o) PROVE LinesInv'
  BY <1>3, <1>5 DEF UnqueueLines
<1>6. ASSUME NEW o \in OrderIds, CreateLines(o) \/ UpdateLines(o) PROVE LinesInv'
  BY <1>1, <1>6 DEF CreateLines, UpdateLines
<1>7. ASSUME LoadPrices \/ UNCHANGED lines PROVE LinesInv'
  BY <1>7 DEF LoadPrices, lines, LinesInv, StoredOK
<1>. QED  BY <1>2, <1>4, <1>5, <1>6, <1>7 DEF LinesNext

\* Whatever is copied, submitted, taken back and saved, and however prices
\* change: no queued order has a line without a price, and the total of an
\* order that was saved is the sum of its lines.
THEOREM QueuedOrdersPriced == LinesSpec => []QueuedOrdersArePriced
<1>1. LinesInit => LinesInv
  BY DEF LinesInit, LinesInv, StoredOK
<1>2. LinesInv => QueuedOrdersArePriced
  BY DEF LinesInv, StoredOK, QueuedOrdersArePriced
<1>. QED  BY <1>1, <1>2, LinesInvStep, PTL DEF LinesSpec

-----------------------------------------------------------------------------
(* Marketplace: what a request has checked stays together while it waits.    *)

Together(t, fields) ==
  /\ t.agr \in Agreements \cup {NoRef}
  /\ Owners(t) \subseteq {t.cp} /\ CheckAgreement(t, fields)

ContextOK(t) == DOMAIN t = Fields /\ Together(t, {"con", "wh", "pt"})

\* An order, whoever placed it.
OrderOK(o) ==
  /\ OfCounterparty(o) /\ CheckAgreement(o, {"con", "wh"})
  /\ o.source = "SPECIAL_PRICE" =>
       o.row.agr = o.agr /\ o.row.cp \in {NoRef, o.cp} /\ o.row.pt \in {NoRef, o.pt}

MarketInv ==
  /\ DOMAIN waiting = Sessions
  /\ ContextOK(terms)
  /\ \A s \in Sessions : waiting[s] # NoRef => ContextOK(waiting[s].terms)
  /\ \A o \in placed : OrderOK(o)

\* Terms with the same agreement, contract and address have the same owners.
LEMMA OwnersDepend ==
  ASSUME NEW t, NEW u, t.agr = u.agr, t["con"] = u["con"], t["addr"] = u["addr"]
  PROVE  Owners(t) = Owners(u)
<1>1. ASSUME NEW c PROVE c \in {OwnerOf[t[f]] : f \in {g \in {"con", "addr"} : t[g] # NoRef}}
                     <=> c \in {OwnerOf[u[f]] : f \in {g \in {"con", "addr"} : u[g] # NoRef}}
  OBVIOUS
<1>. QED  BY <1>1 DEF Owners

\* The counterparty that CheckOwner has found to be the only one is taken.
LEMMA OwnerIsTaken ==
  ASSUME NEW t, DOMAIN t = Fields, t.agr \in Agreements \cup {NoRef}, CheckOwner(t),
         CheckAgreement(t, {"con", "wh", "pt"})
  PROVE  ContextOK(WithOwner(t))
<1>. DEFINE c == CHOOSE x \in Owners(t) : TRUE
            u == [t EXCEPT !.cp = c]
<1>1. CASE Owners(t) = {}
  BY <1>1 DEF WithOwner, ContextOK, Together
<1>2. CASE Owners(t) # {}
  <2>1. c \in Owners(t) /\ WithOwner(t) = u
    BY <1>2 DEF WithOwner
  <2>2. DOMAIN u = Fields /\ u.cp = c /\ u.agr = t.agr /\ u["con"] = t["con"] /\ u["addr"] = t["addr"]
        /\ u["wh"] = t["wh"] /\ u["pt"] = t["pt"]
    BY DEF Fields
  <2>. HIDE DEF c, u
  <2>3. Owners(u) = Owners(t)
    BY <2>2, OwnersDepend
  <2>4. Owners(t) \subseteq {c}
    BY <2>1 DEF CheckOwner
  <2>5. CheckAgreement(u, {"con", "wh", "pt"})
    BY <2>2 DEF CheckAgreement
  <2>. QED  BY <2>1, <2>2, <2>3, <2>4, <2>5 DEF ContextOK, Together
<1>. QED  BY <1>1, <1>2

\* Filling what was left open from the agreement keeps the terms together: what
\* was named was compared, and the rest is the agreement's.
LEMMA FilledFromAgreement ==
  ASSUME NEW t, Together(t, {"con", "wh"}), NEW o,
         o.cp = t.cp, o.agr = t.agr, o["addr"] = t["addr"],
         o["con"] = OrElseAgreement(t, "con"), o["wh"] = OrElseAgreement(t, "wh")
  PROVE  OfCounterparty(o) /\ CheckAgreement(o, {"con", "wh"})
<1>1. CheckAgreement(o, {"con", "wh"})
  BY DEF Together, CheckAgreement, OrElseAgreement
<1>2. ASSUME t.agr # NoRef, AgreementTerms[t.agr].cp # NoRef PROVE AgreementTerms[t.agr].cp = t.cp
  <2>1. AgreementTerms[t.agr].cp \in Owners(t)
    BY <1>2 DEF Owners
  <2>. QED  BY <2>1 DEF Together
<1>3. ASSUME NEW f \in {"con", "addr"}, t[f] # NoRef PROVE OwnerOf[t[f]] = t.cp
  <2>1. OwnerOf[t[f]] \in Owners(t)
    BY <1>3 DEF Owners
  <2>. QED  BY <2>1 DEF Together
<1>4. \/ o["con"] = t["con"]
      \/ t.agr # NoRef /\ o["con"] = AgreementTerms[t.agr]["con"]
  BY DEF OrElseAgreement
<1>. QED  BY <1>1, <1>2, <1>3, <1>4 DEF OfCounterparty

\* A special price is one of the candidates for the terms it is asked for.
LEMMA SpecialPriceMatches ==
  ASSUME NEW t, NEW price \in ResolveEffectivePrice(t), price.source = "SPECIAL_PRICE"
  PROVE  /\ price.row.agr = t.agr /\ price.row.cp \in {NoRef, t.cp}
         /\ price.row.pt \in {NoRef, t.pt}
<1>1. PICK row \in Candidates(t) : price = [source |-> "SPECIAL_PRICE", row |-> row]
  BY DEF ResolveEffectivePrice, First
<1>. QED  BY <1>1 DEF Candidates

LEMMA MarketInvStep == MarketInv /\ [MarketNext]_market => MarketInv'
<1>. SUFFICES ASSUME MarketInv, [MarketNext]_market PROVE MarketInv'
  OBVIOUS
<1>. USE DEF MarketInv
<1>1. ASSUME NEW s \in Sessions, NEW x, ContextOK(x.terms), waiting' = [waiting EXCEPT ![s] = x],
             UNCHANGED <<terms, placed>>
      PROVE  MarketInv'
  BY <1>1
\* What a body may name.
<1>2. ASSUME NEW body \in ContextBodies \cup OrderBodies
      PROVE  /\ DOMAIN Asked(body) = Fields /\ Asked(body).agr \in Agreements \cup {NoRef}
             /\ DOMAIN Chosen(body) = Fields /\ Chosen(body).agr \in Agreements \cup {NoRef}
  <2>1. Asked(body).agr \in Agreements \cup {NoRef}
    BY MarketAssumption DEF Asked, Kept, Fields, ContextOK, Together
  <2>. QED  BY <2>1 DEF Asked, Chosen, Fields
<1>3. ASSUME NEW s \in Sessions, NEW body \in ContextBodies, ReadContext(s, body) PROVE MarketInv'
  <2>. DEFINE t == Chosen(body)
              x == [do |-> "context", terms |-> WithOwner(t)]
  <2>1. /\ CheckOwner(t) /\ CheckAgreement(t, {"con", "wh", "pt"})
        /\ waiting' = [waiting EXCEPT ![s] = x] /\ UNCHANGED <<terms, placed>>
    BY <1>3 DEF ReadContext
  <2>2. ContextOK(WithOwner(t))
    BY <1>2, <2>1, OwnerIsTaken
  <2>3. x.terms = WithOwner(t)
    OBVIOUS
  <2>. HIDE DEF x, t
  <2>. QED  BY <1>1, <2>1, <2>2, <2>3
<1>4. ASSUME NEW s \in Sessions, NEW body \in OrderBodies, ResolveOrderContext(s, body) PROVE MarketInv'
  <2>. DEFINE t == Asked(body)
              x == [do |-> "order", terms |-> WithOwner(t), qty |-> body.qty]
  <2>1. /\ CheckOwner(t) /\ CheckAgreement(t, {"con", "wh", "pt"})
        /\ waiting' = [waiting EXCEPT ![s] = x] /\ UNCHANGED <<terms, placed>>
    BY <1>4 DEF ResolveOrderContext
  <2>2. ContextOK(WithOwner(t))
    BY <1>2, <2>1, OwnerIsTaken
  <2>3. x.terms = WithOwner(t)
    OBVIOUS
  <2>. HIDE DEF x, t
  <2>. QED  BY <1>1, <2>1, <2>2, <2>3
<1>5. ASSUME NEW s \in Sessions, WriteContext(s) PROVE MarketInv'
  <2>1. /\ waiting[s] # NoRef /\ terms' = waiting[s].terms
        /\ waiting' = [waiting EXCEPT ![s] = NoRef] /\ placed' = placed
    BY <1>5 DEF WriteContext
  <2>. QED  BY <2>1
<1>6. ASSUME NEW s \in Sessions, CreateOrder(s) PROVE MarketInv'
  <2>. DEFINE t == waiting[s].terms
  <2>1. /\ waiting[s] # NoRef /\ terms' = terms /\ waiting' = [waiting EXCEPT ![s] = NoRef]
        /\ \/ placed' = placed
           \/ \E price \in ResolveEffectivePrice(PriceTerms(t)) : placed' = placed \cup {OrderOf(t, price)}
    BY <1>6 DEF CreateOrder, Quotes
  <2>2. ContextOK(t)
    BY <2>1
  <2>3. ASSUME NEW price \in ResolveEffectivePrice(PriceTerms(t)) PROVE OrderOK(OrderOf(t, price))
    <3>. DEFINE o == OrderOf(t, price)
    <3>1. /\ o.cp = t.cp /\ o.agr = t.agr /\ o["addr"] = t["addr"]
          /\ o["con"] = OrElseAgreement(t, "con") /\ o["wh"] = OrElseAgreement(t, "wh")
          /\ o.source = price.source /\ o.row = price.row /\ o.pt = PriceTerms(t).pt
      BY DEF OrderOf
    <3>2. PriceTerms(t).agr = t.agr /\ PriceTerms(t).cp = t.cp
      BY DEF PriceTerms
    <3>3. Together(t, {"con", "wh"})
      BY <2>2 DEF ContextOK, Together, CheckAgreement
    <3>. HIDE DEF o, t
    <3>4. OfCounterparty(o) /\ CheckAgreement(o, {"con", "wh"})
      BY <3>1, <3>3, FilledFromAgreement
    <3>5. o.source = "SPECIAL_PRICE" =>
            o.row.agr = o.agr /\ o.row.cp \in {NoRef, o.cp} /\ o.row.pt \in {NoRef, o.pt}
      <4>1. SUFFICES ASSUME o.source = "SPECIAL_PRICE"
                     PROVE  o.row.agr = o.agr /\ o.row.cp \in {NoRef, o.cp} /\ o.row.pt \in {NoRef, o.pt}
        OBVIOUS
      <4>2. PICK q : q = PriceTerms(t)  OBVIOUS
      <4>3. price \in ResolveEffectivePrice(q) /\ price.source = "SPECIAL_PRICE"
        BY <3>1, <4>1, <4>2
      <4>4. price.row.agr = q.agr /\ price.row.cp \in {NoRef, q.cp} /\ price.row.pt \in {NoRef, q.pt}
        BY <4>3, SpecialPriceMatches
      <4>. QED  BY <3>1, <3>2, <4>2, <4>4
    <3>. QED  BY <3>4, <3>5 DEF OrderOK, o
  <2>. QED  BY <2>1, <2>3
<1>7. ASSUME NEW t \in ManagerBodies, ResolveManagerOrderContext(t) PROVE MarketInv'
  <2>. DEFINE o == ManagerOrder(t)
  <2>1. /\ ManagerTermsAgree(t) /\ placed' = placed \cup {o} /\ UNCHANGED <<terms, waiting>>
    BY <1>7 DEF ResolveManagerOrderContext
  <2>2. /\ o.cp = t.cp /\ o.agr = t.agr /\ o["addr"] = t["addr"]
        /\ o["con"] = OrElseAgreement(t, "con") /\ o["wh"] = OrElseAgreement(t, "wh")
        /\ o.source = "MANAGER"
    BY DEF ManagerOrder
  <2>3. Together(t, {"con", "wh"})
    BY <2>1, MarketAssumption DEF ManagerTermsAgree, Together
  <2>. HIDE DEF o
  <2>4. OfCounterparty(o) /\ CheckAgreement(o, {"con", "wh"})
    BY <2>2, <2>3, FilledFromAgreement
  <2>5. OrderOK(o)
    BY <2>2, <2>4 DEF OrderOK
  <2>. QED  BY <2>1, <2>5
<1>8. ASSUME (\E ref \in Closable : CloseOrReopen(ref)) \/ NewPrices \/ UNCHANGED market PROVE MarketInv'
  BY <1>8 DEF CloseOrReopen, NewPrices, market
<1>. QED  BY <1>3, <1>4, <1>5, <1>6, <1>7, <1>8 DEF MarketNext

\* Whatever requests of a client overlap, whatever 1C closes meanwhile and
\* whatever contracts its agreements name: the terms of the profile belong to
\* one counterparty, those of an order to its counterparty or its agreement, and
\* the special price of an order was made for its terms (marketplace.service.ts).
THEOREM TermsTogether == MarketSpec => []TermsStayTogether
<1>1. MarketInit => MarketInv
  <2>. SUFFICES ASSUME MarketInit PROVE MarketInv
    OBVIOUS
  <2>1. DOMAIN terms = Fields /\ terms.agr = NoRef /\ terms["con"] = NoRef /\ terms["addr"] = NoRef
    BY DEF MarketInit, Fields
  <2>2. Owners(terms) = {}
    BY <2>1 DEF Owners
  <2>3. ContextOK(terms)
    BY <2>1, <2>2 DEF ContextOK, Together, CheckAgreement
  <2>. QED  BY <2>3 DEF MarketInit, MarketInv
<1>2. MarketInv => TermsStayTogether
  BY DEF MarketInv, ContextOK, Together, OrderOK, TermsStayTogether
<1>. QED  BY <1>1, <1>2, MarketInvStep, PTL DEF MarketSpec


-----------------------------------------------------------------------------
(* Facts about numbers, finite sets and recursion over the positions of a    *)
(* sequence.                                                                 *)

\* A set of numbers has a smallest one, a finite one also a largest.
LEMMA SmallestIn ==
  ASSUME NEW T, T \subseteq Nat, T # {}
  PROVE  \E n \in T : \A m \in T : n <= m
<1>1. PICK n \in T : \A m \in T : ~(<<m, n>> \in OpToRel(<, Nat))
  BY WFMin, NatLessThanWellFounded, Zenon
<1>2. ASSUME NEW m \in T PROVE n <= m
  <2>1. n \in Nat /\ m \in Nat /\ ~(<<m, n>> \in OpToRel(<, Nat))  BY <1>1, Zenon
  <2>2. ~(m < n)  BY <2>1, Zenon DEF OpToRel
  <2>3. n \in Nat /\ m \in Nat  BY <2>1, Zenon
  <2>. QED  BY <2>2, <2>3
<1>. QED  BY <1>2

NoLargest(S) == ~\E m \in S : \A n \in S : n <= m

LEMMA LargestIn ==
  ASSUME NEW S, IsFiniteSet(S), S \subseteq Nat, S # {}
  PROVE  \E m \in S : \A n \in S : n <= m
<1> SUFFICES ASSUME NoLargest(S) PROVE FALSE  BY DEF NoLargest
<1>1. PICK T : T = {Cardinality(U) : U \in {V \in SUBSET Nat : IsFiniteSet(V) /\ V # {} /\ NoLargest(V)}}
  OBVIOUS
<1>2. T \subseteq Nat  BY <1>1, FS_CardinalityType
<1>3. Cardinality(S) \in T  BY <1>1
<1>4. T # {}  BY <1>3
<1>5. PICK n \in T : \A m \in T : n <= m  BY <1>2, <1>4, SmallestIn
<1>6. PICK U \in SUBSET Nat : IsFiniteSet(U) /\ U # {} /\ NoLargest(U) /\ n = Cardinality(U)
  BY <1>1, <1>5
<1>7. PICK x \in U : TRUE  BY <1>6
<1>8. PICK W : W = U \ {x}  OBVIOUS
<1>9. /\ IsFiniteSet(W) /\ Cardinality(W) = n - 1 /\ W \in SUBSET Nat
      /\ n \in Nat
  BY <1>2, <1>6, <1>7, <1>8, FS_RemoveElement
<1>10. ~(Cardinality(W) \in T)  BY <1>5, <1>9
<1>11. W = {} \/ ~NoLargest(W)  BY <1>1, <1>9, <1>10
<1>12. CASE W = {}
  BY <1>6, <1>7, <1>8, <1>12 DEF NoLargest
<1>13. CASE ~NoLargest(W)
  <2>1. PICK m \in W : \A k \in W : k <= m  BY <1>13 DEF NoLargest
  <2>2. m \in U /\ m \in Nat /\ x \in Nat  BY <1>8, <1>9, <2>1
  <2>3. \A k \in U : k \in W \/ k = x  BY <1>8
  <2>4. CASE x <= m
    <3>1. \A k \in U : k <= m  BY <2>1, <2>3, <2>4
    <3>. QED  BY <1>6, <2>2, <3>1 DEF NoLargest
  <2>5. CASE ~(x <= m)
    <3>1. \A k \in U : k <= x  BY <1>6, <2>1, <2>2, <2>3, <2>5
    <3>. QED  BY <1>6, <1>7, <3>1 DEF NoLargest
  <2>. QED  BY <2>4, <2>5
<1>. QED  BY <1>11, <1>12, <1>13

LEMMA ImageIsFinite ==
  ASSUME NEW S, IsFiniteSet(S), NEW f, S \subseteq DOMAIN f
  PROVE  IsFiniteSet({f[x] : x \in S})
<1>1. PICK T : T = {f[x] : x \in S}  OBVIOUS
<1>2. PICK g : g = [x \in S |-> f[x]]  OBVIOUS
<1>3. g \in Surjection(S, T)  BY <1>1, <1>2 DEF Surjection
<1>4. IsFiniteSet(T)  BY <1>3, FS_Surjection
<1>. QED  BY <1>1, <1>4

LEMMA ElementsAreFinite ==
  ASSUME NEW A, NEW s \in Seq(A)
  PROVE  IsFiniteSet(ToSet(s)) /\ ToSet(s) \subseteq A
<1>1. DOMAIN s = 1..Len(s) /\ Len(s) \in Nat  OBVIOUS
<1>2. IsFiniteSet(1..Len(s))  BY <1>1, FS_Interval
<1>3. IsFiniteSet({s[i] : i \in 1..Len(s)})  BY <1>1, <1>2, ImageIsFinite
<1>. QED  BY <1>1, <1>3 DEF ToSet

LEMMA ElementsOfAppend ==
  ASSUME NEW A, NEW s \in Seq(A), NEW e \in A
  PROVE  ToSet(Append(s, e)) = ToSet(s) \cup {e}
<1>1. PICK t : t = Append(s, e)  OBVIOUS
<1>2. /\ Len(t) = Len(s) + 1 /\ t[Len(t)] = e /\ \A i \in 1..Len(s) : t[i] = s[i]
      /\ DOMAIN t = 1..Len(t) /\ DOMAIN s = 1..Len(s) /\ Len(s) \in Nat
  BY <1>1
<1>3. \A i \in 1..Len(t) : i \in 1..Len(s) \/ i = Len(t)  BY <1>2
<1>4. Len(t) \in 1..Len(t) /\ \A i \in 1..Len(s) : i \in 1..Len(t)  BY <1>2
<1>. QED  BY <1>1, <1>2, <1>3, <1>4 DEF ToSet

\* What is stepped from position to position is a function.
RunsTo(f, n, base, step) == f[0] = base /\ \A i \in 1..n : f[i] = step[<<f[i - 1], i>>]

LEMMA RunExists ==
  ASSUME NEW A, NEW base \in A, NEW N \in Nat, NEW step, step \in [A \X (1..N) -> A]
  PROVE  \E f \in [0..N -> A] : RunsTo(f, N, base, step)
<1>1. PICK T : T = {n \in 0..N : ~\E f \in [0..n -> A] : RunsTo(f, n, base, step)}  OBVIOUS
<1>2. SUFFICES ASSUME T # {} PROVE FALSE  BY <1>1
<1>3. T \subseteq Nat  BY <1>1
<1>4. PICK n \in T : \A m \in T : n <= m  BY <1>2, <1>3, SmallestIn
<1>5. n \in 0..N /\ ~\E f \in [0..n -> A] : RunsTo(f, n, base, step)  BY <1>1, <1>4
<1>6. CASE n = 0
  <2>1. PICK f : f = [i \in 0..n |-> base]  OBVIOUS
  <2>2. f \in [0..n -> A] /\ RunsTo(f, n, base, step)  BY <1>6, <2>1 DEF RunsTo
  <2>. QED  BY <1>5, <2>2
<1>7. CASE n # 0
  <2>1. n - 1 \in 0..N /\ n - 1 < n  BY <1>5, <1>7
  <2>2. ~(n - 1 \in T)  BY <1>4, <1>5, <2>1
  <2>3. PICK g \in [0..(n - 1) -> A] : RunsTo(g, n - 1, base, step)  BY <1>1, <2>1, <2>2
  <2>4. PICK f : f = [i \in 0..n |-> IF i = n THEN step[<<g[n - 1], n>>] ELSE g[i]]  OBVIOUS
  <2>5. g[n - 1] \in A /\ n \in 1..N  BY <1>5, <1>7, <2>3
  <2>6. step[<<g[n - 1], n>>] \in A  BY <2>5
  <2>7. \A i \in 0..n : f[i] \in A
    <3>1. TAKE i \in 0..n
    <3>2. CASE i = n  BY <2>4, <2>6, <3>2
    <3>3. CASE i # n
      <4>1. i \in 0..(n - 1)  BY <1>5, <3>3
      <4>. QED  BY <2>3, <2>4, <3>3, <4>1
    <3>. QED  BY <3>2, <3>3
  <2>8. f \in [0..n -> A]  BY <2>4, <2>7
  <2>9. f[0] = base  BY <1>5, <1>7, <2>3, <2>4 DEF RunsTo
  <2>10. ASSUME NEW i \in 1..n PROVE f[i] = step[<<f[i - 1], i>>]
    <3>1. i - 1 \in 0..n /\ i - 1 # n /\ f[i - 1] = g[i - 1]  BY <1>5, <2>4, <2>10
    <3>2. CASE i = n  BY <1>5, <2>4, <3>1, <3>2
    <3>3. CASE i # n
      <4>1. i \in 1..(n - 1) /\ i \in 0..n  BY <1>5, <3>3
      <4>2. f[i] = g[i]  BY <2>4, <3>3, <4>1
      <4>3. g[i] = step[<<g[i - 1], i>>]  BY <2>3, <4>1 DEF RunsTo
      <4>. QED  BY <3>1, <4>2, <4>3
    <3>. QED  BY <3>2, <3>3
  <2>. QED  BY <1>5, <2>8, <2>9, <2>10 DEF RunsTo
<1>. QED  BY <1>6, <1>7

-----------------------------------------------------------------------------
(* Tracking: routes only grow, and the filter keeps every exact stop.        *)

PointSets == {S \in SUBSET Points : IsFiniteSet(S)}
RouteRows ==
  [status : {"ACTIVE", "COMPLETED"}, started : Nat, ended : Nat, points : PointSets]

\* Routes at a later time have the points of before, and maybe more.
Within(old, new) ==
  /\ Len(old) <= Len(new)
  /\ \A r \in 1..Len(old) : old[r].points \subseteq new[r].points

\* No point with an id is in two routes.
Apart(routes) ==
  \A r, q \in 1..Len(routes) : routes[r].points \cap routes[q].points \cap WithId # {} => r = q

\* A route covers its points and does not end before it starts.
RowIsSound(row) ==
  /\ \A t \in TimesOf(row.points) : row.started <= t
  /\ row.status = "COMPLETED" => row.started <= row.ended

RoutesAreSound(routes) ==
  /\ \A r, q \in ActiveIn(routes) : r = q
  /\ \A r \in 1..Len(routes) : RowIsSound(routes[r])

LEMMA TimesAreFinite ==
  ASSUME NEW ps \in PointSets
  PROVE  IsFiniteSet(TimesOf(ps)) /\ TimesOf(ps) \subseteq Nat /\ (ps # {} => TimesOf(ps) # {})
<1>1. ps \subseteq DOMAIN RecordedAt /\ \A p \in ps : RecordedAt[p] \in Nat
  BY TrackingAssumption DEF PointSets
<1>2. IsFiniteSet({RecordedAt[p] : p \in ps})  BY <1>1, ImageIsFinite DEF PointSets
<1>. QED  BY <1>1, <1>2 DEF TimesOf

LEMMA EarliestIs ==
  ASSUME NEW S, S \subseteq Nat, S # {}
  PROVE  EarliestOf(S) \in S /\ \A t \in S : EarliestOf(S) <= t
<1>1. \E t \in S : \A u \in S : t <= u  BY SmallestIn
<1>. QED  BY <1>1 DEF EarliestOf

LEMMA LatestIs ==
  ASSUME NEW S, IsFiniteSet(S), S \subseteq Nat, S # {}
  PROVE  LatestOf(S) \in S /\ \A t \in S : t <= LatestOf(S)
<1>1. \E t \in S : \A u \in S : u <= t  BY LargestIn
<1>. QED  BY <1>1 DEF LatestOf

LEMMA EarliestTime ==
  ASSUME NEW ps \in PointSets, ps # {}
  PROVE  /\ EarliestOf(TimesOf(ps)) \in Nat
         /\ \A t \in TimesOf(ps) : EarliestOf(TimesOf(ps)) <= t
<1>1. TimesOf(ps) \subseteq Nat /\ TimesOf(ps) # {}  BY TimesAreFinite
<1>. QED  BY <1>1, EarliestIs

LEMMA LatestTime ==
  ASSUME NEW ps \in PointSets, ps # {}
  PROVE  LatestOf(TimesOf(ps)) \in Nat
<1>1. IsFiniteSet(TimesOf(ps)) /\ TimesOf(ps) \subseteq Nat /\ TimesOf(ps) # {}  BY TimesAreFinite
<1>. QED  BY <1>1, LatestIs

LEMMA CurrentIs ==
  ASSUME NEW routes \in Seq(RouteRows)
  PROVE  /\ CurrentIn(routes) \in 0..Len(routes)
         /\ CurrentIn(routes) = 0 <=> ActiveIn(routes) = {}
         /\ CurrentIn(routes) # 0 => CurrentIn(routes) \in ActiveIn(routes)
<1>1. CASE ActiveIn(routes) = {}
  BY <1>1 DEF CurrentIn
<1>2. CASE ActiveIn(routes) # {}
  <2>1. PICK A : A = ActiveIn(routes)  OBVIOUS
  <2>2. A \subseteq 1..Len(routes) /\ Len(routes) \in Nat  BY <2>1 DEF ActiveIn
  <2>3. IsFiniteSet(A)
    <3>1. IsFiniteSet(1..Len(routes))  BY <2>2, FS_Interval
    <3>. QED  BY <2>2, <3>1, FS_Subset
  <2>4. PICK f : f = [r \in A |-> routes[r].started]  OBVIOUS
  <2>5. \A r \in A : f[r] = routes[r].started /\ f[r] \in Nat
    <3>1. TAKE r \in A
    <3>2. f[r] = routes[r].started  BY <2>4
    <3>3. routes[r] \in RouteRows  BY <2>2
    <3>. QED  BY <3>2, <3>3 DEF RouteRows
  <2>6. PICK S : S = {f[r] : r \in A}  OBVIOUS
  <2>7. IsFiniteSet(S)  BY <2>3, <2>4, <2>6, ImageIsFinite
  <2>8. S \subseteq Nat /\ S # {}  BY <1>2, <2>1, <2>5, <2>6
  <2>9. PICK m \in S : \A n \in S : n <= m  BY <2>7, <2>8, LargestIn
  <2>10. PICK r \in A : m = f[r]  BY <2>6, <2>9
  <2>11. \A q \in A : f[q] <= f[r]  BY <2>6, <2>9, <2>10
  <2>12. \E c \in A : \A q \in A : routes[q].started <= routes[c].started
    BY <2>5, <2>10, <2>11
  <2>13. CurrentIn(routes) = CHOOSE c \in A : \A q \in A : routes[q].started <= routes[c].started
    BY <1>2, <2>1 DEF CurrentIn
  <2>14. CurrentIn(routes) \in A  BY <2>12, <2>13
  <2>. QED  BY <1>2, <2>1, <2>2, <2>14
<1>. QED  BY <1>1, <1>2

\* Cover and Complete change what they are for.
LEMMA CoverKeeps ==
  ASSUME NEW row \in RouteRows, NEW read \in RouteRows, NEW t \in Nat
  PROVE  /\ Cover(row, read, t) \in RouteRows
         /\ Cover(row, read, t).points = row.points
         /\ Cover(row, read, t).status = row.status
         /\ Cover(row, read, t).ended = row.ended
<1>. QED  BY DEF Cover, RouteRows

LEMMA CoverIsSound ==
  ASSUME NEW row \in RouteRows, NEW t \in Nat, RowIsSound(row)
  PROVE  RowIsSound(Cover(row, row, t)) /\ Cover(row, row, t).started <= t
<1>1. CASE t >= row.started
  BY <1>1 DEF Cover, RouteRows
<1>2. CASE ~(t >= row.started)
  <2>1. PICK new : new = [row EXCEPT !.started = t]  OBVIOUS
  <2>2. /\ Cover(row, row, t) = new /\ new.started = t /\ new.points = row.points
        /\ new.status = row.status /\ new.ended = row.ended
    BY <1>2, <2>1 DEF Cover, RouteRows
  <2>3. row.started \in Nat /\ row.ended \in Nat /\ t < row.started  BY <1>2 DEF RouteRows
  <2>4. row.points \in PointSets  BY DEF RouteRows
  <2>5. TimesOf(row.points) \subseteq Nat  BY <2>4, TimesAreFinite
  <2>6. \A u \in TimesOf(new.points) : new.started <= u
    BY <2>2, <2>3, <2>5 DEF RowIsSound
  <2>7. new.status = "COMPLETED" => new.started <= new.ended
    BY <2>2, <2>3 DEF RowIsSound
  <2>. QED  BY <2>2, <2>6, <2>7 DEF RowIsSound
<1>. QED  BY <1>1, <1>2

LEMMA CompleteKeeps ==
  ASSUME NEW row \in RouteRows, NEW read \in RouteRows, NEW t \in Nat
  PROVE  /\ Complete(row, read, t) \in RouteRows
         /\ Complete(row, read, t).points = row.points
         /\ Complete(row, read, t).started = row.started
         /\ Complete(row, read, t).status = "COMPLETED"
         /\ Complete(row, read, t).ended >= read.started
<1>1. clampRouteEndAt(read, t) \in Nat /\ clampRouteEndAt(read, t) >= read.started
  BY DEF clampRouteEndAt, RouteRows
<1>2. PICK one : one = [row EXCEPT !.status = "COMPLETED"]  OBVIOUS
<1>3. PICK two : two = [one EXCEPT !.ended = clampRouteEndAt(read, t)]  OBVIOUS
<1>4. Complete(row, read, t) = two  BY <1>2, <1>3 DEF Complete
<1>5. one \in RouteRows /\ one.points = row.points /\ one.started = row.started /\ one.status = "COMPLETED"
  BY <1>2 DEF RouteRows
<1>6. /\ two \in RouteRows /\ two.points = one.points /\ two.started = one.started
      /\ two.status = one.status /\ two.ended = clampRouteEndAt(read, t)
  BY <1>1, <1>3, <1>5 DEF RouteRows
<1>. QED  BY <1>1, <1>4, <1>5, <1>6

LEMMA CompleteIsSound ==
  ASSUME NEW row \in RouteRows, NEW read \in RouteRows, NEW t \in Nat,
         RowIsSound(row), read.started = row.started
  PROVE  RowIsSound(Complete(row, read, t))
<1>1. PICK new : new = Complete(row, read, t)  OBVIOUS
<1>2. /\ new.points = row.points /\ new.started = row.started /\ new.ended >= row.started
      /\ new.ended \in Nat /\ row.started \in Nat
  <2>1. new \in RouteRows  BY <1>1, CompleteKeeps
  <2>2. /\ new.points = row.points /\ new.started = row.started /\ new.ended >= row.started
    BY <1>1, CompleteKeeps
  <2>3. new.ended \in Nat /\ row.started \in Nat  BY <2>1 DEF RouteRows
  <2>. QED  BY <2>2, <2>3
<1>3. \A u \in TimesOf(new.points) : new.started <= u  BY <1>2 DEF RowIsSound
<1>4. new.started <= new.ended  BY <1>2
<1>. QED  BY <1>1, <1>3, <1>4 DEF RowIsSound

\* Each position of the batch is decided by those before it.
LEMMA FilterRuns ==
  ASSUME NEW batch \in Seq(Points), NEW known, NEW last, NEW k, k = Filtered(batch, known, last)
  PROVE  /\ k[0] = <<>>
         /\ \A i \in 1..Len(batch) :
              /\ k[i - 1] \in Seq(Points) /\ k[i] \in Seq(Points)
              /\ k[i] = IF Drops(batch, i, known, last \o k[i - 1]) THEN k[i - 1]
                        ELSE Append(k[i - 1], batch[i])
<1>1. PICK N \in Nat : N = Len(batch)  OBVIOUS
<1>2. PICK A : A = Seq(Points)  OBVIOUS
<1>3. PICK step :
        step = [x \in A \X (1..N) |->
                  IF Drops(batch, x[2], known, last \o x[1]) THEN x[1] ELSE Append(x[1], batch[x[2]])]
  OBVIOUS
<1>4. \A s \in A, i \in 1..N :
        /\ step[<<s, i>>] = IF Drops(batch, i, known, last \o s) THEN s ELSE Append(s, batch[i])
        /\ step[<<s, i>>] \in A
  BY <1>1, <1>2, <1>3
<1>5. step \in [A \X (1..N) -> A]  BY <1>3, <1>4
<1>6. <<>> \in A  BY <1>2
<1>7. PICK f \in [0..N -> A] : RunsTo(f, N, <<>>, step)  BY <1>5, <1>6, RunExists
<1>8. \A i \in 1..N : i - 1 \in 0..N /\ i \in 0..N  BY <1>1
<1>9. \A i \in 1..N : f[i] = IF Drops(batch, i, known, last \o f[i - 1]) THEN f[i - 1]
                             ELSE Append(f[i - 1], batch[i])
  BY <1>4, <1>7, <1>8 DEF RunsTo
<1>10. f = [i \in 0..N |-> IF i = 0 THEN <<>>
                           ELSE IF Drops(batch, i, known, last \o f[i - 1]) THEN f[i - 1]
                           ELSE Append(f[i - 1], batch[i])]
  <2>1. \A i \in 0..N : i = 0 \/ i \in 1..N  BY <1>1
  <2>. QED  BY <1>7, <1>9, <2>1 DEF RunsTo
<1>11. k = [i \in 0..N |-> IF i = 0 THEN <<>>
                           ELSE IF Drops(batch, i, known, last \o k[i - 1]) THEN k[i - 1]
                           ELSE Append(k[i - 1], batch[i])]
  BY <1>1, <1>10 DEF Filtered
<1>12. k[0] = <<>>  BY <1>1, <1>11
<1>13. \A i \in 1..N : k[i] = IF Drops(batch, i, known, last \o k[i - 1]) THEN k[i - 1]
                              ELSE Append(k[i - 1], batch[i])
  <2>1. TAKE i \in 1..N
  <2>2. i \in 0..N /\ i # 0  BY <1>8
  <2>3. k[i] = IF i = 0 THEN <<>>
               ELSE IF Drops(batch, i, known, last \o k[i - 1]) THEN k[i - 1]
               ELSE Append(k[i - 1], batch[i])
    BY <1>11, <2>2, Zenon
  <2>. QED  BY <2>2, <2>3, Zenon
<1>14. \A i \in 0..N : k[i] \in A
  <2>1. PICK T : T = {i \in 0..N : k[i] \notin A}  OBVIOUS
  <2>2. SUFFICES ASSUME T # {} PROVE FALSE  BY <2>1
  <2>3. T \subseteq Nat  BY <2>1
  <2>4. PICK n \in T : \A m \in T : n <= m  BY <2>2, <2>3, SmallestIn
  <2>5. n \in 0..N /\ k[n] \notin A  BY <2>1, <2>4
  <2>6. n # 0  BY <1>6, <1>12, <2>5
  <2>7. n \in 1..N /\ n - 1 \in 0..N /\ n - 1 < n  BY <2>5, <2>6
  <2>8. k[n - 1] \in A  BY <2>1, <2>3, <2>4, <2>7
  <2>9. batch[n] \in Points  BY <1>1, <2>7
  <2>10. Append(k[n - 1], batch[n]) \in A  BY <1>2, <2>8, <2>9
  <2>. QED  BY <1>13, <2>5, <2>7, <2>8, <2>10
<1>. QED  BY <1>1, <1>2, <1>8, <1>12, <1>13, <1>14

\* The filter gives points of the batch, and every exact stop of it that is
\* not known.
LEMMA FilterKeepsStops ==
  ASSUME NEW batch \in Seq(Points), NEW known, NEW last
  PROVE  /\ Filter(batch, known, last) \in PointSets
         /\ \A p \in ToSet(batch) :
              IsStop[p] /\ Accurate[p] => p \in known \cup Filter(batch, known, last)
<1>1. PICK k : k = Filtered(batch, known, last)  OBVIOUS
<1>2. /\ k[0] = <<>>
      /\ \A i \in 1..Len(batch) :
           /\ k[i - 1] \in Seq(Points) /\ k[i] \in Seq(Points)
           /\ k[i] = IF Drops(batch, i, known, last \o k[i - 1]) THEN k[i - 1]
                     ELSE Append(k[i - 1], batch[i])
  BY <1>1, FilterRuns
<1>3. PICK N \in Nat : N = Len(batch)  OBVIOUS
<1>4. k[N] \in Seq(Points)  BY <1>2, <1>3
<1>5. Filter(batch, known, last) = ToSet(k[N])  BY <1>1, <1>3 DEF Filter
<1>6. Filter(batch, known, last) \in PointSets  BY <1>4, <1>5, ElementsAreFinite DEF PointSets
\* A stop at or before a position is known or kept.
<1> DEFINE Safe(i) ==
      \A j \in 1..i : IsStop[batch[j]] /\ Accurate[batch[j]] => batch[j] \in known \cup ToSet(k[i])
<1>7. \A i \in 0..N : Safe(i)
  <2>1. PICK T : T = {i \in 0..N : ~Safe(i)}  OBVIOUS
  <2>2. SUFFICES ASSUME T # {} PROVE FALSE  BY <2>1
  <2>3. T \subseteq Nat  BY <2>1
  <2>4. PICK n \in T : \A m \in T : n <= m  BY <2>2, <2>3, SmallestIn
  <2>5. n \in 0..N /\ ~Safe(n)  BY <2>1, <2>4
  <2>6. n # 0  BY <2>5
  <2>7. n \in 1..N /\ n - 1 \in 0..N /\ n - 1 < n  BY <2>5, <2>6
  <2>8. Safe(n - 1)
    <3>1. ~(n - 1 \in T)  BY <2>3, <2>4, <2>7
    <3>. QED  BY <2>1, <2>7, <3>1
  <2>9. PICK s \in Seq(Points) : s = k[n - 1]  BY <1>2, <1>3, <2>7
  <2>10. CASE Drops(batch, n, known, last \o s)
    <3>1. k[n] = s  BY <1>2, <1>3, <2>7, <2>9, <2>10
    <3>2. IsStop[batch[n]] /\ Accurate[batch[n]] => batch[n] \in known \cup {batch[j] : j \in 1..(n - 1)}
      BY <2>10 DEF Drops, Rejects
    <3>3. \A j \in 1..n : j = n \/ j \in 1..(n - 1)  BY <2>7
    <3>4. Safe(n)  BY <2>8, <2>9, <3>1, <3>2, <3>3
    <3>. QED  BY <2>5, <3>4
  <2>11. CASE ~Drops(batch, n, known, last \o s)
    <3>1. k[n] = Append(s, batch[n])  BY <1>2, <1>3, <2>7, <2>9, <2>11
    <3>2. ToSet(k[n]) = ToSet(s) \cup {batch[n]}
      <4>1. batch[n] \in Points  BY <1>3, <2>7
      <4>. QED  BY <2>9, <3>1, <4>1, ElementsOfAppend
    <3>3. \A j \in 1..n : j = n \/ j \in 1..(n - 1)  BY <2>7
    <3>4. Safe(n)  BY <2>8, <2>9, <3>2, <3>3
    <3>. QED  BY <2>5, <3>4
  <2>. QED  BY <2>10, <2>11
<1>8. Safe(N)  BY <1>3, <1>7
<1>9. \A p \in ToSet(batch) : \E j \in 1..N : p = batch[j]  BY <1>3 DEF ToSet
<1>10. \A p \in ToSet(batch) : IsStop[p] /\ Accurate[p] => p \in known \cup Filter(batch, known, last)
  BY <1>5, <1>8, <1>9
<1>. QED  BY <1>6, <1>10

-----------------------------------------------------------------------------
(* The invariant.                                                            *)

\* A transaction in progress has read routes that only grew since.
DeviceOK(x) ==
  /\ x.pc \in {"idle", "start", "stop", "upload", "token"}
  /\ x.pc \in {"start", "stop", "upload"} => x.routes \in Seq(RouteRows) /\ Within(x.routes, route)
  /\ x.pc \in {"start", "stop"} => x.t \in Nat
  /\ x.pc = "stop" => x.r \in Nat
  /\ x.pc = "token" => x.i \in Installs
  /\ x.pc = "upload" => x.batch \in Batches /\ x.r \in Nat /\ x.new \in BOOLEAN /\ x.end \in BOOLEAN

DevicesOK == DOMAIN device = Devices /\ \A d \in Devices : DeviceOK(device[d])
StopsOK == \A p \in acked : IsStop[p] /\ Accurate[p] => p \in Stored(route)

LiveOnes(tokens, i) == {k \in 1..Len(tokens) : tokens[k].install = i /\ ~tokens[k].revoked}
TokenRows == [install : Installs, revoked : BOOLEAN]
TokensOK ==
  /\ token \in Seq(TokenRows)
  /\ ~overtaken => \A i \in Installs : \A k, l \in LiveTokens(i) : k = l

TrackInv ==
  /\ route \in Seq(RouteRows) /\ Apart(route) /\ (~overtaken => RoutesAreSound(route))
  /\ DevicesOK /\ StopsOK /\ TokensOK
  /\ overtaken \in BOOLEAN

LEMMA TrackInvImplies == TrackInv => TrackIsSound
<1>. QED
  BY DEF TrackInv, TrackIsSound, AckedStopsAreKept, OneRouteAtATime, StopsOK, TokensOK, Apart,
         RoutesAreSound, RowIsSound

\* A step that leaves a device waiting and lets the routes grow keeps the
\* others right, and keeps what was acknowledged.
LEMMA WithinGrows ==
  ASSUME NEW old, NEW mid, NEW new, Len(old) \in Nat, Len(mid) \in Nat, Len(new) \in Nat,
         Within(old, mid), Within(mid, new)
  PROVE  Within(old, new)
BY DEF Within

LEMMA WithinItself ==
  ASSUME NEW routes \in Seq(RouteRows)
  PROVE  Within(routes, routes)
BY DEF Within

LEMMA DeviceGrows ==
  ASSUME NEW x, DeviceOK(x), route \in Seq(RouteRows), route' \in Seq(RouteRows), Within(route, route')
  PROVE  DeviceOK(x)'
<1>1. x.pc \in {"start", "stop", "upload"} => x.routes \in Seq(RouteRows) /\ Within(x.routes, route')
  <2>1. SUFFICES ASSUME x.pc \in {"start", "stop", "upload"}
                 PROVE  x.routes \in Seq(RouteRows) /\ Within(x.routes, route')
    OBVIOUS
  <2>2. x.routes \in Seq(RouteRows) /\ Within(x.routes, route)  BY <2>1 DEF DeviceOK
  <2>3. Len(x.routes) \in Nat /\ Len(route) \in Nat /\ Len(route') \in Nat  BY <2>2
  <2>. QED  BY <2>2, <2>3, WithinGrows
<1>. QED  BY <1>1 DEF DeviceOK

LEMMA WaitingIsOK == DeviceOK(Waiting)
BY DEF DeviceOK, Waiting

LEMMA StoredGrows ==
  ASSUME NEW old, NEW new, Len(old) \in Nat, Len(new) \in Nat, Within(old, new)
  PROVE  Stored(old) \subseteq Stored(new)
<1>1. ASSUME NEW r \in 1..Len(old) PROVE r \in 1..Len(new) /\ old[r].points \subseteq new[r].points
  BY DEF Within
<1>. QED  BY <1>1 DEF Stored

LEMMA LeaveKeeps ==
  ASSUME DevicesOK, NEW d \in Devices, Leave(d), route \in Seq(RouteRows), route' \in Seq(RouteRows),
         Within(route, route')
  PROVE  DevicesOK'
<1>1. DOMAIN device' = Devices /\ device'[d] = Waiting
  BY DEF Leave, DevicesOK
<1>2. ASSUME NEW e \in Devices PROVE DeviceOK(device[e])' 
  <2>1. CASE e = d
    <3>1. PICK w : w = Waiting  OBVIOUS
    <3>2. DeviceOK(w)'  BY <3>1 DEF DeviceOK, Waiting
    <3>. QED  BY <1>1, <2>1, <3>1, <3>2 DEF DeviceOK
  <2>2. CASE e # d
    <3>1. device'[e] = device[e]  BY <2>2 DEF Leave, DevicesOK
    <3>2. PICK x : x = device[e]  OBVIOUS
    <3>3. DeviceOK(x)  BY <3>2 DEF DevicesOK
    <3>4. DeviceOK(x)'  BY <3>3, DeviceGrows
    <3>. QED  BY <3>1, <3>2, <3>4 DEF DeviceOK
  <2>. QED  BY <2>1, <2>2
<1>. QED  BY <1>1, <1>2 DEF DevicesOK

\* What a write must do with the routes.
LEMMA WriteKeeps ==
  ASSUME TrackInv, NEW d \in Devices, Leave(d), UNCHANGED <<token, uploads>>, Overtakes(d),
         route' \in Seq(RouteRows), Within(route, route'), Apart(route'),
         ~overtaken /\ route = Read(d) => RoutesAreSound(route'),
         \A p \in acked' : IsStop[p] /\ Accurate[p] => p \in acked \/ p \in Stored(route')
  PROVE  TrackInv'
<1>1. DevicesOK'  BY LeaveKeeps DEF TrackInv
<1>2. StopsOK'
  <2>1. Stored(route) \subseteq Stored(route')
    <3>1. Len(route) \in Nat /\ Len(route') \in Nat  BY DEF TrackInv
    <3>. QED  BY <3>1, StoredGrows
  <2>2. \A p \in acked : IsStop[p] /\ Accurate[p] => p \in Stored(route')
    BY <2>1 DEF TrackInv, StopsOK
  <2>. QED  BY <2>2 DEF StopsOK, Stored
<1>3. overtaken' \in BOOLEAN /\ (~overtaken' => ~overtaken /\ route = Read(d))
  BY DEF Overtakes, TrackInv
<1>4. TokensOK'  BY <1>3 DEF TrackInv, TokensOK, LiveTokens
<1>5. ~overtaken' => RoutesAreSound(route')  BY <1>3
<1>. QED  BY <1>1, <1>2, <1>3, <1>4, <1>5 DEF TrackInv, Apart, RoutesAreSound, ActiveIn, RowIsSound, TimesOf

LEMMA ReadKeeps ==
  ASSUME TrackInv, NEW d \in Devices, NEW x, Enter(d, x), DeviceOK(x)
  PROVE  TrackInv'
<1>1. route' = route /\ token' = token /\ acked' = acked /\ overtaken' = overtaken
  BY DEF Enter
<1>2. ASSUME NEW e \in Devices PROVE DeviceOK(device[e])'
  <2>1. CASE e = d
    <3>1. device'[e] = x  BY <2>1 DEF Enter, TrackInv, DevicesOK
    <3>. QED  BY <1>1, <3>1 DEF DeviceOK, Within
  <2>2. CASE e # d
    <3>1. device'[e] = device[e] /\ DeviceOK(device[e])  BY <2>2 DEF Enter, TrackInv, DevicesOK
    <3>. QED  BY <1>1, <3>1 DEF DeviceOK, Within
  <2>. QED  BY <2>1, <2>2
<1>3. DevicesOK'  BY <1>2 DEF DevicesOK, Enter, TrackInv
<1>4. StopsOK' /\ TokensOK'  BY <1>1 DEF TrackInv, StopsOK, Stored, TokensOK, LiveTokens
<1>. QED  BY <1>1, <1>3, <1>4 DEF TrackInv, Apart, RoutesAreSound, ActiveIn, RowIsSound, TimesOf

\* One row replaced or added.
LEMMA RowReplaced ==
  ASSUME NEW routes \in Seq(RouteRows), NEW r \in 1..Len(routes), NEW row \in RouteRows,
         NEW new, new = [routes EXCEPT ![r] = row]
  PROVE  /\ new \in Seq(RouteRows) /\ Len(new) = Len(routes) /\ new[r] = row
         /\ \A q \in 1..Len(routes) : q # r => new[q] = routes[q]
         /\ routes[r].points \subseteq row.points => Within(routes, new)
         /\ row.points = routes[r].points /\ Apart(routes) => Apart(new)
         /\ (/\ RoutesAreSound(routes) /\ RowIsSound(row)
             /\ row.status = "ACTIVE" => routes[r].status = "ACTIVE") => RoutesAreSound(new)
<1>1. /\ new \in Seq(RouteRows) /\ Len(new) = Len(routes) /\ new[r] = row
      /\ \A q \in 1..Len(routes) : q # r => new[q] = routes[q]
  OBVIOUS
<1>2. routes[r].points \subseteq row.points => Within(routes, new)  BY <1>1 DEF Within
<1>3. row.points = routes[r].points /\ Apart(routes) => Apart(new)
  <2>1. SUFFICES ASSUME row.points = routes[r].points, Apart(routes) PROVE Apart(new)  OBVIOUS
  <2>2. \A q \in 1..Len(routes) : new[q].points = routes[q].points  BY <1>1, <2>1
  <2>. QED  BY <1>1, <2>1, <2>2 DEF Apart
<1>4. (/\ RoutesAreSound(routes) /\ RowIsSound(row)
       /\ row.status = "ACTIVE" => routes[r].status = "ACTIVE") => RoutesAreSound(new)
  <2>1. SUFFICES ASSUME RoutesAreSound(routes), RowIsSound(row),
                        row.status = "ACTIVE" => routes[r].status = "ACTIVE"
                 PROVE  RoutesAreSound(new)
    OBVIOUS
  <2>2. \A q \in 1..Len(new) : RowIsSound(new[q])
    <3>1. TAKE q \in 1..Len(new)
    <3>2. CASE q = r  BY <1>1, <2>1, <3>2
    <3>3. CASE q # r
      <4>1. new[q] = routes[q] /\ RowIsSound(routes[q])  BY <1>1, <2>1, <3>3 DEF RoutesAreSound
      <4>. QED  BY <4>1
    <3>. QED  BY <3>2, <3>3
  <2>3. ActiveIn(new) \subseteq ActiveIn(routes)  BY <1>1, <2>1 DEF ActiveIn
  <2>. QED  BY <2>1, <2>2, <2>3 DEF RoutesAreSound
<1>. QED  BY <1>1, <1>2, <1>3, <1>4

\* A row that keeps its points, and its status unless it is completed.
Rewrites(routes, r, row, new) ==
  /\ routes \in Seq(RouteRows) /\ Apart(routes) /\ r \in 1..Len(routes) /\ row \in RouteRows
  /\ row.points = routes[r].points
  /\ row.status = "ACTIVE" => routes[r].status = "ACTIVE"
  /\ new = [routes EXCEPT ![r] = row]

LEMMA RowRewritten ==
  ASSUME NEW routes, NEW r, NEW row, NEW new, Rewrites(routes, r, row, new)
  PROVE  /\ new \in Seq(RouteRows) /\ Len(new) = Len(routes) /\ new[r] = row
         /\ \A q \in 1..Len(routes) : q # r => new[q] = routes[q]
         /\ Within(routes, new) /\ Apart(new)
         /\ RoutesAreSound(routes) /\ RowIsSound(row) => RoutesAreSound(new)
<1>1. /\ routes \in Seq(RouteRows) /\ Apart(routes) /\ r \in 1..Len(routes) /\ row \in RouteRows
      /\ row.points = routes[r].points
      /\ row.status = "ACTIVE" => routes[r].status = "ACTIVE"
      /\ new = [routes EXCEPT ![r] = row]
  BY DEF Rewrites
<1>2. /\ new \in Seq(RouteRows) /\ Len(new) = Len(routes) /\ new[r] = row
      /\ \A q \in 1..Len(routes) : q # r => new[q] = routes[q]
  BY <1>1, RowReplaced
<1>3. Within(routes, new)
  <2>1. \A q \in 1..Len(routes) : routes[q].points \subseteq new[q].points  BY <1>1, <1>2
  <2>. QED  BY <1>1, <1>2, <2>1 DEF Within
<1>4. Apart(new)
  <2>1. \A q \in 1..Len(routes) : new[q].points = routes[q].points  BY <1>1, <1>2
  <2>. QED  BY <1>1, <1>2, <2>1 DEF Apart
<1>5. RoutesAreSound(routes) /\ RowIsSound(row) => RoutesAreSound(new)  BY <1>1, RowReplaced
<1>. QED  BY <1>2, <1>3, <1>4, <1>5

LEMMA RowAdded ==
  ASSUME NEW routes \in Seq(RouteRows), NEW row \in RouteRows, row.points = {},
         NEW new, new = Append(routes, row)
  PROVE  /\ new \in Seq(RouteRows) /\ Len(new) = Len(routes) + 1 /\ new[Len(new)] = row
         /\ \A q \in 1..Len(routes) : new[q] = routes[q]
         /\ Within(routes, new)
         /\ Apart(routes) => Apart(new)
         /\ RoutesAreSound(routes) /\ RowIsSound(row) /\ ActiveIn(routes) = {} => RoutesAreSound(new)
<1>1. /\ new \in Seq(RouteRows) /\ Len(new) = Len(routes) + 1 /\ new[Len(new)] = row
      /\ \A q \in 1..Len(routes) : new[q] = routes[q]
      /\ Len(routes) \in Nat
  OBVIOUS
<1>2. \A q \in 1..Len(new) : q \in 1..Len(routes) \/ q = Len(new)  BY <1>1
<1>3. Within(routes, new)  BY <1>1 DEF Within
<1>4. Apart(routes) => Apart(new)
  <2>1. \A q \in 1..Len(new) : q = Len(new) => new[q].points = {}  BY <1>1
  <2>. QED  BY <1>1, <1>2, <2>1 DEF Apart
<1>5. RoutesAreSound(routes) /\ RowIsSound(row) /\ ActiveIn(routes) = {} => RoutesAreSound(new)
  <2>1. SUFFICES ASSUME RoutesAreSound(routes), RowIsSound(row), ActiveIn(routes) = {}
                 PROVE  RoutesAreSound(new)
    OBVIOUS
  <2>2. ASSUME NEW q \in 1..Len(new) PROVE RowIsSound(new[q])
    <3>1. CASE q = Len(new)  BY <1>1, <2>1, <3>1
    <3>2. CASE q # Len(new)
      <4>1. q \in 1..Len(routes)  BY <1>2, <3>2
      <4>2. new[q] = routes[q] /\ RowIsSound(routes[q])  BY <1>1, <2>1, <4>1 DEF RoutesAreSound
      <4>. QED  BY <4>2
    <3>. QED  BY <3>1, <3>2
  <2>3. ActiveIn(new) \subseteq {Len(new)}  BY <1>1, <1>2, <2>1 DEF ActiveIn
  <2>. QED  BY <2>2, <2>3 DEF RoutesAreSound
<1>. QED  BY <1>1, <1>3, <1>4, <1>5

LEMMA NewRouteIs ==
  ASSUME NEW t \in Nat
  PROVE  /\ NewRoute(t, {}) \in RouteRows /\ NewRoute(t, {}).points = {}
         /\ RowIsSound(NewRoute(t, {})) /\ NewRoute(t, {}).started = t
<1>1. {} \in PointSets  BY FS_EmptySet DEF PointSets
<1>2. PICK row : row = NewRoute(t, {})  OBVIOUS
<1>3. /\ row.points = {} /\ row.started = t /\ row.ended = 0 /\ row.status = "ACTIVE"
      /\ row \in RouteRows
  BY <1>1, <1>2 DEF NewRoute, RouteRows
<1>. QED  BY <1>2, <1>3 DEF RowIsSound, TimesOf

LEMMA ReadIs ==
  ASSUME TrackInv, NEW d \in Devices, device[d].pc \in {"start", "stop", "upload"}
  PROVE  /\ Read(d) \in Seq(RouteRows) /\ Within(Read(d), route) /\ Len(Read(d)) <= Len(route)
         /\ Len(Read(d)) \in Nat /\ Len(route) \in Nat
<1>1. Read(d) \in Seq(RouteRows) /\ Within(Read(d), route)
  BY DEF TrackInv, DevicesOK, DeviceOK, Read
<1>. QED  BY <1>1 DEF Within, TrackInv

LEMMA StartWriteStep ==
  ASSUME TrackInv, NEW d \in Devices, StartWrite(d)
  PROVE  TrackInv'
<1>1. /\ device[d].pc = "start" /\ Leave(d) /\ UNCHANGED <<token, uploads>> /\ Overtakes(d)
      /\ acked' = acked
  BY DEF StartWrite
<1>2. Read(d) \in Seq(RouteRows) /\ device[d].t \in Nat /\ route \in Seq(RouteRows) /\ Apart(route)
  BY <1>1 DEF TrackInv, DevicesOK, DeviceOK, Read
<1>3. StopsOK  BY DEF TrackInv
<1>4. CASE UNCHANGED route
  BY <1>1, <1>2, <1>4, WithinItself, WriteKeeps DEF TrackInv
<1>5. CASE CurrentIn(Read(d)) = 0 /\ route' = Append(route, NewRoute(device[d].t, {}))
  <2>1. PICK row \in RouteRows : row = NewRoute(device[d].t, {}) /\ row.points = {} /\ RowIsSound(row)
    BY <1>2, NewRouteIs
  <2>2. route' = Append(route, row)  BY <1>5, <2>1
  <2>3. ActiveIn(Read(d)) = {}  BY <1>2, <1>5, CurrentIs
  <2>4. /\ route' \in Seq(RouteRows) /\ Within(route, route') /\ Apart(route')
        /\ ~overtaken /\ route = Read(d) => RoutesAreSound(route')
    <3>1. PICK new : new = route'  OBVIOUS
    <3>2. new = Append(route, row)  BY <2>2, <3>1
    <3>3. /\ new \in Seq(RouteRows) /\ Within(route, new) /\ Apart(new)
          /\ RoutesAreSound(route) /\ ActiveIn(route) = {} => RoutesAreSound(new)
      <4>1. route \in Seq(RouteRows) /\ row \in RouteRows /\ row.points = {} /\ RowIsSound(row) /\ Apart(route)
        BY <1>2, <2>1
      <4>. QED  BY <3>2, <4>1, RowAdded, Zenon
    <3>4. ~overtaken => RoutesAreSound(route)  BY DEF TrackInv
    <3>. QED  BY <2>3, <3>1, <3>3, <3>4
  <2>. QED  BY <1>1, <2>4, WriteKeeps
<1>. QED  BY <1>4, <1>5 DEF StartWrite

LEMMA StopWriteStep ==
  ASSUME TrackInv, NEW d \in Devices, StopWrite(d)
  PROVE  TrackInv'
<1>1. PICK x : x = device[d]  OBVIOUS
<1>2. /\ x.pc = "stop" /\ x.t \in Nat /\ x.r \in Nat /\ x.routes \in Seq(RouteRows)
      /\ Read(d) = x.routes /\ Len(x.routes) <= Len(route)
      /\ Len(x.routes) \in Nat /\ Len(route) \in Nat
      /\ route \in Seq(RouteRows) /\ Apart(route)
  <2>1. x.pc = "stop"  BY <1>1 DEF StopWrite
  <2>. QED  BY <1>1, <2>1, ReadIs DEF TrackInv, DevicesOK, DeviceOK, Read
<1>3. PICK r : r = IF x.r = 0 THEN CurrentIn(x.routes) ELSE x.r  OBVIOUS
<1>4. r \in Nat  BY <1>2, <1>3, CurrentIs
<1>5. /\ Leave(d) /\ UNCHANGED <<token, uploads>> /\ Overtakes(d) /\ acked' = acked
  BY DEF StopWrite
<1>6. CASE UNCHANGED route
  BY <1>2, <1>5, <1>6, WithinItself, WriteKeeps DEF TrackInv
<1>7. CASE r # 0 /\ r <= Len(x.routes)
  <2>1. r \in 1..Len(x.routes) /\ r \in 1..Len(route)  BY <1>2, <1>4, <1>7
  <2>2. PICK old \in RouteRows : old = x.routes[r]  BY <1>2, <2>1
  <2>3. PICK cur \in RouteRows : cur = route[r]  BY <1>2, <2>1
  <2>4. PICK ats : ats = TimesOf(old.points)  OBVIOUS
  <2>5. old.points \in PointSets  BY DEF RouteRows
  <2>6. PICK until \in Nat : until = IF ats = {} THEN x.t ELSE LatestOf(ats)
    <3>1. ats # {} => old.points # {}  BY <2>4 DEF TimesOf
    <3>. QED  BY <1>2, <2>4, <2>5, <3>1, LatestTime
  <2>7. PICK read \in RouteRows : read = IF ats = {} THEN old ELSE Cover(old, old, EarliestOf(ats))
    <3>1. ats # {} => EarliestOf(ats) \in Nat
      <4>1. ats # {} => old.points # {}  BY <2>4 DEF TimesOf
      <4>. QED  BY <2>4, <2>5, <4>1, EarliestTime
    <3>. QED  BY <3>1, CoverKeeps
  <2>8. PICK begun \in RouteRows :
          /\ begun = IF ats = {} THEN cur ELSE Cover(cur, old, EarliestOf(ats))
          /\ begun.points = cur.points
          /\ cur = old /\ RowIsSound(cur) => RowIsSound(begun) /\ begun = read
    <3>1. ats # {} => EarliestOf(ats) \in Nat
      <4>1. ats # {} => old.points # {}  BY <2>4 DEF TimesOf
      <4>. QED  BY <2>4, <2>5, <4>1, EarliestTime
    <3>2. CASE ats = {}  BY <2>7, <3>2
    <3>3. CASE ats # {}
      <4>1. PICK t \in Nat : t = EarliestOf(ats)  BY <3>1, <3>3
      <4>2. PICK c \in RouteRows : c = Cover(cur, old, t) /\ c.points = cur.points
        BY CoverKeeps
      <4>3. cur = old /\ RowIsSound(cur) => RowIsSound(c)
        <5>1. RowIsSound(cur) => RowIsSound(Cover(cur, cur, t))  BY CoverIsSound
        <5>. QED  BY <4>2, <5>1
      <4>4. cur = old => c = read  BY <2>7, <3>3, <4>1, <4>2
      <4>. QED  BY <3>3, <4>1, <4>2, <4>3, <4>4
    <3>. QED  BY <3>2, <3>3
  <2>9. PICK row \in RouteRows :
          row = Complete(begun, read, until) /\ row.points = begun.points /\ row.status = "COMPLETED"
    BY CompleteKeeps
  <2>10. /\ row \in RouteRows /\ row.points = cur.points /\ row.status = "COMPLETED"
         /\ cur = old /\ RowIsSound(cur) => RowIsSound(row)
    <3>1. begun = read /\ RowIsSound(begun) => RowIsSound(row)
      BY <2>9, CompleteIsSound
    <3>. QED  BY <2>8, <2>9, <3>1
  <2>11. UNCHANGED route \/ route' = [route EXCEPT ![r] = row]
    <3>1. \/ UNCHANGED route
          \/ route' = [route EXCEPT ![r] =
               Complete(IF ats = {} THEN @ ELSE Cover(@, old, EarliestOf(ats)),
                        IF ats = {} THEN old ELSE Cover(old, old, EarliestOf(ats)),
                        IF ats = {} THEN x.t ELSE LatestOf(ats))]
      BY <1>1, <1>3, <2>2, <2>4, Zenon DEF StopWrite
    <3>. QED  BY <2>3, <2>6, <2>7, <2>8, <2>9, <3>1
  <2>12. CASE route' = [route EXCEPT ![r] = row]
    <3>1. /\ route' \in Seq(RouteRows) /\ Within(route, route') /\ Apart(route')
          /\ RoutesAreSound(route) /\ RowIsSound(row) => RoutesAreSound(route')
      <4>1. PICK new : new = route'  OBVIOUS
      <4>2. new = [route EXCEPT ![r] = row]  BY <2>12, <4>1
      <4>3. /\ new \in Seq(RouteRows) /\ Within(route, new) /\ Apart(new)
            /\ RoutesAreSound(route) /\ RowIsSound(row) => RoutesAreSound(new)
        <5>1. Rewrites(route, r, row, new)  BY <1>2, <2>1, <2>3, <2>10, <4>2 DEF Rewrites
        <5>. QED  BY <5>1, RowRewritten
      <4>. QED  BY <4>1, <4>3
    <3>2. ~overtaken /\ route = Read(d) => RoutesAreSound(route')
      <4>1. SUFFICES ASSUME ~overtaken, route = Read(d) PROVE RoutesAreSound(route')  OBVIOUS
      <4>2. cur = old  BY <1>2, <2>2, <2>3, <4>1
      <4>3. RoutesAreSound(route)  BY <4>1 DEF TrackInv
      <4>4. RowIsSound(cur)  BY <2>1, <2>3, <4>3 DEF RoutesAreSound
      <4>. QED  BY <2>10, <3>1, <4>2, <4>3, <4>4
    <3>. QED  BY <1>5, <3>1, <3>2, WriteKeeps
  <2>. QED  BY <1>6, <2>11, <2>12
<1>8. ~(r # 0 /\ r <= Len(x.routes)) => UNCHANGED route
  <2>1. r = 0 \/ r > Len(x.routes) => UNCHANGED route  BY <1>1, <1>3, Zenon DEF StopWrite
  <2>2. (r = 0 \/ r > Len(x.routes)) <=> ~(r # 0 /\ r <= Len(x.routes))  BY <1>2, <1>4
  <2>. QED  BY <2>1, <2>2
<1>. QED  BY <1>6, <1>7, <1>8

-----------------------------------------------------------------------------
(* Uploads.                                                                  *)

LEMMA TargetIs ==
  ASSUME NEW x, x.routes \in Seq(RouteRows), x.r \in Nat
  PROVE  /\ Target(x) \in 0..Len(x.routes)
         /\ Target(x) = 0 /\ ~x.new => ActiveIn(x.routes) = {}
<1>1. PICK named : named = IF x.r \in 1..Len(x.routes) /\ (x.routes[x.r].status = "ACTIVE" \/ x.end)
                           THEN x.r ELSE 0
  OBVIOUS
<1>2. Target(x) = IF named # 0 \/ x.new THEN named ELSE CurrentIn(x.routes)
  BY <1>1 DEF Target
<1>3. named \in 0..Len(x.routes)  BY <1>1
<1>4. /\ CurrentIn(x.routes) \in 0..Len(x.routes)
      /\ CurrentIn(x.routes) = 0 <=> ActiveIn(x.routes) = {}
  BY CurrentIs
<1>. QED  BY <1>2, <1>3, <1>4

\* Closing the active route for a new one.
LEMMA ClosedIs ==
  ASSUME NEW x, x.routes \in Seq(RouteRows), x.r \in Nat, x.batch \in Batches,
         NEW routes \in Seq(RouteRows), Len(x.routes) <= Len(routes), Apart(routes),
         NEW shut, shut = ClosePrevious(x, routes)
  PROVE  /\ shut \in Seq(RouteRows) /\ Len(shut) = Len(routes) /\ Within(routes, shut)
         /\ Apart(shut)
         /\ Target(x) # 0 => shut = routes
         /\ routes = x.routes /\ RoutesAreSound(routes) =>
              RoutesAreSound(shut) /\ (Target(x) = 0 => ActiveIn(shut) = {})
<1>1. PICK prev : prev = CurrentIn(x.routes)  OBVIOUS
<1>2. /\ prev \in 0..Len(x.routes) /\ (prev = 0 <=> ActiveIn(x.routes) = {})
      /\ prev # 0 => prev \in ActiveIn(x.routes)
      /\ Len(x.routes) \in Nat /\ Len(routes) \in Nat
  BY <1>1, CurrentIs
<1>3. Target(x) = 0 /\ ~x.new => ActiveIn(x.routes) = {}  BY TargetIs
<1>4. CASE Target(x) = 0 /\ x.new /\ prev # 0
  <2>1. prev \in 1..Len(x.routes) /\ prev \in 1..Len(routes)  BY <1>2, <1>4
  <2>2. PICK t \in Nat : t = RecordedAt[x.batch[1]]
    <3>1. x.batch \in Seq(Points) /\ x.batch # <<>>  BY TrackingAssumption
    <3>2. x.batch[1] \in Points  BY <3>1
    <3>. QED  BY <3>2, TrackingAssumption
  <2>3. PICK old \in RouteRows : old = x.routes[prev]  BY <2>1
  <2>4. PICK cur \in RouteRows : cur = routes[prev]  BY <2>1
  <2>5. PICK row \in RouteRows : row = Complete(cur, old, t) /\ row.points = cur.points /\ row.status = "COMPLETED"
    BY CompleteKeeps
  <2>6. shut = [routes EXCEPT ![prev] = row]
    BY <1>1, <1>4, <2>2, <2>3, <2>4, <2>5 DEF ClosePrevious
  <2>7. routes = x.routes /\ RoutesAreSound(routes) => RowIsSound(row)
    <3>1. SUFFICES ASSUME routes = x.routes, RoutesAreSound(routes) PROVE RowIsSound(row)  OBVIOUS
    <3>2. cur = old /\ RowIsSound(cur)  BY <2>1, <2>3, <2>4, <3>1 DEF RoutesAreSound
    <3>. QED  BY <2>5, <3>2, CompleteIsSound
  <2>8. /\ row.points = routes[prev].points /\ routes[prev].points \subseteq row.points
        /\ row.status # "ACTIVE"
    BY <2>4, <2>5
  <2>9. /\ shut \in Seq(RouteRows) /\ Len(shut) = Len(routes) /\ Within(routes, shut)
        /\ Apart(shut) /\ shut[prev] = row
        /\ \A q \in 1..Len(routes) : q # prev => shut[q] = routes[q]
        /\ RoutesAreSound(routes) /\ RowIsSound(row) => RoutesAreSound(shut)
    <3>1. Rewrites(routes, prev, row, shut)  BY <2>1, <2>5, <2>6, <2>8 DEF Rewrites
    <3>. QED  BY <3>1, RowRewritten
  <2>10. routes = x.routes /\ RoutesAreSound(routes) => ActiveIn(shut) = {}
    <3>1. SUFFICES ASSUME routes = x.routes, RoutesAreSound(routes) PROVE ActiveIn(shut) = {}  OBVIOUS
    <3>2. \A q \in ActiveIn(routes) : q = prev  BY <1>2, <1>4, <3>1 DEF RoutesAreSound
    <3>3. ActiveIn(shut) \subseteq ActiveIn(routes) /\ prev \notin ActiveIn(shut)
      BY <2>1, <2>8, <2>9 DEF ActiveIn
    <3>. QED  BY <3>2, <3>3
  <2>. QED  BY <1>4, <2>7, <2>9, <2>10
<1>5. CASE ~(Target(x) = 0 /\ x.new /\ prev # 0)
  <2>1. shut = routes  BY <1>1, <1>5 DEF ClosePrevious
  <2>2. Within(routes, shut)  BY <2>1, WithinItself
  <2>3. routes = x.routes /\ Target(x) = 0 => ActiveIn(shut) = {}
    BY <1>2, <1>3, <1>5, <2>1
  <2>. QED  BY <2>1, <2>2, <2>3
<1>. QED  BY <1>4, <1>5

\* Points that are in no route join one.
LEMMA InsertIs ==
  ASSUME NEW routes \in Seq(RouteRows), NEW r \in 1..Len(routes), NEW kept \in PointSets,
         Apart(routes), NEW new, new = Insert(routes, r, kept)
  PROVE  /\ new \in Seq(RouteRows) /\ Len(new) = Len(routes) /\ Within(routes, new) /\ Apart(new)
         /\ kept \subseteq Stored(new)
         /\ new[r].started = routes[r].started /\ new[r].status = routes[r].status
         /\ (/\ RoutesAreSound(routes)
             /\ \A t \in TimesOf(kept) : routes[r].started <= t) => RoutesAreSound(new)
<1>1. PICK row \in RouteRows : row = routes[r]  OBVIOUS
<1>2. PICK ps : ps = row.points \cup (kept \ (Stored(routes) \cap WithId))  OBVIOUS
<1>3. ps \in PointSets
  <2>1. kept \ (Stored(routes) \cap WithId) \in SUBSET kept /\ IsFiniteSet(kept) /\ IsFiniteSet(row.points)
    BY DEF PointSets, RouteRows
  <2>2. IsFiniteSet(kept \ (Stored(routes) \cap WithId))  BY <2>1, FS_Subset
  <2>3. IsFiniteSet(ps)  BY <1>2, <2>1, <2>2, FS_Union
  <2>. QED  BY <1>2, <2>3 DEF PointSets, RouteRows
<1>4. PICK full : full = [row EXCEPT !.points = ps]  OBVIOUS
<1>5. /\ full \in RouteRows /\ full.points = ps /\ full.started = row.started
      /\ full.status = row.status /\ full.ended = row.ended
  BY <1>3, <1>4 DEF RouteRows
<1>6. new = [routes EXCEPT ![r] = full]  BY <1>1, <1>2, <1>4 DEF Insert
<1>7. routes[r].points \subseteq full.points /\ full.status = routes[r].status
  BY <1>1, <1>2, <1>5
<1>8. /\ new \in Seq(RouteRows) /\ Len(new) = Len(routes) /\ Within(routes, new) /\ new[r] = full
      /\ \A q \in 1..Len(routes) : q # r => new[q] = routes[q]
      /\ RoutesAreSound(routes) /\ RowIsSound(full) => RoutesAreSound(new)
  <2>1. full.status = "ACTIVE" => routes[r].status = "ACTIVE"  BY <1>7
  <2>2. /\ new \in Seq(RouteRows) /\ Len(new) = Len(routes) /\ new[r] = full
        /\ \A q \in 1..Len(routes) : q # r => new[q] = routes[q]
    BY <1>5, <1>6, RowReplaced
  <2>3. Within(routes, new)  BY <1>5, <1>6, <1>7, RowReplaced
  <2>4. RoutesAreSound(routes) /\ RowIsSound(full) => RoutesAreSound(new)
    BY <1>5, <1>6, <2>1, RowReplaced
  <2>. QED  BY <2>2, <2>3, <2>4
<1>9. \A q \in 1..Len(routes) : routes[q].points \subseteq Stored(routes)  BY DEF Stored
<1>10. Apart(new)
  <2>1. ASSUME NEW q \in 1..Len(routes), q # r PROVE new[q].points \cap new[r].points \cap WithId = {}
    <3>1. new[q].points = routes[q].points /\ new[r].points = ps  BY <1>5, <1>8, <2>1
    <3>2. routes[q].points \cap routes[r].points \cap WithId = {}  BY <2>1 DEF Apart
    <3>. QED  BY <1>1, <1>2, <1>9, <3>1, <3>2
  <2>2. ASSUME NEW p \in 1..Len(routes), NEW q \in 1..Len(routes), p # r, q # r,
               new[p].points \cap new[q].points \cap WithId # {}
        PROVE  p = q
    <3>1. new[p] = routes[p] /\ new[q] = routes[q]  BY <1>8, <2>2
    <3>. QED  BY <2>2, <3>1 DEF Apart
  <2>. QED  BY <1>8, <2>1, <2>2 DEF Apart
<1>11. kept \subseteq Stored(new)
  <2>1. Stored(routes) \subseteq Stored(new)
    <3>1. Len(routes) \in Nat /\ Len(new) \in Nat  BY <1>8
    <3>. QED  BY <1>8, <3>1, StoredGrows
  <2>2. ps \subseteq Stored(new)  BY <1>5, <1>8 DEF Stored
  <2>. QED  BY <1>2, <2>1, <2>2
<1>12. ASSUME RoutesAreSound(routes), \A t \in TimesOf(kept) : routes[r].started <= t
       PROVE  RowIsSound(full)
  <2>1. RowIsSound(row)  BY <1>1, <1>12 DEF RoutesAreSound
  <2>2. \A t \in TimesOf(ps) : t \in TimesOf(row.points) \/ t \in TimesOf(kept)
    BY <1>2 DEF TimesOf
  <2>3. \A t \in TimesOf(full.points) : full.started <= t
    BY <1>1, <1>5, <1>12, <2>1, <2>2 DEF RowIsSound
  <2>4. full.status = "COMPLETED" => full.started <= full.ended  BY <1>5, <2>1 DEF RowIsSound
  <2>. QED  BY <2>3, <2>4 DEF RowIsSound
<1>. QED  BY <1>1, <1>5, <1>8, <1>10, <1>11, <1>12

LEMMA UploadWriteStep ==
  ASSUME TrackInv, NEW d \in Devices, NEW lost \in BOOLEAN, UploadWrite(d, lost)
  PROVE  TrackInv'
<1>1. PICK x : x = device[d]  OBVIOUS
<1>2. /\ x.pc = "upload" /\ x.r \in Nat /\ x.batch \in Batches /\ x.routes \in Seq(RouteRows)
      /\ Read(d) = x.routes /\ Len(x.routes) <= Len(route)
      /\ Len(x.routes) \in Nat /\ Len(route) \in Nat
      /\ route \in Seq(RouteRows) /\ Apart(route)
      /\ Within(x.routes, route)
  <2>1. x.pc = "upload"  BY <1>1 DEF UploadWrite
  <2>. QED  BY <1>1, <2>1, ReadIs DEF TrackInv, DevicesOK, DeviceOK, Read
<1>3. /\ Leave(d) /\ UNCHANGED <<token, uploads>> /\ Overtakes(d)
      /\ acked' = IF lost THEN acked ELSE acked \cup ToSet(x.batch)
  BY <1>1 DEF UploadWrite
<1>4. PICK t \in 0..Len(x.routes) : t = Target(x) /\ (t = 0 /\ ~x.new => ActiveIn(x.routes) = {})
  BY <1>2, TargetIs
<1>5. PICK saved \in PointSets : saved = IF t = 0 THEN {} ELSE x.routes[t].points
  <2>1. {} \in PointSets  BY FS_EmptySet DEF PointSets
  <2>2. CASE t # 0
    <3>1. t \in 1..Len(x.routes)  BY <1>2, <2>2
    <3>2. x.routes[t] \in RouteRows  BY <1>2, <3>1
    <3>. QED  BY <2>2, <3>2 DEF RouteRows
  <2>. QED  BY <2>1, <2>2
<1>6. PICK kept \in PointSets :
        /\ kept = Filter(x.batch, Stored(x.routes), LastPoint(saved))
        /\ \A p \in ToSet(x.batch) : IsStop[p] /\ Accurate[p] => p \in Stored(x.routes) \cup kept
  <2>1. x.batch \in Seq(Points)  BY <1>2, TrackingAssumption
  <2>. QED  BY <2>1, FilterKeepsStops
<1>7. /\ RecordedAt[x.batch[1]] \in Nat /\ RecordedAt[Last(x.batch)] \in Nat
  <2>1. x.batch \in Seq(Points) /\ x.batch # <<>>  BY <1>2, TrackingAssumption
  <2>2. x.batch[1] \in Points /\ x.batch[Len(x.batch)] \in Points  BY <2>1
  <2>. QED  BY <2>2, TrackingAssumption DEF Last
<1>8. PICK shut : shut = ClosePrevious(x, route)  OBVIOUS
<1>9. /\ shut \in Seq(RouteRows) /\ Len(shut) = Len(route) /\ Within(route, shut)
      /\ Apart(shut)
      /\ t # 0 => shut = route
      /\ route = x.routes /\ RoutesAreSound(route) =>
           RoutesAreSound(shut) /\ (t = 0 => ActiveIn(shut) = {})
  BY <1>2, <1>4, <1>8, ClosedIs
<1>10. PICK first \in Nat : first = IF kept = {} THEN RecordedAt[x.batch[1]] ELSE EarliestOf(TimesOf(kept))
  BY <1>7, EarliestTime
<1>11. \A u \in TimesOf(kept) : first <= u
  <2>1. kept = {} => TimesOf(kept) = {}  BY DEF TimesOf
  <2>. QED  BY <1>10, <2>1, EarliestTime
<1>12. PICK until \in Nat : until = IF kept = {} THEN RecordedAt[Last(x.batch)] ELSE LatestOf(TimesOf(kept))
  BY <1>7, LatestTime
<1>13. PICK begun, r :
        /\ begun = IF t = 0 THEN Append(shut, NewRoute(first, {}))
                   ELSE [shut EXCEPT ![t] = IF kept \cup saved = {} THEN @
                                              ELSE Cover(@, x.routes[t], EarliestOf(TimesOf(kept \cup saved)))]
        /\ r = IF t = 0 THEN Len(begun) ELSE t
  OBVIOUS
<1>14. PICK read :
         read = IF t = 0 THEN Insert(begun, r, kept)[r]
                ELSE IF kept \cup saved = {} THEN x.routes[t]
                ELSE Cover(x.routes[t], x.routes[t], EarliestOf(TimesOf(kept \cup saved)))
  OBVIOUS
<1>15. /\ begun \in Seq(RouteRows) /\ r \in 1..Len(begun) /\ Within(route, begun) /\ Apart(begun)
       /\ Len(begun) \in Nat
       /\ t # 0 => read \in RouteRows
       /\ route = x.routes /\ RoutesAreSound(route) =>
            /\ RoutesAreSound(begun)
            /\ \A u \in TimesOf(kept) : begun[r].started <= u
            /\ t # 0 => read.started = begun[r].started
  <2>1. CASE t = 0
    <3>1. PICK row \in RouteRows : /\ row = NewRoute(first, {}) /\ row.points = {} /\ RowIsSound(row)
                                   /\ row.started = first
      BY NewRouteIs
    <3>2. begun = Append(shut, row) /\ r = Len(begun)  BY <1>13, <2>1, <3>1
    <3>3. /\ begun \in Seq(RouteRows) /\ Len(begun) = Len(shut) + 1 /\ begun[Len(begun)] = row
          /\ Within(shut, begun) /\ Apart(begun)
          /\ RoutesAreSound(shut) /\ ActiveIn(shut) = {} => RoutesAreSound(begun)
      BY <1>9, <3>1, <3>2, RowAdded, Zenon
    <3>4. Len(begun) \in Nat /\ r \in 1..Len(begun)  BY <1>2, <1>9, <3>2, <3>3
    <3>5. Within(route, begun)
      <4>1. Len(shut) \in Nat  BY <1>2, <1>9
      <4>. QED  BY <1>2, <1>9, <3>3, <3>4, <4>1, WithinGrows
    <3>6. route = x.routes /\ RoutesAreSound(route) =>
            RoutesAreSound(begun) /\ \A u \in TimesOf(kept) : begun[r].started <= u
      BY <1>9, <1>11, <2>1, <3>1, <3>2, <3>3
    <3>. QED  BY <2>1, <3>3, <3>4, <3>5, <3>6
  <2>2. CASE t # 0
    <3>1. t \in 1..Len(x.routes) /\ t \in 1..Len(route)  BY <1>2, <1>4, <2>2
    <3>2. shut = route /\ r = t  BY <1>9, <1>13, <2>2
    <3>3. PICK old \in RouteRows : old = x.routes[t]  BY <1>2, <3>1
    <3>4. PICK cur \in RouteRows : cur = route[t]  BY <1>2, <3>1
    <3>5. PICK K \in PointSets : K = kept \cup saved
      <4>1. IsFiniteSet(kept \cup saved)  BY FS_Union DEF PointSets
      <4>. QED  BY <4>1 DEF PointSets
    <3>6. K # {} => EarliestOf(TimesOf(K)) \in Nat  BY EarliestTime
    <3>7. PICK row \in RouteRows :
            /\ row = IF K = {} THEN cur ELSE Cover(cur, old, EarliestOf(TimesOf(K)))
            /\ row.points = cur.points /\ row.status = cur.status
      <4>1. CASE K = {}  BY <4>1
      <4>2. CASE K # {}
        <5>1. PICK e \in Nat : e = EarliestOf(TimesOf(K))  BY <3>6, <4>2
        <5>. QED  BY <4>2, <5>1, CoverKeeps
      <4>. QED  BY <4>1, <4>2
    <3>8. /\ read \in RouteRows
          /\ cur = old => read = row
      <4>1. read = IF K = {} THEN old ELSE Cover(old, old, EarliestOf(TimesOf(K)))
        BY <1>14, <2>2, <3>3, <3>5
      <4>2. CASE K = {}  BY <3>7, <4>1, <4>2
      <4>3. CASE K # {}
        <5>1. PICK e \in Nat : e = EarliestOf(TimesOf(K))  BY <3>6, <4>3
        <5>2. Cover(old, old, e) \in RouteRows  BY CoverKeeps
        <5>. QED  BY <3>7, <4>1, <4>3, <5>1, <5>2
      <4>. QED  BY <4>2, <4>3
    <3>9. cur = old /\ RowIsSound(cur) => RowIsSound(row) /\ \A u \in TimesOf(K) : row.started <= u
      <4>1. SUFFICES ASSUME cur = old, RowIsSound(cur)
                     PROVE  RowIsSound(row) /\ \A u \in TimesOf(K) : row.started <= u
        OBVIOUS
      <4>2. CASE K = {}
        <5>1. TimesOf(K) = {}  BY <4>2 DEF TimesOf
        <5>. QED  BY <3>7, <4>1, <4>2, <5>1
      <4>3. CASE K # {}
        <5>1. PICK e \in Nat : e = EarliestOf(TimesOf(K)) /\ \A u \in TimesOf(K) : e <= u
          BY <4>3, EarliestTime
        <5>2. row = Cover(cur, cur, e)  BY <3>7, <4>1, <4>3, <5>1
        <5>3. RowIsSound(row) /\ row.started <= e  BY <4>1, <5>2, CoverIsSound
        <5>4. row.started \in Nat /\ TimesOf(K) \subseteq Nat  BY TimesAreFinite DEF RouteRows
        <5>. QED  BY <5>1, <5>3, <5>4
      <4>. QED  BY <4>2, <4>3
    <3>10. begun = [route EXCEPT ![t] = row]
      BY <1>13, <2>2, <3>2, <3>3, <3>4, <3>5, <3>7
    <3>11. /\ row.points = route[t].points /\ route[t].points \subseteq row.points
           /\ row.status = route[t].status
      BY <3>4, <3>7
    <3>12. /\ begun \in Seq(RouteRows) /\ Len(begun) = Len(route) /\ begun[t] = row
           /\ Within(route, begun) /\ Apart(begun)
           /\ RoutesAreSound(route) /\ RowIsSound(row) => RoutesAreSound(begun)
      <4>1. Rewrites(route, t, row, begun)  BY <1>2, <3>1, <3>7, <3>10, <3>11 DEF Rewrites
      <4>. QED  BY <4>1, RowRewritten
    <3>13. \A u \in TimesOf(kept) : u \in TimesOf(K)  BY <3>5 DEF TimesOf
    <3>14. ASSUME route = x.routes, RoutesAreSound(route)
           PROVE  /\ RoutesAreSound(begun)
                  /\ \A u \in TimesOf(kept) : begun[r].started <= u
                  /\ read.started = begun[r].started
      <4>1. cur = old  BY <3>3, <3>4, <3>14
      <4>2. RowIsSound(cur)  BY <3>1, <3>4, <3>14 DEF RoutesAreSound
      <4>. QED  BY <3>2, <3>8, <3>9, <3>12, <3>13, <3>14, <4>1, <4>2
    <3>. QED  BY <1>2, <2>2, <3>1, <3>2, <3>8, <3>12, <3>14
  <2>. QED  BY <2>1, <2>2
<1>16. PICK filled : filled = Insert(begun, r, kept)  OBVIOUS
<1>17. /\ filled \in Seq(RouteRows) /\ Len(filled) = Len(begun) /\ Within(begun, filled) /\ Apart(filled)
       /\ kept \subseteq Stored(filled)
       /\ filled[r].started = begun[r].started /\ filled[r].status = begun[r].status
       /\ (/\ RoutesAreSound(begun)
           /\ \A u \in TimesOf(kept) : begun[r].started <= u) => RoutesAreSound(filled)
  BY <1>15, <1>16, InsertIs
<1>19. PICK last \in RouteRows : last = filled[r]  BY <1>15, <1>17
<1>20. read \in RouteRows /\ (route = x.routes /\ RoutesAreSound(route) => read.started = last.started)
  <2>1. CASE t = 0  BY <1>14, <1>16, <1>19, <2>1
  <2>2. CASE t # 0  BY <1>15, <1>17, <1>19, <2>2
  <2>. QED  BY <2>1, <2>2
<1>21. PICK row \in RouteRows :
         /\ row = Complete(last, read, until) /\ row.points = last.points /\ row.status = "COMPLETED"
         /\ RowIsSound(last) /\ read.started = last.started => RowIsSound(row)
  BY <1>20, CompleteKeeps, CompleteIsSound
<1>22. route' = filled \/ route' = [filled EXCEPT ![r] = row]
  <2> DEFINE x0 == device[d]
             t0 == Target(x0)
             saved0 == IF t0 = 0 THEN {} ELSE x0.routes[t0].points
             kept0 == Filter(x0.batch, Stored(x0.routes), LastPoint(saved0))
             closed0 == ClosePrevious(x0, route)
             first0 == IF kept0 = {} THEN RecordedAt[x0.batch[1]] ELSE EarliestOf(TimesOf(kept0))
             cover0(w) == IF kept0 \cup saved0 = {} THEN w
                          ELSE Cover(w, x0.routes[t0], EarliestOf(TimesOf(kept0 \cup saved0)))
             begun0 == IF t0 = 0 THEN Append(closed0, NewRoute(first0, {}))
                       ELSE [closed0 EXCEPT ![t0] = cover0(@)]
             r0 == IF t0 = 0 THEN Len(begun0) ELSE t0
             filled0 == Insert(begun0, r0, kept0)
             ends0 == x0.end /\ (t0 = 0 \/ x0.routes[t0].status = "ACTIVE")
             until0 == IF kept0 = {} THEN RecordedAt[Last(x0.batch)] ELSE LatestOf(TimesOf(kept0))
  <2>1. route' = IF ends0
                 THEN [filled0 EXCEPT ![r0] =
                         Complete(@, IF t0 = 0 THEN @ ELSE cover0(x0.routes[t0]), until0)]
                 ELSE filled0
    BY DEF UploadWrite
  <2>14. x0 = x  BY <1>1
  <2> HIDE DEF x0, ends0
  <2>2. t0 = t  BY <1>4, <2>14
  <2> HIDE DEF t0
  <2>3. saved0 = saved  BY <1>5, <2>2, <2>14
  <2> HIDE DEF saved0
  <2>4. kept0 = kept  BY <1>6, <2>3, <2>14
  <2> HIDE DEF kept0
  <2>5. first0 = first /\ until0 = until  BY <1>10, <1>12, <2>4, <2>14
  <2>6. closed0 = shut  BY <1>8, <2>14
  <2> HIDE DEF first0, until0, closed0
  <2>7. \A w : cover0(w) = IF kept \cup saved = {} THEN w
                           ELSE Cover(w, x.routes[t], EarliestOf(TimesOf(kept \cup saved)))
    BY <2>2, <2>3, <2>4, <2>14
  <2>8. begun0 = begun  BY <1>13, <2>2, <2>5, <2>6, <2>7
  <2> HIDE DEF begun0
  <2>9. r0 = r  BY <1>13, <2>2, <2>8
  <2> HIDE DEF r0
  <2>10. filled0 = filled  BY <1>16, <2>4, <2>8, <2>9
  <2> HIDE DEF filled0
  <2>11. read = IF t0 = 0 THEN last ELSE cover0(x0.routes[t0])
    BY <1>14, <1>16, <1>19, <2>2, <2>7, <2>14
  <2> HIDE DEF cover0
  <2>12. last = filled0[r0]  BY <1>19, <2>9, <2>10
  <2>13. row = Complete(filled0[r0], IF t0 = 0 THEN filled0[r0] ELSE cover0(x0.routes[t0]), until0)
    BY <1>21, <2>5, <2>11, <2>12
  <2>. QED  BY <2>1, <2>9, <2>10, <2>13
<1>23. /\ route' \in Seq(RouteRows) /\ Len(route') = Len(filled) /\ Within(filled, route') /\ Apart(route')
       /\ route = x.routes /\ RoutesAreSound(route) /\ RoutesAreSound(filled) => RoutesAreSound(route')
  <2>1. CASE route' = filled  BY <1>17, <2>1, WithinItself
  <2>2. CASE route' = [filled EXCEPT ![r] = row]
    <3>1. PICK new : new = route'  OBVIOUS
    <3>2. new = [filled EXCEPT ![r] = row] /\ r \in 1..Len(filled)  BY <1>15, <1>17, <2>2, <3>1
    <3>3. row.points = filled[r].points /\ filled[r].points \subseteq row.points /\ row.status # "ACTIVE"
      BY <1>19, <1>21
    <3>4. /\ new \in Seq(RouteRows) /\ Len(new) = Len(filled) /\ Within(filled, new) /\ Apart(new)
          /\ RoutesAreSound(filled) /\ RowIsSound(row) => RoutesAreSound(new)
      <4>1. Rewrites(filled, r, row, new)  BY <1>17, <1>21, <3>2, <3>3 DEF Rewrites
      <4>. QED  BY <4>1, RowRewritten
    <3>5. route = x.routes /\ RoutesAreSound(route) /\ RoutesAreSound(filled) => RowIsSound(row)
      <4>1. RoutesAreSound(filled) => RowIsSound(last)  BY <1>19, <3>2 DEF RoutesAreSound
      <4>. QED  BY <1>20, <1>21, <4>1
    <3>. QED  BY <3>1, <3>4, <3>5
  <2>. QED  BY <1>22, <2>1, <2>2
<1>24. Within(route, route')
  <2>1. Len(filled) \in Nat /\ Len(route') \in Nat  BY <1>15, <1>17, <1>23
  <2>2. Within(begun, route')  BY <1>15, <1>17, <1>23, <2>1, WithinGrows
  <2>. QED  BY <1>2, <1>15, <2>1, <2>2, WithinGrows
<1>25. ~overtaken /\ route = Read(d) => RoutesAreSound(route')
  BY <1>2, <1>15, <1>17, <1>23 DEF TrackInv
<1>26. \A p \in acked' : IsStop[p] /\ Accurate[p] => p \in acked \/ p \in Stored(route')
  <2>1. Len(filled) \in Nat /\ Len(route') \in Nat  BY <1>15, <1>17, <1>23
  <2>2. kept \subseteq Stored(route')  BY <1>17, <1>23, <2>1, StoredGrows
  <2>3. Stored(x.routes) \subseteq Stored(route')
    <3>1. Stored(x.routes) \subseteq Stored(route)  BY <1>2, StoredGrows
    <3>2. Stored(route) \subseteq Stored(route')  BY <1>2, <1>24, <2>1, StoredGrows
    <3>. QED  BY <3>1, <3>2
  <2>4. \A p \in acked' : p \in acked \/ p \in ToSet(x.batch)  BY <1>3
  <2>. QED  BY <1>6, <2>2, <2>3, <2>4
<1>. QED  BY <1>3, <1>23, <1>24, <1>25, <1>26, WriteKeeps

-----------------------------------------------------------------------------
(* Device tokens.                                                            *)

\* Tokens that are revoked where a condition holds.
RevokedWhere(tokens, S) ==
  [k \in 1..Len(tokens) |-> [tokens[k] EXCEPT !.revoked = @ \/ k \in S]]

LEMMA RevokedIs ==
  ASSUME NEW tokens \in Seq(TokenRows), NEW S, NEW new, new = RevokedWhere(tokens, S)
  PROVE  /\ new \in Seq(TokenRows) /\ Len(new) = Len(tokens)
         /\ \A k \in 1..Len(tokens) :
              /\ new[k].install = tokens[k].install
              /\ ~new[k].revoked => ~tokens[k].revoked /\ k \notin S
<1>1. Len(tokens) \in Nat  OBVIOUS
<1>2. ASSUME NEW k \in 1..Len(tokens)
      PROVE  /\ new[k] \in TokenRows /\ new[k].install = tokens[k].install
             /\ ~new[k].revoked => ~tokens[k].revoked /\ k \notin S
  <2>1. PICK row \in TokenRows : row = tokens[k]  BY <1>1
  <2>2. (row.revoked \/ k \in S) \in BOOLEAN  OBVIOUS
  <2>3. PICK b \in BOOLEAN : b = (row.revoked \/ k \in S)  BY <2>2
  <2>4. PICK out : out = [row EXCEPT !.revoked = b]  OBVIOUS
  <2>5. new[k] = out  BY <2>1, <2>3, <2>4 DEF RevokedWhere
  <2>6. out \in TokenRows /\ out.install = row.install /\ out.revoked = b  BY <2>4 DEF TokenRows
  <2>7. ~out.revoked => ~row.revoked /\ k \notin S
    <3>1. SUFFICES ASSUME ~out.revoked PROVE ~row.revoked /\ k \notin S  OBVIOUS
    <3>2. ~b  BY <2>6, <3>1, Zenon
    <3>. QED  BY <2>3, <3>2, Zenon
  <2>8. ~new[k].revoked => ~tokens[k].revoked /\ k \notin S  BY <2>1, <2>5, <2>7, Zenon
  <2>. QED  BY <2>1, <2>5, <2>6, <2>8
<1>3. DOMAIN new = 1..Len(tokens)  BY DEF RevokedWhere
<1>4. new = [k \in 1..Len(tokens) |-> new[k]]  BY DEF RevokedWhere
<1>5. new \in [1..Len(tokens) -> TokenRows]  BY <1>2, <1>4
<1>6. new \in Seq(TokenRows) /\ Len(new) = Len(tokens)  BY <1>1, <1>5
<1>. QED  BY <1>2, <1>6

\* What a step on the tokens must do.
LEMMA TokenStepKeeps ==
  ASSUME TrackInv, UNCHANGED <<route, acked>>, TokensOK', DevicesOK',
         overtaken' \in BOOLEAN, ~overtaken' => ~overtaken
  PROVE  TrackInv'
<1>1. StopsOK'  BY DEF TrackInv, StopsOK, Stored
<1>. QED  BY <1>1 DEF TrackInv, Apart, RoutesAreSound, ActiveIn, RowIsSound, TimesOf

LEMMA TokenWriteStep ==
  ASSUME TrackInv, NEW d \in Devices, device[d].i \in Installs, TokenWrite(d)
  PROVE  TrackInv'
<1>1. PICK x : x = device[d]  OBVIOUS
<1>2. token \in Seq(TokenRows) /\ Len(token) \in Nat  BY DEF TrackInv, TokensOK
<1>3. PICK S : S = {k \in 1..Len(token) : token[k].install = x.i /\ k <= Len(x.tokens)}  OBVIOUS
<1>4. PICK old : old = RevokedWhere(token, S)  OBVIOUS
<1>5. /\ old \in Seq(TokenRows) /\ Len(old) = Len(token)
      /\ \A k \in 1..Len(token) :
           /\ old[k].install = token[k].install
           /\ ~old[k].revoked => ~token[k].revoked /\ k \notin S
  BY <1>2, <1>4, RevokedIs
<1>6. token' = Append(old, [install |-> x.i, revoked |-> FALSE])
  <2>1. old = [k \in 1..Len(token) |->
                 [token[k] EXCEPT !.revoked = @ \/ (token[k].install = x.i /\ k <= Len(x.tokens))]]
    <3>1. \A k \in 1..Len(token) : (k \in S) = (token[k].install = x.i /\ k <= Len(x.tokens))
      BY <1>3
    <3>. QED  BY <1>4, <3>1, Zenon DEF RevokedWhere
  <2>. QED  BY <1>1, <2>1, Zenon DEF TokenWrite
<1>7. PICK fresh \in TokenRows : fresh = [install |-> x.i, revoked |-> FALSE] /\ fresh.install = x.i
  <2>1. [install |-> x.i, revoked |-> FALSE] \in TokenRows  BY <1>1 DEF TokenRows
  <2>. QED  BY <2>1
<1>8. PICK new : new = token'  OBVIOUS
<1>9. /\ new \in Seq(TokenRows) /\ Len(new) = Len(token) + 1 /\ new[Len(new)] = fresh
      /\ \A k \in 1..Len(token) : new[k] = old[k]
  BY <1>2, <1>5, <1>6, <1>7, <1>8
<1>10. overtaken' \in BOOLEAN /\ (~overtaken' => ~overtaken /\ token = x.tokens)
  BY <1>1 DEF TokenWrite, TrackInv
<1>11. ASSUME ~overtaken', NEW i \in Installs, NEW k \in LiveTokens(i)', NEW l \in LiveTokens(i)'
       PROVE  k = l
  <2>1. /\ k \in 1..Len(new) /\ new[k].install = i /\ ~new[k].revoked
        /\ l \in 1..Len(new) /\ new[l].install = i /\ ~new[l].revoked
    BY <1>8, <1>11, Zenon DEF LiveTokens
  <2>2. \A j \in 1..Len(token) : j \in S <=> token[j].install = x.i
    BY <1>3, <1>10, <1>11
  <2>3. ASSUME NEW j \in 1..Len(token), new[j].install = i, ~new[j].revoked
        PROVE  j \in LiveTokens(i) /\ i # x.i
    <3>1. ~old[j].revoked /\ old[j].install = i  BY <1>9, <2>3, Zenon
    <3>2. ~token[j].revoked /\ j \notin S /\ token[j].install = i  BY <1>5, <3>1, Zenon
    <3>3. token[j].install # x.i  BY <2>2, <3>2, Zenon
    <3>4. j \in LiveTokens(i)  BY <3>2, Zenon DEF LiveTokens
    <3>. QED  BY <3>2, <3>3, <3>4, Zenon
  <2>4. \A j \in 1..Len(new) : j \in 1..Len(token) \/ j = Len(new)  BY <1>2, <1>9
  <2>5. \A j \in 1..Len(new) : j = Len(new) => new[j].install = x.i  BY <1>7, <1>9
  <2>6. CASE i = x.i
    <3>1. k \notin 1..Len(token) /\ l \notin 1..Len(token)  BY <2>1, <2>3, <2>6, Zenon
    <3>. QED  BY <2>1, <2>4, <3>1, Zenon
  <2>7. CASE i # x.i
    <3>1. k \in 1..Len(token) /\ l \in 1..Len(token)  BY <2>1, <2>4, <2>5, <2>7, Zenon
    <3>2. k \in LiveTokens(i) /\ l \in LiveTokens(i)  BY <2>1, <2>3, <3>1, Zenon
    <3>3. ~overtaken  BY <1>10, <1>11, Zenon
    <3>. QED  BY <3>2, <3>3, Zenon DEF TrackInv, TokensOK
  <2>. QED  BY <2>6, <2>7, Zenon
<1>12. TokensOK'  BY <1>8, <1>9, <1>11, Zenon DEF TokensOK
<1>13. Leave(d) /\ UNCHANGED <<route, acked>>  BY DEF TokenWrite
<1>14. DevicesOK'
  <2>1. /\ DevicesOK /\ route \in Seq(RouteRows) /\ route' \in Seq(RouteRows)
        /\ Within(route, route')
    BY <1>13, WithinItself DEF TrackInv
  <2>. QED  BY <1>13, <2>1, LeaveKeeps
<1>. QED  BY <1>10, <1>12, <1>13, <1>14, TokenStepKeeps, Zenon

LEMMA RevokeStep ==
  ASSUME TrackInv, NEW S, RevokeTokens(S)
  PROVE  TrackInv'
<1>1. token \in Seq(TokenRows) /\ Len(token) \in Nat  BY DEF TrackInv, TokensOK
<1>2. PICK K : K = {k \in 1..Len(token) : token[k].install \in S}  OBVIOUS
<1>3. PICK new : new = token'  OBVIOUS
<1>4. new = RevokedWhere(token, K)
  <2>1. \A k \in 1..Len(token) : (k \in K) = (token[k].install \in S)  BY <1>2
  <2>. QED  BY <1>3, <2>1, Zenon DEF RevokeTokens, RevokedWhere
<1>5. /\ new \in Seq(TokenRows) /\ Len(new) = Len(token)
      /\ \A k \in 1..Len(token) :
           /\ new[k].install = token[k].install
           /\ ~new[k].revoked => ~token[k].revoked /\ k \notin K
  BY <1>1, <1>4, RevokedIs
<1>6. UNCHANGED <<route, device, acked>> /\ overtaken' = overtaken  BY DEF RevokeTokens
<1>7. ASSUME NEW i \in Installs PROVE LiveTokens(i)' \subseteq LiveTokens(i)
  <2>1. ASSUME NEW k \in LiveTokens(i)' PROVE k \in LiveTokens(i)
    <3>1. k \in 1..Len(new) /\ new[k].install = i /\ ~new[k].revoked
      BY <1>3, <2>1, Zenon DEF LiveTokens
    <3>2. k \in 1..Len(token) /\ token[k].install = i /\ ~token[k].revoked  BY <1>5, <3>1, Zenon
    <3>. QED  BY <3>2, Zenon DEF LiveTokens
  <2>. QED  BY <2>1
<1>8. ~overtaken' => \A i \in Installs : \A k, l \in LiveTokens(i)' : k = l
  BY <1>6, <1>7, Zenon DEF TrackInv, TokensOK
<1>9. TokensOK'  BY <1>3, <1>5, <1>8, Zenon DEF TokensOK
<1>10. DevicesOK'  BY <1>6 DEF TrackInv, DevicesOK, DeviceOK, Within
<1>. QED  BY <1>6, <1>9, <1>10, TokenStepKeeps DEF TrackInv

LEMMA TrackInvStep == TrackInv /\ [TrackingNext]_tracking => TrackInv'
<1> SUFFICES ASSUME TrackInv, [TrackingNext]_tracking PROVE TrackInv'  OBVIOUS
<1>1. ASSUME NEW d \in Devices, NEW t \in Times, StartRead(d, t) PROVE TrackInv'
  <2>1. PICK x : x = [pc |-> "start", t |-> t, routes |-> route]  OBVIOUS
  <2>2. Within(route, route)  BY WithinItself DEF TrackInv
  <2>3. DeviceOK(x)  BY <2>1, <2>2, TrackingAssumption DEF DeviceOK, TrackInv
  <2>. QED  BY <1>1, <2>1, <2>3, ReadKeeps DEF StartRead
<1>2. ASSUME NEW d \in Devices, NEW t \in Times, NEW r \in 0..MaxRoutes, StopRead(d, r, t) PROVE TrackInv'
  <2>1. PICK x : x = [pc |-> "stop", r |-> r, t |-> t, routes |-> route]  OBVIOUS
  <2>2. Within(route, route)  BY WithinItself DEF TrackInv
  <2>3. DeviceOK(x)  BY <2>1, <2>2, TrackingAssumption DEF DeviceOK, TrackInv
  <2>. QED  BY <1>2, <2>1, <2>3, ReadKeeps DEF StopRead
<1>3. ASSUME NEW d \in Devices, NEW b \in Batches, NEW r \in 0..MaxRoutes, NEW new \in BOOLEAN,
             NEW end \in BOOLEAN, UploadRead(d, b, r, new, end)
      PROVE  TrackInv'
  <2>1. PICK x : x = [pc |-> "upload", batch |-> b, r |-> r, new |-> new, end |-> end, routes |-> route]
    OBVIOUS
  <2>2. Within(route, route)  BY WithinItself DEF TrackInv
  <2>3. DeviceOK(x)  BY <2>1, <2>2 DEF DeviceOK, TrackInv
  <2>. QED  BY <1>3, <2>1, <2>3, ReadKeeps DEF UploadRead
<1>4. ASSUME NEW d \in Devices, NEW i \in Installs, TokenRead(d, i) PROVE TrackInv'
  <2>1. PICK x : x = [pc |-> "token", i |-> i, tokens |-> token]  OBVIOUS
  <2>2. DeviceOK(x)  BY <2>1 DEF DeviceOK
  <2>. QED  BY <1>4, <2>1, <2>2, ReadKeeps DEF TokenRead
<1>5. ASSUME NEW d \in Devices, TokenWrite(d) PROVE TrackInv'
  <2>1. device[d].i \in Installs  BY <1>5 DEF TokenWrite, TrackInv, DevicesOK, DeviceOK
  <2>. QED  BY <1>5, <2>1, TokenWriteStep
<1>6. CASE UNCHANGED tracking
  BY <1>6 DEF tracking, TrackInv, Apart, RoutesAreSound, ActiveIn, RowIsSound, TimesOf, DevicesOK,
              DeviceOK, Within, StopsOK, Stored, TokensOK, LiveTokens
<1>. QED
  BY <1>1, <1>2, <1>3, <1>4, <1>5, <1>6, StartWriteStep, StopWriteStep, UploadWriteStep, RevokeStep
  DEF TrackingNext

\* What the app was told is stored, a point with an id once, and as long as no
\* transactions of the user overlap in order: one active route, which covers its points, and one
\* live token of an installation (routes/tracking.ts).
THEOREM TrackStaysSound == TrackingSpec => []TrackIsSound
<1>1. TrackingInit => TrackInv
  <2>1. SUFFICES ASSUME TrackingInit PROVE TrackInv  OBVIOUS
  <2>2. route = <<>> /\ token = <<>> /\ acked = {} /\ overtaken = FALSE  BY <2>1 DEF TrackingInit
  <2>3. route \in Seq(RouteRows) /\ token \in Seq(TokenRows) /\ Len(route) = 0 /\ Len(token) = 0
    BY <2>2
  <2>4. Apart(route) /\ RoutesAreSound(route)  BY <2>3 DEF Apart, RoutesAreSound, ActiveIn
  <2>5. DevicesOK  BY <2>1, WaitingIsOK DEF TrackingInit, DevicesOK
  <2>6. StopsOK /\ TokensOK  BY <2>2, <2>3 DEF StopsOK, TokensOK, LiveTokens
  <2>. QED  BY <2>2, <2>3, <2>4, <2>5, <2>6 DEF TrackInv
<1>2. QED  BY <1>1, TrackInvStep, TrackInvImplies, PTL DEF TrackingSpec

-----------------------------------------------------------------------------
(* Appeals: the reminder of an unread message.                               *)

\* Bounded positions have a last one.
LEMMA LastPosition ==
  ASSUME NEW N \in Nat, NEW S, S \subseteq 1..N, S # {}
  PROVE  Max(S) \in S
<1>1. PICK T : T = {N - i : i \in S}  OBVIOUS
<1>2. T \subseteq Nat /\ T # {}
  <2>1. \A i \in S : N - i \in Nat /\ N - i \in T  BY <1>1
  <2>. QED  BY <1>1, <2>1
<1>3. PICK m \in T : \A k \in T : ~(<<k, m>> \in OpToRel(<, Nat))
  BY <1>2, WFMin, NatLessThanWellFounded, Zenon
<1>4. PICK top \in S : m = N - top  BY <1>1
<1>5. ASSUME NEW i \in S PROVE top >= i
  <2>1. N - i \in T /\ N - i \in Nat /\ m \in Nat  BY <1>1, <1>2
  <2>2. ~(N - i < m)  BY <1>3, <2>1, Zenon DEF OpToRel
  <2>3. i \in Nat /\ top \in Nat  OBVIOUS
  <2>. QED  BY <1>4, <2>2, <2>3
<1>6. \E i \in S : \A k \in S : i >= k  BY <1>5
<1>7. Max(S) = CHOOSE i \in S : \A k \in S : i >= k  BY DEF Max
<1>. QED  BY <1>6, <1>7

RowFields == {"number", "by", "status", "dept", "assignees", "deadline", "history", "messages"}
RowOK(row) == DOMAIN row = RowFields /\ \E M : row.messages \in Seq(M)
SlotFields == {"pc", "by", "a", "seen", "n"}
SlotOK(x, len) ==
  DOMAIN x = SlotFields /\ (x.pc \notin {"idle", "create"} => x.a \in 1..len)

\* The reminder of the last message, not of an earlier one.
Covered(a) ==
  \/ job[a]["UNREAD_REMINDER"] \in Nat /\ LatestUserMessage(a) <= job[a]["UNREAD_REMINDER"]
  \/ \E x \in popped : /\ x[1] = a /\ x[2] = "UNREAD_REMINDER"
                       /\ x[3] \in Nat /\ LatestUserMessage(a) <= x[3]
  \/ \E s \in Slots : slot[s].a = a /\ slot[s].pc \in RemindPcs

\* While an appeal owes a reminder it is active.
Owes(a) == owed[a] => appeal[a].status \in Active /\ (IsUnread(a) => Covered(a))

AppealRows == (\E R : appeal \in Seq(R)) /\ \A a \in 1..Len(appeal) : RowOK(appeal[a])
JobsOK == DOMAIN job = 1..MaxAppeals /\ \A a \in 1..MaxAppeals : DOMAIN job[a] = JobTypes
AppealsInv ==
  /\ AppealRows /\ Len(appeal) <= MaxAppeals /\ JobsOK
  /\ owed \in [1..MaxAppeals -> BOOLEAN]
  /\ DOMAIN slot = Slots /\ \A s \in Slots : SlotOK(slot[s], Len(appeal))
  /\ \A a \in 1..Len(appeal) : Owes(a)

LEMMA LatestMessageIs ==
  ASSUME NEW a, RowOK(appeal[a])
  PROVE  /\ LatestUserMessage(a) \in 0..Len(appeal[a].messages) /\ Len(appeal[a].messages) \in Nat
<1>1. PICK M : appeal[a].messages \in Seq(M)  BY DEF RowOK
<1>2. PICK n \in Nat : n = Len(appeal[a].messages)  BY <1>1
<1>3. PICK S : S = {i \in 1..n : appeal[a].messages[i].kind = "USER" /\ ~appeal[a].messages[i].deleted}
  OBVIOUS
<1>4. LatestUserMessage(a) = IF S = {} THEN 0 ELSE Max(S)  BY <1>2, <1>3 DEF LatestUserMessage
<1>5. S # {} => Max(S) \in 1..n  BY <1>3, LastPosition
<1>. QED  BY <1>2, <1>4, <1>5

\* Messages of the system come after those of users.
Continues(old, new) ==
  /\ \E M : old \in Seq(M) /\ new \in Seq(M)
  /\ Len(old) <= Len(new) /\ \A i \in 1..Len(old) : new[i] = old[i]
  /\ \A i \in 1..Len(new) : i > Len(old) => new[i].kind = "SYSTEM"

LEMMA SystemMessagesSilent ==
  ASSUME NEW a, RowOK(appeal[a]), Continues(appeal[a].messages, appeal'[a].messages)
  PROVE  LatestUserMessage(a)' = LatestUserMessage(a) /\ IsUnread(a)' = IsUnread(a)
<1>1. PICK old : old = appeal[a].messages  OBVIOUS
<1>2. PICK new : new = appeal'[a].messages  OBVIOUS
<1>3. /\ Len(old) \in Nat /\ Len(new) \in Nat /\ Len(old) <= Len(new)
      /\ \A i \in 1..Len(old) : new[i] = old[i]
      /\ \A i \in 1..Len(new) : i > Len(old) => new[i].kind = "SYSTEM"
  BY <1>1, <1>2 DEF Continues
<1>4. PICK S : S = {i \in 1..Len(old) : old[i].kind = "USER" /\ ~old[i].deleted}  OBVIOUS
<1>5. S = {i \in 1..Len(new) : new[i].kind = "USER" /\ ~new[i].deleted}
  <2>1. \A i \in S : i \in 1..Len(new) /\ new[i].kind = "USER" /\ ~new[i].deleted  BY <1>3, <1>4
  <2>2. ASSUME NEW i \in 1..Len(new), new[i].kind = "USER", ~new[i].deleted PROVE i \in S
    <3>1. i <= Len(old)  BY <1>3, <2>2
    <3>2. i \in 1..Len(old) /\ new[i] = old[i]  BY <1>3, <3>1
    <3>. QED  BY <1>4, <2>2, <3>2
  <2>. QED  BY <2>1, <2>2
<1>6. PICK n : n = IF S = {} THEN 0 ELSE Max(S)  OBVIOUS
<1>7. LatestUserMessage(a) = n  BY <1>1, <1>4, <1>6 DEF LatestUserMessage
<1>8. LatestUserMessage(a)' = n  BY <1>2, <1>5, <1>6 DEF LatestUserMessage
<1>9. n \in 0..Len(old)  BY <1>1, <1>7, LatestMessageIs
<1>10. n # 0 => new[n] = old[n]  BY <1>3, <1>9
<1>11. IsUnread(a) = (n # 0 /\ old[n].reads = {})  BY <1>1, <1>7 DEF IsUnread
<1>12. IsUnread(a)' = (n # 0 /\ new[n].reads = {})  BY <1>2, <1>8 DEF IsUnread
<1>. QED  BY <1>7, <1>8, <1>10, <1>11, <1>12

LEMMA Joined ==
  ASSUME NEW L, NEW old \in Seq(L), NEW w \in Seq(L)
  PROVE  /\ old \o w \in Seq(L) /\ Len(old \o w) = Len(old) + Len(w)
         /\ \A i \in 1..Len(old) : (old \o w)[i] = old[i]
         /\ \A i \in 1..Len(old \o w) : i > Len(old) => (old \o w)[i] = w[i - Len(old)]
OBVIOUS

LEMMA SystemMessagesContinue ==
  ASSUME NEW old, \E M : old \in Seq(M), NEW u, NEW n \in Nat
  PROVE  /\ Continues(old, old \o SystemMessages(u, n))
         /\ \E M : old \o SystemMessages(u, n) \in Seq(M)
<1>1. PICK M : old \in Seq(M)  OBVIOUS
<1>2. PICK m : m = Message(u, "SYSTEM")  OBVIOUS
<1>3. PICK L : L = M \cup {m}  OBVIOUS
<1>4. PICK w : w = SystemMessages(u, n)  OBVIOUS
<1>5. w = [i \in 1..n |-> m]  BY <1>2, <1>4 DEF SystemMessages
<1>6. w \in Seq(L) /\ Len(w) = n /\ \A i \in 1..n : w[i] = m  BY <1>3, <1>5
<1>7. old \in Seq(L)  BY <1>1, <1>3
<1>8. m.kind = "SYSTEM"  BY <1>2 DEF Message
<1>9. PICK new : new = old \o w  OBVIOUS
<1>10. /\ new \in Seq(L) /\ Len(new) = Len(old) + n
       /\ \A i \in 1..Len(old) : new[i] = old[i]
       /\ \A i \in 1..Len(new) : i > Len(old) => new[i] = w[i - Len(old)]
  <2>1. w \in Seq(L) /\ Len(w) = n  BY <1>6
  <2>2. /\ old \o w \in Seq(L) /\ Len(old \o w) = Len(old) + Len(w)
        /\ \A i \in 1..Len(old) : (old \o w)[i] = old[i]
        /\ \A i \in 1..Len(old \o w) : i > Len(old) => (old \o w)[i] = w[i - Len(old)]
    BY <1>7, <2>1, Joined, Zenon
  <2>. QED  BY <1>9, <2>1, <2>2, Zenon
<1>11. Len(old) \in Nat  BY <1>7
<1>12. ASSUME NEW i \in 1..Len(new), i > Len(old) PROVE new[i].kind = "SYSTEM"
  <2>1. i - Len(old) \in 1..n  BY <1>10, <1>11, <1>12
  <2>2. new[i] = m  BY <1>6, <1>10, <1>12, <2>1
  <2>. QED  BY <1>8, <2>2
<1>13. Continues(old, new)  BY <1>7, <1>10, <1>11, <1>12 DEF Continues
<1>. QED  BY <1>4, <1>9, <1>10, <1>13

LEMMA ContinuesItself ==
  ASSUME NEW old, \E M : old \in Seq(M)
  PROVE  Continues(old, old)
BY DEF Continues

\* A handler or its background work writes the row of its appeal.
RowWrite(s, a, new, y) ==
  /\ slot[s].pc \notin {"idle", "create"} /\ a = slot[s].a
  /\ RowOK(new) /\ appeal' = [appeal EXCEPT ![a] = new]
  /\ slot' = [slot EXCEPT ![s] = y] /\ SlotOK(y, Len(appeal))
  /\ UNCHANGED <<job, popped>>
  /\ owed' \in [1..MaxAppeals -> BOOLEAN]
  /\ \A b \in 1..MaxAppeals : b # a => owed'[b] = owed[b]
  /\ owed'[a] =>
       /\ new.status \in Active
       /\ \/ y.pc \in RemindPcs /\ y.a = a
          \/ owed[a] /\ slot[s].pc \notin RemindPcs /\ Continues(appeal[a].messages, new.messages)

LEMMA RowStep ==
  ASSUME AppealsInv, NEW s \in Slots, NEW a, NEW new, NEW y, RowWrite(s, a, new, y)
  PROVE  AppealsInv'
<1>. USE DEF RowWrite
<1>1. PICK R : appeal \in Seq(R)  BY DEF AppealsInv, AppealRows
<1>2. a \in 1..Len(appeal) /\ Len(appeal) \in Nat /\ Len(appeal) <= MaxAppeals /\ MaxAppeals \in Nat
  BY <1>1, AppealsAssumption DEF AppealsInv, SlotOK
<1>3. /\ appeal' \in Seq(R \cup {new}) /\ Len(appeal') = Len(appeal) /\ appeal'[a] = new
      /\ \A b \in 1..Len(appeal) : b # a => appeal'[b] = appeal[b]
  BY <1>1, <1>2
<1>4. AppealRows' /\ Len(appeal') <= MaxAppeals /\ JobsOK'
  BY <1>2, <1>3 DEF AppealsInv, AppealRows, JobsOK
<1>5. /\ DOMAIN slot' = Slots /\ slot'[s] = y /\ \A t \in Slots : t # s => slot'[t] = slot[t]
      /\ \A t \in Slots : SlotOK(slot'[t], Len(appeal'))
  BY <1>3 DEF AppealsInv
<1>6. ASSUME NEW b \in 1..Len(appeal), b # a PROVE Owes(b)'
  <2>1. Owes(b) /\ owed'[b] = owed[b] /\ appeal'[b] = appeal[b]
    BY <1>2, <1>3, <1>6 DEF AppealsInv
  <2>2. RowOK(appeal[b]) /\ Continues(appeal[b].messages, appeal'[b].messages)
    BY <2>1, ContinuesItself DEF AppealsInv, AppealRows, RowOK
  <2>3. LatestUserMessage(b)' = LatestUserMessage(b) /\ IsUnread(b)' = IsUnread(b)
    BY <2>2, SystemMessagesSilent
  <2>4. Covered(b) => Covered(b)'
    <3>1. \A t \in Slots : slot[t].a = b => slot'[t] = slot[t]  BY <1>5, <1>6
    <3>. QED  BY <2>3, <3>1 DEF Covered
  <2>. QED  BY <2>1, <2>3, <2>4 DEF Owes
<1>7. Owes(a)'
  <2>1. CASE y.pc \in RemindPcs /\ y.a = a
    <3>1. Covered(a)'  BY <1>5, <2>1 DEF Covered
    <3>. QED  BY <1>3, <3>1 DEF Owes
  <2>2. CASE owed[a] /\ slot[s].pc \notin RemindPcs /\ Continues(appeal[a].messages, new.messages)
    <3>1. RowOK(appeal[a]) /\ Owes(a)  BY <1>2 DEF AppealsInv, AppealRows
    <3>2. LatestUserMessage(a)' = LatestUserMessage(a) /\ IsUnread(a)' = IsUnread(a)
      BY <1>3, <2>2, <3>1, SystemMessagesSilent
    <3>3. Covered(a) => Covered(a)'
      <4>1. \A t \in Slots : slot[t].pc \in RemindPcs => slot'[t] = slot[t]  BY <1>5, <2>2
      <4>. QED  BY <3>2, <4>1 DEF Covered
    <3>. QED  BY <1>3, <2>2, <3>1, <3>2, <3>3 DEF Owes
  <2>3. CASE ~owed'[a]  BY <2>3 DEF Owes
  <2>. QED  BY <2>1, <2>2, <2>3
<1>. QED  BY <1>3, <1>4, <1>5, <1>6, <1>7 DEF AppealsInv

\* What stands for the reminder is handed on, or there is a new job for it.
KeepsOwing(a) ==
  \/ owed[a] /\ (IsUnread(a) /\ Covered(a) => Covered(a)')
  \/ appeal[a].status \in Active /\ Covered(a)'

\* A step that leaves the rows alone.
LEMMA JobStep ==
  ASSUME AppealsInv, UNCHANGED appeal, JobsOK',
         owed' \in [1..MaxAppeals -> BOOLEAN],
         DOMAIN slot' = Slots, \A s \in Slots : SlotOK(slot'[s], Len(appeal)),
         \A a \in 1..Len(appeal) : owed'[a] => KeepsOwing(a)
  PROVE  AppealsInv'
<1>1. AppealRows' /\ Len(appeal') <= MaxAppeals  BY DEF AppealsInv, AppealRows
<1>2. ASSUME NEW a \in 1..Len(appeal) PROVE Owes(a)'
  <2>1. Owes(a)  BY DEF AppealsInv
  <2>2. IsUnread(a)' = IsUnread(a)  BY DEF IsUnread, LatestUserMessage
  <2>. QED  BY <2>1, <2>2 DEF Owes, KeepsOwing
<1>. QED  BY <1>1, <1>2 DEF AppealsInv

-----------------------------------------------------------------------------
(* Handlers.                                                                 *)

\* What a handler that is at work knows of its appeal.
LEMMA HandlerOn ==
  ASSUME AppealsInv, NEW s \in Slots, slot[s].pc \notin {"idle", "create"}
  PROVE  /\ slot[s].a \in 1..Len(appeal) /\ slot[s].a \in 1..MaxAppeals
         /\ RowOK(appeal[slot[s].a]) /\ SlotOK(slot[s], Len(appeal))
         /\ DOMAIN slot = Slots /\ owed \in [1..MaxAppeals -> BOOLEAN]
         /\ (owed[slot[s].a] => appeal[slot[s].a].status \in Active)
<1>1. slot[s].a \in 1..Len(appeal)  BY DEF AppealsInv, SlotOK
<1>2. Len(appeal) \in Nat  BY DEF AppealsInv, AppealRows
<1>. QED  BY <1>1, <1>2, AppealsAssumption DEF AppealsInv, AppealRows, Owes

LEMMA IdleIsOK ==
  ASSUME NEW n \in Nat
  PROVE  SlotOK(Idle, n) /\ Idle.pc = "idle" /\ Idle.pc \notin RemindPcs
BY DEF SlotOK, Idle, SlotFields, RemindPcs

LEMMA PcIsOK ==
  ASSUME AppealsInv, NEW s \in Slots, slot[s].pc \notin {"idle", "create"}, NEW pc, NEW y,
         y = [slot[s] EXCEPT !.pc = pc]
  PROVE  SlotOK(y, Len(appeal)) /\ y.pc = pc /\ y.a = slot[s].a
<1>1. SlotOK(slot[s], Len(appeal))  BY HandlerOn
<1>. QED  BY <1>1 DEF SlotOK, SlotFields

\* A handler that adds messages of the system and sets no status but an
\* active one.
LEMMA QuietHandlerStep ==
  ASSUME AppealsInv, NEW s \in Slots, Handling(s), NEW new, RowOK(new),
         Continues(appeal[slot[s].a].messages, new.messages),
         new.status \in Active \/ new.status = appeal[slot[s].a].status,
         Update(s, new), Done(s), UNCHANGED <<job, owed, popped>>
  PROVE  AppealsInv'
<1>1. slot[s].pc \notin {"idle", "create"} /\ slot[s].pc \notin RemindPcs
  BY DEF Handling, RemindPcs
<1>2. PICK a : a = slot[s].a  OBVIOUS
<1>3. Len(appeal) \in Nat  BY DEF AppealsInv, AppealRows
<1>4. /\ appeal' = [appeal EXCEPT ![a] = new] /\ slot' = [slot EXCEPT ![s] = Idle]
      /\ SlotOK(Idle, Len(appeal))
  BY <1>2, <1>3, IdleIsOK DEF Update, Done
<1>5. owed[a] => appeal[a].status \in Active  BY <1>1, <1>2, HandlerOn
<1>6. owed' = owed /\ owed \in [1..MaxAppeals -> BOOLEAN]  BY <1>1, HandlerOn
<1>7. RowWrite(s, a, new, Idle)  BY <1>1, <1>2, <1>4, <1>5, <1>6 DEF RowWrite
<1>. QED  BY <1>7, RowStep

LEMMA ChangedLen ==
  ASSUME NEW x, NEW y
  PROVE  /\ Len(Changed(x, y)) \in Nat
         /\ (Changed(x, y) = <<>>) = (x = y)
BY DEF Changed

LEMMA AssignStep ==
  ASSUME AppealsInv, NEW s \in Slots, NEW S, Assign(s, S)
  PROVE  AppealsInv'
<1>1. Handling(s) /\ Done(s) /\ UNCHANGED <<job, owed, popped>>  BY DEF Assign, Keep
<1>2. PICK row : row = appeal[slot[s].a]  OBVIOUS
<1>3. PICK next : next = AssignedStatus(S, Seen(s).status)  OBVIOUS
<1>4. PICK change : change = Changed(Seen(s).status, next)  OBVIOUS
<1>5. PICK notes \in Nat : notes = (IF S # Seen(s).assignees THEN 1 ELSE 0) + Len(change)
  BY <1>4, ChangedLen
<1>6. PICK ms : ms = row.messages \o SystemMessages(slot[s].by, notes)  OBVIOUS
<1>7. PICK new : new = [row EXCEPT !.assignees = S,
                                  !.status = IF change = <<>> THEN @ ELSE next,
                                  !.history = @ \o change,
                                  !.messages = ms]
  OBVIOUS
<1>8. Update(s, new)  BY <1>2, <1>3, <1>4, <1>5, <1>6, <1>7 DEF Assign
<1>9. RowOK(row)  BY <1>1, <1>2, HandlerOn DEF Handling
<1>10. Continues(row.messages, ms) /\ \E M : ms \in Seq(M)
  BY <1>6, <1>9, SystemMessagesContinue DEF RowOK
<1>11. DOMAIN new = RowFields /\ new.messages = ms
       /\ new.status = (IF change = <<>> THEN row.status ELSE next)
  BY <1>7, <1>9 DEF RowOK, RowFields
<1>12. change = <<>> \/ next \in Active
  BY <1>3, <1>4, ChangedLen DEF AssignedStatus, Active
<1>. QED  BY <1>1, <1>2, <1>8, <1>10, <1>11, <1>12, QuietHandlerStep DEF RowOK

LEMMA ClaimStep ==
  ASSUME AppealsInv, NEW s \in Slots, Claim(s)
  PROVE  AppealsInv'
<1>1. Handling(s) /\ Done(s) /\ UNCHANGED <<job, owed, popped>>  BY DEF Claim, Keep
<1>2. PICK row : row = appeal[slot[s].a]  OBVIOUS
<1>3. PICK u : u = slot[s].by  OBVIOUS
<1>4. PICK joins : joins = (u \notin Seen(s).assignees)  OBVIOUS
<1>5. PICK change : change = Changed(Seen(s).status, "IN_PROGRESS")  OBVIOUS
<1>6. PICK notes \in Nat : notes = (IF joins THEN 1 ELSE 0) + Len(change)  BY <1>5, ChangedLen
<1>7. PICK ms : ms = row.messages \o SystemMessages(u, notes)  OBVIOUS
<1>8. PICK new : new = [row EXCEPT !.assignees = IF joins THEN @ \cup {u} ELSE @,
                                  !.status = IF change = <<>> THEN @ ELSE "IN_PROGRESS",
                                  !.history = @ \o change,
                                  !.messages = ms]
  OBVIOUS
<1>9. UNCHANGED appeal \/ Update(s, new)
  BY <1>2, <1>3, <1>4, <1>5, <1>6, <1>7, <1>8 DEF Claim
<1>10. RowOK(row)  BY <1>1, <1>2, HandlerOn DEF Handling
<1>11. Continues(row.messages, ms) /\ \E M : ms \in Seq(M)
  BY <1>7, <1>10, SystemMessagesContinue DEF RowOK
<1>12. DOMAIN new = RowFields /\ new.messages = ms
       /\ (new.status = row.status \/ new.status \in Active)
  BY <1>8, <1>10 DEF RowOK, RowFields, Active
<1>13. CASE Update(s, new)
  BY <1>1, <1>2, <1>11, <1>12, <1>13, QuietHandlerStep DEF RowOK
<1>14. CASE UNCHANGED appeal
  <2>1. slot[s].a \in 1..Len(appeal) /\ Continues(row.messages, row.messages)
    BY <1>1, <1>2, <1>10, HandlerOn, ContinuesItself DEF Handling, RowOK
  <2>2. Update(s, row)
    <3>1. PICK R : appeal \in Seq(R)  BY DEF AppealsInv, AppealRows
    <3>. QED  BY <1>2, <1>14, <2>1, <3>1 DEF Update
  <2>. QED  BY <1>1, <1>2, <1>10, <2>1, <2>2, QuietHandlerStep
<1>. QED  BY <1>9, <1>13, <1>14

LEMMA TransferStep ==
  ASSUME AppealsInv, NEW s \in Slots, NEW d, Transfer(s, d)
  PROVE  AppealsInv'
<1>1. Handling(s) /\ Done(s) /\ UNCHANGED <<job, owed, popped>>  BY DEF Transfer, Keep
<1>2. PICK row : row = appeal[slot[s].a]  OBVIOUS
<1>3. PICK change : change = Changed(Seen(s).status, "OPEN")  OBVIOUS
<1>4. PICK notes \in Nat : notes = 1 + Len(change)  BY <1>3, ChangedLen
<1>5. PICK ms : ms = row.messages \o SystemMessages(slot[s].by, notes)  OBVIOUS
<1>6. PICK new : new = [row EXCEPT !.dept = d, !.assignees = {}, !.status = "OPEN",
                                  !.history = @ \o change, !.messages = ms]
  OBVIOUS
<1>7. Update(s, new)  BY <1>2, <1>3, <1>4, <1>5, <1>6 DEF Transfer
<1>8. RowOK(row)  BY <1>1, <1>2, HandlerOn DEF Handling
<1>9. Continues(row.messages, ms) /\ \E M : ms \in Seq(M)
  BY <1>5, <1>8, SystemMessagesContinue DEF RowOK
<1>10. DOMAIN new = RowFields /\ new.messages = ms /\ new.status \in Active
  BY <1>6, <1>8 DEF RowOK, RowFields, Active
<1>. QED  BY <1>1, <1>2, <1>7, <1>9, <1>10, QuietHandlerStep DEF RowOK

LEMMA SetDeadlineStep ==
  ASSUME AppealsInv, NEW s \in Slots, NEW d, SetDeadline(s, d)
  PROVE  AppealsInv'
<1>1. Handling(s) /\ Done(s) /\ UNCHANGED <<job, owed, popped>>  BY DEF SetDeadline, Keep
<1>2. PICK row : row = appeal[slot[s].a]  OBVIOUS
<1>3. PICK ms : ms = row.messages \o SystemMessages(slot[s].by, 1)  OBVIOUS
<1>4. PICK new : new = [row EXCEPT !.deadline = d, !.messages = ms]  OBVIOUS
<1>5. Update(s, new)  BY <1>2, <1>3, <1>4 DEF SetDeadline
<1>6. RowOK(row)  BY <1>1, <1>2, HandlerOn DEF Handling
<1>7. Continues(row.messages, ms) /\ \E M : ms \in Seq(M)
  BY <1>3, <1>6, SystemMessagesContinue DEF RowOK
<1>8. DOMAIN new = RowFields /\ new.messages = ms /\ new.status = row.status
  BY <1>4, <1>6 DEF RowOK, RowFields
<1>. QED  BY <1>1, <1>2, <1>5, <1>7, <1>8, QuietHandlerStep DEF RowOK

LEMMA SetStatusStep ==
  ASSUME AppealsInv, NEW s \in Slots, NEW status \in Statuses, SetStatus(s, status)
  PROVE  AppealsInv'
<1>1. slot[s].pc \notin {"idle", "create"} /\ slot[s].pc \notin RemindPcs
  BY DEF SetStatus, Handling, RemindPcs
<1>2. PICK a : a = slot[s].a  OBVIOUS
<1>3. /\ a \in 1..MaxAppeals /\ RowOK(appeal[a]) /\ owed \in [1..MaxAppeals -> BOOLEAN]
      /\ DOMAIN slot = Slots /\ SlotOK(slot[s], Len(appeal))
  BY <1>1, <1>2, HandlerOn
<1>4. PICK new : new = [appeal[a] EXCEPT !.status = status]  OBVIOUS
<1>5. RowOK(new) /\ new.status = status /\ new.messages = appeal[a].messages
  BY <1>3, <1>4 DEF RowOK, RowFields
<1>6. PICK y : y = [slot[s] EXCEPT !.pc = status]  OBVIOUS
<1>7. SlotOK(y, Len(appeal)) /\ y.pc = status /\ y.a = a  BY <1>1, <1>2, <1>6, PcIsOK
<1>8. /\ appeal' = [appeal EXCEPT ![a] = new] /\ slot' = [slot EXCEPT ![s] = y]
      /\ UNCHANGED <<job, popped>>
  BY <1>2, <1>4, <1>6 DEF SetStatus, Update, Keep
<1>9. /\ owed' \in [1..MaxAppeals -> BOOLEAN] /\ (owed'[a] => status \in Active)
      /\ \A b \in 1..MaxAppeals : b # a => owed'[b] = owed[b]
  <2>1. PICK v \in BOOLEAN : v = (owed[a] /\ status \in Active)  OBVIOUS
  <2>2. owed' = [owed EXCEPT ![a] = v]  BY <1>2, <2>1, Zenon DEF SetStatus, Closes
  <2>. QED  BY <1>3, <2>1, <2>2
<1>10. status \in Active => status \in RemindPcs  BY DEF Active, RemindPcs
<1>11. RowWrite(s, a, new, y)  BY <1>1, <1>2, <1>5, <1>7, <1>8, <1>9, <1>10 DEF RowWrite
<1>. QED  BY <1>11, RowStep

LEMMA RecordStatusStep ==
  ASSUME AppealsInv, NEW s \in Slots, RecordStatus(s)
  PROVE  AppealsInv'
<1>1. slot[s].pc \in Statuses /\ slot[s].pc \notin {"idle", "create"}
  BY DEF RecordStatus, Statuses
<1>2. PICK a : a = slot[s].a  OBVIOUS
<1>3. /\ RowOK(appeal[a]) /\ owed \in [1..MaxAppeals -> BOOLEAN]
      /\ (owed[a] => appeal[a].status \in Active)
  BY <1>1, <1>2, HandlerOn
<1>4. PICK ms : ms = appeal[a].messages \o SystemMessages(slot[s].by, 1)  OBVIOUS
<1>5. Continues(appeal[a].messages, ms) /\ \E M : ms \in Seq(M)
  BY <1>3, <1>4, SystemMessagesContinue DEF RowOK
<1>6. PICK new : new = [appeal[a] EXCEPT
                          !.history = Append(@, [from |-> Seen(s).status, to |-> slot[s].pc]),
                          !.messages = ms]
  OBVIOUS
<1>7. RowOK(new) /\ new.messages = ms /\ new.status = appeal[a].status
  BY <1>3, <1>5, <1>6 DEF RowOK, RowFields
<1>8. PICK pc : pc = CASE slot[s].pc \in {"RESOLVED", "COMPLETED"} -> "cancelClosure"
                       [] slot[s].pc = "DECLINED" -> "cancel"
                       [] OTHER -> "cancelUnread"
  OBVIOUS
<1>9. slot[s].pc \in RemindPcs => pc \in RemindPcs
  BY <1>1, <1>8 DEF Statuses, RemindPcs
<1>10. PICK y : y = [slot[s] EXCEPT !.pc = pc]  OBVIOUS
<1>11. SlotOK(y, Len(appeal)) /\ y.pc = pc /\ y.a = a  BY <1>1, <1>2, <1>10, PcIsOK
<1>12. appeal' = [appeal EXCEPT ![a] = new]
  BY <1>2, <1>4, <1>6 DEF RecordStatus, Update
<1>13. slot' = [slot EXCEPT ![s] = y]  BY <1>8, <1>10 DEF RecordStatus, To
<1>14. UNCHANGED <<job, popped, owed>>  BY DEF RecordStatus, Keep
<1>15. RowWrite(s, a, new, y)  BY <1>1, <1>2, <1>3, <1>5, <1>7, <1>9, <1>11, <1>12, <1>13, <1>14 DEF RowWrite
<1>. QED  BY <1>15, RowStep

LEMMA PostMessageStep ==
  ASSUME AppealsInv, NEW s \in Slots, PostMessage(s)
  PROVE  AppealsInv'
<1>1. slot[s].pc \notin {"idle", "create"}  BY DEF PostMessage, Handling
<1>2. PICK a : a = slot[s].a  OBVIOUS
<1>3. a \in 1..MaxAppeals /\ RowOK(appeal[a]) /\ owed \in [1..MaxAppeals -> BOOLEAN]
  BY <1>1, <1>2, HandlerOn
<1>4. PICK ms : ms = Append(appeal[a].messages, Message(slot[s].by, "USER"))  OBVIOUS
<1>5. \E M : ms \in Seq(M)
  <2>1. PICK M : appeal[a].messages \in Seq(M)  BY <1>3 DEF RowOK
  <2>2. ms \in Seq(M \cup {Message(slot[s].by, "USER")})  BY <1>4, <2>1
  <2>. QED  BY <2>2
<1>6. PICK new : new = [appeal[a] EXCEPT !.messages = ms]  OBVIOUS
<1>7. RowOK(new) /\ new.status = appeal[a].status  BY <1>3, <1>5, <1>6 DEF RowOK, RowFields
<1>8. PICK y : y = [slot[s] EXCEPT !.pc = "cancelUnread"]  OBVIOUS
<1>9. SlotOK(y, Len(appeal)) /\ y.pc = "cancelUnread" /\ y.a = a  BY <1>1, <1>2, <1>8, PcIsOK
<1>10. /\ appeal' = [appeal EXCEPT ![a] = new] /\ slot' = [slot EXCEPT ![s] = y]
       /\ UNCHANGED <<job, popped>>
  BY <1>2, <1>4, <1>6, <1>8 DEF PostMessage, Update, To, Keep
<1>11. /\ owed' \in [1..MaxAppeals -> BOOLEAN] /\ (owed'[a] => appeal[a].status \in Active)
       /\ \A b \in 1..MaxAppeals : b # a => owed'[b] = owed[b]
  <2>0. (appeal[a].status \in Active) \in BOOLEAN  OBVIOUS
  <2>1. PICK v \in BOOLEAN : v = (appeal[a].status \in Active)  BY <2>0, Zenon
  <2>2. owed' = [owed EXCEPT ![a] = v]  BY <1>2, <2>1, Zenon DEF PostMessage
  <2>. QED  BY <1>3, <2>1, <2>2
<1>12. "cancelUnread" \in RemindPcs  BY DEF RemindPcs
<1>13. RowWrite(s, a, new, y)  BY <1>1, <1>2, <1>7, <1>9, <1>10, <1>11, <1>12 DEF RowWrite
<1>. QED  BY <1>13, RowStep

LEMMA ReadMessagesStep ==
  ASSUME AppealsInv, NEW s \in Slots, NEW i, ReadMessages(s, i)
  PROVE  AppealsInv'
<1>1. Handling(s) /\ slot[s].pc \notin {"idle", "create"} /\ slot[s].pc \notin RemindPcs
  BY DEF ReadMessages, Handling, RemindPcs
<1>2. PICK a : a = slot[s].a  OBVIOUS
<1>3. /\ RowOK(appeal[a]) /\ owed \in [1..MaxAppeals -> BOOLEAN]
      /\ (owed[a] => appeal[a].status \in Active)
  BY <1>1, <1>2, HandlerOn
<1>4. PICK msgs : msgs = appeal[a].messages  OBVIOUS
<1>5. PICK M : msgs \in Seq(M)  BY <1>3, <1>4 DEF RowOK
<1>6. PICK ids : ids = UpTo(msgs, slot[s].by, i)  OBVIOUS
<1>7. PICK ms : ms = [j \in 1..Len(msgs) |->
                        IF j \in ids THEN [msgs[j] EXCEPT !.reads = @ \cup {slot[s].by}] ELSE msgs[j]]
  OBVIOUS
<1>8. \E L : ms \in Seq(L)
  <2>1. Len(msgs) \in Nat  BY <1>5
  <2>2. PICK L : L = {ms[j] : j \in 1..Len(msgs)}  OBVIOUS
  <2>3. DOMAIN ms = 1..Len(msgs) /\ \A j \in 1..Len(msgs) : ms[j] \in L  BY <1>7, <2>2
  <2>4. ms \in [1..Len(msgs) -> L]  BY <1>7, <2>3
  <2>5. ms \in Seq(L)  BY <2>1, <2>4
  <2>. QED  BY <2>5
<1>9. PICK new : new = [appeal[a] EXCEPT !.messages = ms]  OBVIOUS
<1>10. RowOK(new) /\ new.status = appeal[a].status /\ new.messages = ms
  BY <1>3, <1>8, <1>9 DEF RowOK, RowFields
<1>11. Update(s, new) /\ UNCHANGED <<job, popped, owed>>
  BY <1>2, <1>4, <1>6, <1>7, <1>9 DEF ReadMessages, Keep
<1>12. CASE ids # {}
  <2>1. PICK y : y = [slot[s] EXCEPT !.pc = "reschedule"]  OBVIOUS
  <2>2. SlotOK(y, Len(appeal)) /\ y.pc = "reschedule" /\ y.a = a  BY <1>1, <1>2, <2>1, PcIsOK
  <2>3. slot' = [slot EXCEPT ![s] = y]  BY <1>2, <1>4, <1>6, <1>12, <2>1 DEF ReadMessages, To
  <2>4. appeal' = [appeal EXCEPT ![a] = new]  BY <1>2, <1>11 DEF Update
  <2>5. "reschedule" \in RemindPcs  BY DEF RemindPcs
  <2>6. RowWrite(s, a, new, y)  BY <1>1, <1>2, <1>3, <1>10, <1>11, <2>2, <2>3, <2>4, <2>5 DEF RowWrite
  <2>. QED  BY <2>6, RowStep
<1>13. CASE ids = {}
  <2>1. Done(s)  BY <1>2, <1>4, <1>6, <1>13 DEF ReadMessages
  <2>2. ms = msgs  BY <1>5, <1>7, <1>13
  <2>3. Continues(msgs, ms)  BY <1>5, <2>2, ContinuesItself
  <2>. QED  BY <1>1, <1>2, <1>4, <1>10, <1>11, <2>1, <2>3, QuietHandlerStep
<1>. QED  BY <1>12, <1>13

LEMMA DeleteMessageStep ==
  ASSUME AppealsInv, NEW s \in Slots, NEW i, DeleteMessage(s, i)
  PROVE  AppealsInv'
<1>1. slot[s].pc \notin {"idle", "create"}  BY DEF DeleteMessage, Handling
<1>2. PICK a : a = slot[s].a  OBVIOUS
<1>3. a \in 1..MaxAppeals /\ RowOK(appeal[a]) /\ owed \in [1..MaxAppeals -> BOOLEAN]
  BY <1>1, <1>2, HandlerOn
<1>4. PICK msgs : msgs = appeal[a].messages  OBVIOUS
<1>5. PICK ms : ms = [msgs EXCEPT ![i].deleted = TRUE]  OBVIOUS
<1>6. \E L : ms \in Seq(L)
  <2>1. PICK M : msgs \in Seq(M)  BY <1>3, <1>4 DEF RowOK
  <2>2. PICK m : m = [msgs[i] EXCEPT !.deleted = TRUE]  OBVIOUS
  <2>3. ms = [msgs EXCEPT ![i] = m]  BY <1>5, <2>2
  <2>4. Len(msgs) \in Nat /\ msgs \in [1..Len(msgs) -> M \cup {m}]  BY <2>1
  <2>5. ms \in [1..Len(msgs) -> M \cup {m}]  BY <2>3, <2>4
  <2>6. ms \in Seq(M \cup {m})  BY <2>4, <2>5
  <2>. QED  BY <2>6
<1>7. PICK new : new = [appeal[a] EXCEPT !.messages = ms]  OBVIOUS
<1>8. RowOK(new)  BY <1>3, <1>6, <1>7 DEF RowOK, RowFields
<1>9. /\ appeal' = [appeal EXCEPT ![a] = new] /\ slot' = [slot EXCEPT ![s] = Idle]
      /\ owed' = [owed EXCEPT ![a] = FALSE] /\ UNCHANGED <<job, popped>>
  BY <1>2, <1>4, <1>5, <1>7 DEF DeleteMessage, Update, Done, Keep
<1>10. Len(appeal) \in Nat /\ SlotOK(Idle, Len(appeal))  BY IdleIsOK DEF AppealsInv, AppealRows
<1>11. /\ owed' \in [1..MaxAppeals -> BOOLEAN] /\ ~owed'[a]
       /\ \A b \in 1..MaxAppeals : b # a => owed'[b] = owed[b]
  BY <1>3, <1>9
<1>12. RowWrite(s, a, new, Idle)  BY <1>1, <1>2, <1>8, <1>9, <1>10, <1>11 DEF RowWrite
<1>. QED  BY <1>12, RowStep

LEMMA HandlerStep ==
  ASSUME AppealsInv, NEW s \in Slots, Handler(s)
  PROVE  AppealsInv'
<1>1. ASSUME NEW i, ReadMessages(s, i) \/ DeleteMessage(s, i) PROVE AppealsInv'
  BY <1>1, ReadMessagesStep, DeleteMessageStep
<1>. QED
  BY <1>1, AssignStep, ClaimStep, TransferStep, SetStatusStep, SetDeadlineStep, PostMessageStep
     DEF Handler

-----------------------------------------------------------------------------
(* The start of handlers, the creation of appeals.                           *)

LEMMA StartStep ==
  ASSUME AppealsInv, NEW s \in Slots, slot[s] = Idle, NEW y, SlotOK(y, Len(appeal)),
         slot' = [slot EXCEPT ![s] = y], UNCHANGED <<appeal, job, popped, owed>>
  PROVE  AppealsInv'
<1>1. /\ DOMAIN slot' = Slots /\ slot'[s] = y /\ \A t \in Slots : t # s => slot'[t] = slot[t]
      /\ \A t \in Slots : SlotOK(slot'[t], Len(appeal))
  BY DEF AppealsInv
<1>2. \A t \in Slots : slot[t].pc \in RemindPcs => slot'[t] = slot[t]
  <2>1. slot[s].pc \notin RemindPcs  BY DEF Idle, RemindPcs
  <2>. QED  BY <1>1, <2>1
<1>3. ASSUME NEW a \in 1..Len(appeal) PROVE Covered(a) => Covered(a)'
  <2>1. LatestUserMessage(a)' = LatestUserMessage(a)  BY DEF LatestUserMessage
  <2>. QED  BY <1>2, <2>1 DEF Covered
<1>4. \A a \in 1..Len(appeal) : owed'[a] => KeepsOwing(a)  BY <1>3 DEF KeepsOwing
<1>. QED  BY <1>1, <1>4, JobStep DEF AppealsInv, JobsOK

LEMMA CreateStep ==
  ASSUME AppealsInv, NEW s \in Slots, NEW d, CreateAppeal(s, d)
  PROVE  AppealsInv'
<1>1. slot[s].pc = "create" /\ Len(appeal) < MaxAppeals /\ UNCHANGED <<job, popped>>
  BY DEF CreateAppeal, Keep
<1>2. PICK R : appeal \in Seq(R)  BY DEF AppealsInv, AppealRows
<1>3. Len(appeal) \in Nat /\ MaxAppeals \in Nat  BY <1>2, AppealsAssumption
<1>4. SlotOK(slot[s], Len(appeal)) /\ DOMAIN slot = Slots /\ owed \in [1..MaxAppeals -> BOOLEAN]
  BY DEF AppealsInv
<1>5. CASE NumberTaken(slot[s].n)
  <2>1. slot' = [slot EXCEPT ![s] = Idle] /\ UNCHANGED <<appeal, owed>>
    BY <1>5 DEF CreateAppeal, Done
  <2>2. /\ DOMAIN slot' = Slots /\ \A t \in Slots : t # s => slot'[t] = slot[t]
        /\ \A t \in Slots : SlotOK(slot'[t], Len(appeal))
    BY <1>3, <1>4, <2>1, IdleIsOK DEF AppealsInv
  <2>3. \A t \in Slots : slot[t].pc \in RemindPcs => slot'[t] = slot[t]
    BY <1>1, <2>2 DEF RemindPcs
  <2>4. ASSUME NEW a \in 1..Len(appeal) PROVE Covered(a) => Covered(a)'
    <3>1. LatestUserMessage(a)' = LatestUserMessage(a)  BY <2>1 DEF LatestUserMessage
    <3>. QED  BY <1>1, <2>3, <3>1 DEF Covered
  <2>5. \A a \in 1..Len(appeal) : owed'[a] => KeepsOwing(a)  BY <2>1, <2>4 DEF KeepsOwing
  <2>. QED  BY <1>1, <1>4, <2>1, <2>2, <2>5, JobStep DEF AppealsInv, JobsOK
<1>6. CASE ~NumberTaken(slot[s].n)
  <2>1. PICK row : row = NewAppeal(slot[s].n, slot[s].by, d)  OBVIOUS
  <2>2. RowOK(row) /\ row.status = "OPEN"
    <3>1. row.messages = <<Message(slot[s].by, "USER")>>  BY <2>1 DEF NewAppeal
    <3>2. row.messages \in Seq({Message(slot[s].by, "USER")})  BY <3>1
    <3>3. DOMAIN row = RowFields /\ row.status = "OPEN"  BY <2>1 DEF NewAppeal, RowFields
    <3>. QED  BY <3>2, <3>3 DEF RowOK
  <2>3. appeal' = Append(appeal, row)  BY <1>6, <2>1 DEF CreateAppeal
  <2>4. PICK n \in Nat : n = Len(appeal) + 1  BY <1>3
  <2>5. /\ appeal' \in Seq(R \cup {row}) /\ Len(appeal') = n /\ appeal'[n] = row
        /\ \A a \in 1..Len(appeal) : appeal'[a] = appeal[a]
    BY <1>2, <2>3, <2>4
  <2>6. owed' = [owed EXCEPT ![n] = TRUE]
        /\ slot' = [slot EXCEPT ![s].pc = "unread", ![s].a = n]
    BY <1>6, <2>5 DEF CreateAppeal
  <2>7. n \in 1..MaxAppeals /\ 1..n = 1..Len(appeal) \cup {n} /\ n \notin 1..Len(appeal)
    BY <1>1, <1>3, <2>4
  <2>8. PICK y : y = [slot[s] EXCEPT !.pc = "unread", !.a = n]  OBVIOUS
  <2>9. SlotOK(y, n) /\ y.pc = "unread" /\ y.a = n  BY <1>4, <2>7, <2>8 DEF SlotOK, SlotFields
  <2>10. slot' = [slot EXCEPT ![s] = y]  BY <1>4, <2>6, <2>8
  <2>11. /\ DOMAIN slot' = Slots /\ slot'[s] = y /\ \A t \in Slots : t # s => slot'[t] = slot[t]
    BY <1>4, <2>10
  <2>12. \A t \in Slots : SlotOK(slot'[t], n)
    <3>1. \A t \in Slots : SlotOK(slot[t], Len(appeal))  BY DEF AppealsInv
    <3>. QED  BY <2>7, <2>9, <2>11, <3>1 DEF SlotOK
  <2>13. AppealRows'
    <3>1. \A a \in 1..Len(appeal) : RowOK(appeal[a])  BY DEF AppealsInv, AppealRows
    <3>2. \A a \in 1..n : RowOK(appeal'[a])  BY <2>2, <2>5, <2>7, <3>1
    <3>. QED  BY <2>5, <3>2 DEF AppealRows
  <2>14. owed' \in [1..MaxAppeals -> BOOLEAN] /\ \A a \in 1..Len(appeal) : owed'[a] = owed[a]
    <3>1. owed' = [owed EXCEPT ![n] = TRUE]  BY <2>6
    <3>2. \A a \in 1..Len(appeal) : a \in 1..MaxAppeals /\ a # n  BY <1>1, <1>3, <2>7
    <3>. QED  BY <1>4, <3>1, <3>2
  <2>15. ASSUME NEW a \in 1..Len(appeal) PROVE Owes(a)'
    <3>1. Owes(a) /\ RowOK(appeal[a])  BY DEF AppealsInv, AppealRows
    <3>2. Continues(appeal[a].messages, appeal'[a].messages)
      BY <2>5, <3>1, ContinuesItself DEF RowOK
    <3>3. LatestUserMessage(a)' = LatestUserMessage(a) /\ IsUnread(a)' = IsUnread(a)
      BY <3>1, <3>2, SystemMessagesSilent
    <3>4. \A t \in Slots : slot[t].pc \in RemindPcs => slot'[t] = slot[t]
      BY <1>1, <2>11 DEF RemindPcs
    <3>5. Covered(a) => Covered(a)'  BY <1>1, <3>3, <3>4 DEF Covered
    <3>. QED  BY <2>5, <2>14, <3>1, <3>3, <3>5 DEF Owes
  <2>16. Owes(n)'
    <3>1. Covered(n)'  BY <2>9, <2>11 DEF Covered, RemindPcs
    <3>. QED  BY <2>2, <2>5, <3>1 DEF Owes, Active
  <2>17. JobsOK' /\ Len(appeal') <= MaxAppeals  BY <1>1, <1>3, <2>5, <2>7 DEF AppealsInv, JobsOK
  <2>. QED  BY <2>5, <2>7, <2>11, <2>12, <2>13, <2>14, <2>15, <2>16, <2>17 DEF AppealsInv
<1>. QED  BY <1>5, <1>6

-----------------------------------------------------------------------------
(* Jobs.                                                                     *)

\* Background work of one slot on the jobs of its appeal, no row changes.
BackgroundWrite(s, a, y) ==
  /\ slot[s].pc \notin {"idle", "create"} /\ a = slot[s].a
  /\ slot' = [slot EXCEPT ![s] = y] /\ SlotOK(y, Len(appeal))
  /\ UNCHANGED <<appeal, popped>> /\ JobsOK'
  /\ owed' \in [1..MaxAppeals -> BOOLEAN]
  /\ \A b \in 1..MaxAppeals : b # a => owed'[b] = owed[b] /\ job'[b] = job[b]
  /\ owed'[a] =>
       \/ /\ owed[a]
          /\ IsUnread(a) /\ Covered(a) =>
               \/ y.pc \in RemindPcs /\ y.a = a
               \/ slot[s].pc \notin RemindPcs
                  /\ job'[a]["UNREAD_REMINDER"] = job[a]["UNREAD_REMINDER"]
       \/ /\ appeal[a].status \in Active
          /\ job'[a]["UNREAD_REMINDER"] \in Nat
          /\ LatestUserMessage(a) <= job'[a]["UNREAD_REMINDER"]

LEMMA BackgroundKeeps ==
  ASSUME AppealsInv, NEW s \in Slots, NEW a, NEW y, BackgroundWrite(s, a, y)
  PROVE  AppealsInv'
<1>1. a \in 1..Len(appeal)  BY HandlerOn DEF BackgroundWrite
<1>2. Len(appeal) \in Nat /\ Len(appeal) <= MaxAppeals /\ MaxAppeals \in Nat
  BY AppealsAssumption DEF AppealsInv, AppealRows
<1>3. /\ DOMAIN slot' = Slots /\ slot'[s] = y /\ \A t \in Slots : t # s => slot'[t] = slot[t]
      /\ \A t \in Slots : SlotOK(slot'[t], Len(appeal))
  BY DEF AppealsInv, BackgroundWrite
<1>4. \A b : LatestUserMessage(b)' = LatestUserMessage(b)
  BY DEF LatestUserMessage, BackgroundWrite
<1>5. ASSUME NEW b \in 1..Len(appeal), b # a, owed'[b] PROVE KeepsOwing(b)
  <2>0. b \in 1..MaxAppeals  BY <1>2
  <2>1. owed'[b] = owed[b] /\ job'[b] = job[b] /\ popped' = popped
    BY <1>5, <2>0 DEF BackgroundWrite
  <2>2. \A t \in Slots : slot[t].a = b => slot'[t] = slot[t]  BY <1>3, <1>5 DEF BackgroundWrite
  <2>3. Covered(b) => Covered(b)'  BY <1>4, <2>1, <2>2 DEF Covered
  <2>. QED  BY <1>5, <2>1, <2>3 DEF KeepsOwing
<1>6. ASSUME owed'[a] PROVE KeepsOwing(a)
  <2>1. CASE y.pc \in RemindPcs /\ y.a = a /\ owed[a]
    <3>1. Covered(a)'  BY <1>3, <2>1 DEF Covered
    <3>. QED  BY <2>1, <3>1 DEF KeepsOwing
  <2>2. CASE /\ slot[s].pc \notin RemindPcs /\ owed[a]
             /\ job'[a]["UNREAD_REMINDER"] = job[a]["UNREAD_REMINDER"]
    <3>1. \A t \in Slots : slot[t].pc \in RemindPcs => slot'[t] = slot[t]  BY <1>3, <2>2
    <3>2. popped' = popped  BY DEF BackgroundWrite
    <3>3. Covered(a) => Covered(a)'  BY <1>4, <2>2, <3>1, <3>2 DEF Covered
    <3>. QED  BY <2>2, <3>3 DEF KeepsOwing
  <2>3. CASE /\ appeal[a].status \in Active
             /\ job'[a]["UNREAD_REMINDER"] \in Nat
             /\ LatestUserMessage(a) <= job'[a]["UNREAD_REMINDER"]
    <3>1. Covered(a)'  BY <1>4, <2>3 DEF Covered
    <3>. QED  BY <2>3, <3>1 DEF KeepsOwing
  <2>4. CASE owed[a] /\ ~(IsUnread(a) /\ Covered(a))  BY <2>4 DEF KeepsOwing
  <2>. QED  BY <1>6, <2>1, <2>2, <2>3, <2>4 DEF BackgroundWrite
<1>7. \A b \in 1..Len(appeal) : owed'[b] => KeepsOwing(b)  BY <1>5, <1>6
<1>. QED  BY <1>3, <1>7, JobStep DEF BackgroundWrite

LEMMA CancelStep ==
  ASSUME AppealsInv, NEW s \in Slots, NEW open \in BOOLEAN, CancelAppealJobs(s, open)
  PROVE  AppealsInv'
<1>1. slot[s].pc \in {"cancel", "cancelUnread", "cancelClosure", "reschedule"}
      /\ UNCHANGED <<appeal, popped>>
  BY DEF CancelAppealJobs
<1>2. PICK a : a = slot[s].a  OBVIOUS
<1>3. a \in 1..Len(appeal) /\ a \in 1..MaxAppeals /\ owed \in [1..MaxAppeals -> BOOLEAN]
  BY <1>1, <1>2, HandlerOn
<1>4. (job' = [job EXCEPT ![a] = NoJobs] \/ job' = job) /\ DOMAIN NoJobs = JobTypes
  BY <1>2 DEF CancelAppealJobs, NoJobs
<1>5. JobsOK' /\ \A b \in 1..MaxAppeals : b # a => job'[b] = job[b]
  BY <1>3, <1>4 DEF AppealsInv, JobsOK
<1>6. /\ owed' \in [1..MaxAppeals -> BOOLEAN]
      /\ owed'[a] => owed[a] /\ slot[s].pc \in {"cancelUnread", "reschedule"}
      /\ \A b \in 1..MaxAppeals : b # a => owed'[b] = owed[b]
  <2>1. PICK v \in BOOLEAN : v = (owed[a] /\ slot[s].pc \in {"cancelUnread", "reschedule"})  OBVIOUS
  <2>2. owed' = [owed EXCEPT ![a] = v]  BY <1>2, <2>1, Zenon DEF CancelAppealJobs
  <2>. QED  BY <1>3, <2>1, <2>2
<1>7. PICK pc : pc = CASE slot[s].pc = "cancelUnread" -> "unread"
                       [] slot[s].pc = "cancelClosure" -> "closure"
                       [] OTHER -> "judgeStatus"
  OBVIOUS
<1>8. PICK y : y = IF slot[s].pc = "cancel" THEN Idle ELSE [slot[s] EXCEPT !.pc = pc]  OBVIOUS
<1>9. slot' = [slot EXCEPT ![s] = y]
  BY <1>1, <1>7, <1>8 DEF CancelAppealJobs, Done, To
<1>10. SlotOK(y, Len(appeal))
       /\ (slot[s].pc \in {"cancelUnread", "reschedule"} => y.pc \in RemindPcs /\ y.a = a)
  <2>1. slot[s].pc = "cancel" => SlotOK(y, Len(appeal))
    BY <1>8, IdleIsOK DEF AppealsInv, AppealRows
  <2>2. slot[s].pc # "cancel" => SlotOK(y, Len(appeal)) /\ y.pc = pc /\ y.a = a
    BY <1>1, <1>2, <1>8, PcIsOK
  <2>3. slot[s].pc \in {"cancelUnread", "reschedule"} => pc \in RemindPcs  BY <1>7 DEF RemindPcs
  <2>. QED  BY <2>1, <2>2, <2>3
<1>11. BackgroundWrite(s, a, y)
  BY <1>1, <1>2, <1>5, <1>6, <1>9, <1>10 DEF BackgroundWrite
<1>. QED  BY <1>11, BackgroundKeeps

LEMMA ScheduledStep ==
  ASSUME AppealsInv, NEW s \in Slots, ScheduleReminder(s, TRUE)
  PROVE  AppealsInv'
<1>1. slot[s].pc \in {"unread", "closure"} /\ Done(s) /\ UNCHANGED <<appeal, popped>>
  BY DEF ScheduleReminder
<1>2. PICK a : a = slot[s].a  OBVIOUS
<1>3. /\ a \in 1..Len(appeal) /\ a \in 1..MaxAppeals /\ owed \in [1..MaxAppeals -> BOOLEAN]
      /\ RowOK(appeal[a]) /\ Len(appeal) \in Nat
  BY <1>1, <1>2, HandlerOn DEF AppealsInv, AppealRows
<1>4. PICK n \in Nat : n = Len(appeal[a].messages) /\ LatestUserMessage(a) <= n
  BY <1>3, LatestMessageIs
<1>5. PICK t \in JobTypes : t = IF slot[s].pc = "unread" THEN "UNREAD_REMINDER" ELSE "CLOSURE_REMINDER"
  BY DEF JobTypes
<1>6. job' = [job EXCEPT ![a][t] = n]  BY <1>2, <1>4, <1>5 DEF ScheduleReminder, Schedule
<1>7. /\ DOMAIN job = 1..MaxAppeals /\ \A b \in 1..MaxAppeals : DOMAIN job[b] = JobTypes
  BY DEF AppealsInv, JobsOK
<1>8. PICK js : js = [job[a] EXCEPT ![t] = n]  OBVIOUS
<1>9. DOMAIN js = JobTypes /\ js[t] = n /\ \A k \in JobTypes : k # t => js[k] = job[a][k]
  BY <1>3, <1>7, <1>8
<1>10. job' = [job EXCEPT ![a] = js]  BY <1>6, <1>8
<1>11. job'[a] = js /\ JobsOK' /\ \A b \in 1..MaxAppeals : b # a => job'[b] = job[b]
  BY <1>3, <1>7, <1>9, <1>10 DEF JobsOK
<1>12. slot[s].pc = "unread" => job'[a]["UNREAD_REMINDER"] = n
  BY <1>5, <1>9, <1>11
<1>13. slot[s].pc = "closure" =>
         slot[s].pc \notin RemindPcs /\ job'[a]["UNREAD_REMINDER"] = job[a]["UNREAD_REMINDER"]
  BY <1>5, <1>9, <1>11 DEF RemindPcs, JobTypes
<1>14. slot' = [slot EXCEPT ![s] = Idle] /\ SlotOK(Idle, Len(appeal))
  BY <1>1, <1>3, IdleIsOK DEF Done
<1>15. PICK v \in BOOLEAN : v = (TRUE /\ appeal[a].status \in Active)  OBVIOUS
<1>16. owed' = IF slot[s].pc = "unread" THEN [owed EXCEPT ![a] = v] ELSE owed
  BY <1>2, <1>15, Zenon DEF ScheduleReminder
<1>17. /\ owed' \in [1..MaxAppeals -> BOOLEAN]
       /\ \A b \in 1..MaxAppeals : b # a => owed'[b] = owed[b]
       /\ slot[s].pc = "unread" => (owed'[a] => appeal[a].status \in Active)
       /\ slot[s].pc = "closure" => owed' = owed
  BY <1>3, <1>15, <1>16
<1>18. BackgroundWrite(s, a, Idle)
  BY <1>1, <1>2, <1>4, <1>11, <1>12, <1>13, <1>14, <1>17 DEF BackgroundWrite
<1>. QED  BY <1>18, BackgroundKeeps

\* The work of a slot on its appeal ends without its reminder.
GivesUp(s) ==
  /\ slot[s].pc \notin {"idle", "create"} /\ Done(s) /\ UNCHANGED <<appeal, job, popped>>
  /\ owed' \in [1..MaxAppeals -> BOOLEAN]
  /\ \A b \in 1..MaxAppeals : b # slot[s].a => owed'[b] = owed[b]
  /\ owed'[slot[s].a] => owed[slot[s].a] /\ slot[s].pc \notin RemindPcs

LEMMA GiveUpStep ==
  ASSUME AppealsInv, NEW s \in Slots, GivesUp(s)
  PROVE  AppealsInv'
<1>1. PICK a : a = slot[s].a  OBVIOUS
<1>2. JobsOK' /\ \A b \in 1..MaxAppeals : job'[b] = job[b]  BY DEF AppealsInv, JobsOK, GivesUp
<1>3. slot' = [slot EXCEPT ![s] = Idle] /\ SlotOK(Idle, Len(appeal))
  BY IdleIsOK DEF AppealsInv, AppealRows, GivesUp, Done
<1>4. job' = job  BY DEF GivesUp
<1>5. BackgroundWrite(s, a, Idle)  BY <1>1, <1>2, <1>3, <1>4 DEF BackgroundWrite, GivesUp
<1>. QED  BY <1>5, BackgroundKeeps

LEMMA ScheduleStep ==
  ASSUME AppealsInv, NEW s \in Slots, NEW open \in BOOLEAN, ScheduleReminder(s, open)
  PROVE  AppealsInv'
<1>1. CASE open = TRUE  BY <1>1, ScheduledStep
<1>2. CASE open = FALSE
  <2>1. slot[s].pc \in {"unread", "closure"} /\ Done(s) /\ UNCHANGED <<appeal, job, popped>>
    BY <1>2 DEF ScheduleReminder
  <2>2. PICK a : a = slot[s].a  OBVIOUS
  <2>3. a \in 1..MaxAppeals /\ owed \in [1..MaxAppeals -> BOOLEAN]  BY <2>1, <2>2, HandlerOn
  <2>4. owed' = IF slot[s].pc = "unread" THEN [owed EXCEPT ![a] = FALSE] ELSE owed
    BY <1>2, <2>2 DEF ScheduleReminder
  <2>5. /\ owed' \in [1..MaxAppeals -> BOOLEAN]
        /\ \A b \in 1..MaxAppeals : b # a => owed'[b] = owed[b]
        /\ slot[s].pc = "unread" => ~owed'[a]
        /\ slot[s].pc = "closure" => owed' = owed
    BY <2>3, <2>4
  <2>6. GivesUp(s)  BY <2>1, <2>2, <2>5 DEF GivesUp, RemindPcs
  <2>. QED  BY <2>6, GiveUpStep
<1>. QED  BY <1>1, <1>2

\* A slot whose work throws: at its read and at the creation there is no
\* reminder in its hands.
LEMMA FailStep ==
  ASSUME AppealsInv, NEW s \in Slots, StepFails(s)
  PROVE  AppealsInv'
<1>1. /\ slot' = [slot EXCEPT ![s] = Idle] /\ UNCHANGED <<appeal, job, popped>>
      /\ owed' = [a \in DOMAIN owed |-> owed[a] /\ ~Reminding(s, a)]
  BY DEF StepFails, Done
<1>2. /\ owed \in [1..MaxAppeals -> BOOLEAN] /\ Len(appeal) \in Nat
      /\ Len(appeal) <= MaxAppeals /\ MaxAppeals \in Nat /\ JobsOK'
  BY <1>1, AppealsAssumption DEF AppealsInv, AppealRows, JobsOK
<1>3. \A a \in 1..MaxAppeals : owed'[a] = (owed[a] /\ ~Reminding(s, a))  BY <1>1, <1>2, Zenon
<1>4. owed' \in [1..MaxAppeals -> BOOLEAN]
  <2>1. DOMAIN owed = 1..MaxAppeals /\ \A a \in 1..MaxAppeals : owed[a] \in BOOLEAN  BY <1>2
  <2>. QED  BY <1>1, <2>1, Zenon
<1>5. /\ DOMAIN slot' = Slots /\ \A t \in Slots : t # s => slot'[t] = slot[t]
      /\ \A t \in Slots : SlotOK(slot'[t], Len(appeal))
  BY <1>1, <1>2, IdleIsOK DEF AppealsInv
<1>6. ASSUME NEW a \in 1..Len(appeal), owed'[a] PROVE KeepsOwing(a)
  <2>0. a \in 1..MaxAppeals  BY <1>2
  <2>1. owed[a] /\ ~Reminding(s, a)  BY <1>3, <1>6, <2>0, Zenon
  <2>2. LatestUserMessage(a)' = LatestUserMessage(a)  BY <1>1 DEF LatestUserMessage
  <2>3. \A t \in Slots : Reminding(t, a) => slot'[t] = slot[t]  BY <1>5, <2>1
  <2>4. Covered(a) => Covered(a)'  BY <1>1, <2>2, <2>3 DEF Covered, Reminding
  <2>. QED  BY <2>1, <2>4 DEF KeepsOwing
<1>. QED  BY <1>1, <1>2, <1>4, <1>5, <1>6, JobStep

LEMMA JudgeStatusStep ==
  ASSUME AppealsInv, NEW s \in Slots, JudgeStatus(s)
  PROVE  AppealsInv'
<1>1. slot[s].pc = "judgeStatus" /\ UNCHANGED <<appeal, job, popped>>
  BY DEF JudgeStatus, Keep
<1>2. PICK a : a = slot[s].a  OBVIOUS
<1>3. /\ a \in 1..MaxAppeals /\ owed \in [1..MaxAppeals -> BOOLEAN] /\ Len(appeal) \in Nat
  BY <1>1, <1>2, HandlerOn DEF AppealsInv, AppealRows
<1>4. JobsOK' /\ \A b \in 1..MaxAppeals : job'[b] = job[b]  BY <1>1 DEF AppealsInv, JobsOK
<1>5. CASE appeal[a].status \in Active
  <2>1. PICK y : y = [slot[s] EXCEPT !.pc = "judgeMessage"]  OBVIOUS
  <2>2. SlotOK(y, Len(appeal)) /\ y.pc \in RemindPcs /\ y.a = a
    BY <1>1, <1>2, <2>1, PcIsOK DEF RemindPcs
  <2>3. slot' = [slot EXCEPT ![s] = y] /\ owed' = owed
    BY <1>2, <1>5, <2>1 DEF JudgeStatus, To
  <2>4. BackgroundWrite(s, a, y)  BY <1>1, <1>2, <1>3, <1>4, <2>2, <2>3 DEF BackgroundWrite
  <2>. QED  BY <2>4, BackgroundKeeps
<1>6. CASE appeal[a].status \notin Active
  <2>1. slot' = [slot EXCEPT ![s] = Idle] /\ owed' = [owed EXCEPT ![a] = FALSE]
    BY <1>2, <1>6 DEF JudgeStatus, Done
  <2>2. /\ owed' \in [1..MaxAppeals -> BOOLEAN] /\ ~owed'[a]
        /\ \A b \in 1..MaxAppeals : b # a => owed'[b] = owed[b]
    BY <1>3, <2>1
  <2>3. SlotOK(Idle, Len(appeal))  BY <1>3, IdleIsOK
  <2>4. BackgroundWrite(s, a, Idle)
    BY <1>1, <1>2, <1>4, <2>1, <2>2, <2>3 DEF BackgroundWrite
  <2>. QED  BY <2>4, BackgroundKeeps
<1>. QED  BY <1>5, <1>6

LEMMA JudgeMessageStep ==
  ASSUME AppealsInv, NEW s \in Slots, JudgeMessage(s)
  PROVE  AppealsInv'
<1>1. slot[s].pc = "judgeMessage" /\ UNCHANGED <<appeal, job, popped, owed>>
  BY DEF JudgeMessage, Keep
<1>2. PICK a : a = slot[s].a  OBVIOUS
<1>3. owed \in [1..MaxAppeals -> BOOLEAN] /\ Len(appeal) \in Nat
  BY <1>1, <1>2, HandlerOn DEF AppealsInv, AppealRows
<1>4. JobsOK' /\ \A b \in 1..MaxAppeals : job'[b] = job[b]  BY <1>1 DEF AppealsInv, JobsOK
<1>5. PICK y : y = IF IsUnread(a) THEN [slot[s] EXCEPT !.pc = "unread"] ELSE Idle  OBVIOUS
<1>6. slot' = [slot EXCEPT ![s] = y]  BY <1>2, <1>5 DEF JudgeMessage, To, Done
<1>7. SlotOK(y, Len(appeal)) /\ (IsUnread(a) => y.pc \in RemindPcs /\ y.a = a)
  <2>1. IsUnread(a) => SlotOK(y, Len(appeal)) /\ y.pc = "unread" /\ y.a = a
    BY <1>1, <1>2, <1>5, PcIsOK
  <2>2. ~IsUnread(a) => SlotOK(y, Len(appeal))  BY <1>3, <1>5, IdleIsOK
  <2>. QED  BY <2>1, <2>2 DEF RemindPcs
<1>8. BackgroundWrite(s, a, y)  BY <1>1, <1>2, <1>3, <1>4, <1>6, <1>7 DEF BackgroundWrite
<1>. QED  BY <1>8, BackgroundKeeps

\* The poll takes jobs out of the set: each is in the set or taken.
LEMMA PopStep ==
  ASSUME AppealsInv, NEW S \in SUBSET ((1..MaxAppeals) \X JobTypes), PopJobs(S)
  PROVE  AppealsInv'
<1>1. /\ popped' = {<<x[1], x[2], job[x[1]][x[2]]>> : x \in S} /\ popped = {}
      /\ job' = [a \in DOMAIN job |-> [t \in JobTypes |-> IF <<a, t>> \in S THEN NoValue ELSE job[a][t]]]
      /\ UNCHANGED <<appeal, slot, owed>>
  BY DEF PopJobs
<1>2. DOMAIN job = 1..MaxAppeals /\ Len(appeal) \in Nat /\ Len(appeal) <= MaxAppeals
      /\ MaxAppeals \in Nat
  BY AppealsAssumption DEF AppealsInv, AppealRows, JobsOK
<1>3. \A a \in 1..MaxAppeals :
        job'[a] = [t \in JobTypes |-> IF <<a, t>> \in S THEN NoValue ELSE job[a][t]]
  BY <1>1, <1>2
<1>4. JobsOK'
  <2>1. DOMAIN job' = 1..MaxAppeals  BY <1>1, <1>2
  <2>2. \A a \in 1..MaxAppeals : DOMAIN job'[a] = JobTypes  BY <1>3
  <2>. QED  BY <2>1, <2>2 DEF JobsOK
<1>5. ASSUME NEW a \in 1..Len(appeal), Covered(a) PROVE Covered(a)'
  <2>1. LatestUserMessage(a)' = LatestUserMessage(a)  BY <1>1 DEF LatestUserMessage
  <2>2. CASE job[a]["UNREAD_REMINDER"] \in Nat /\ LatestUserMessage(a) <= job[a]["UNREAD_REMINDER"]
    <3>1. a \in 1..MaxAppeals /\ "UNREAD_REMINDER" \in JobTypes  BY <1>2 DEF JobTypes
    <3>2. CASE <<a, "UNREAD_REMINDER">> \in S
      <4>1. PICK x : x = <<a, "UNREAD_REMINDER", job[a]["UNREAD_REMINDER"]>>  OBVIOUS
      <4>2. x \in popped'  BY <1>1, <3>2, <4>1
      <4>3. x[1] = a /\ x[2] = "UNREAD_REMINDER" /\ x[3] = job[a]["UNREAD_REMINDER"]  BY <4>1
      <4>. QED  BY <2>1, <2>2, <4>2, <4>3 DEF Covered
    <3>3. CASE <<a, "UNREAD_REMINDER">> \notin S
      <4>1. job'[a]["UNREAD_REMINDER"] = job[a]["UNREAD_REMINDER"]  BY <1>3, <3>1, <3>3
      <4>. QED  BY <2>1, <2>2, <4>1 DEF Covered
    <3>. QED  BY <3>2, <3>3
  <2>3. CASE \E s \in Slots : slot[s].a = a /\ slot[s].pc \in RemindPcs
    BY <1>1, <2>3 DEF Covered
  <2>. QED  BY <1>1, <1>5, <2>2, <2>3 DEF Covered
<1>6. \A a \in 1..Len(appeal) : owed'[a] => KeepsOwing(a)  BY <1>1, <1>5 DEF KeepsOwing
<1>. QED  BY <1>1, <1>4, <1>6, JobStep DEF AppealsInv

\* A job that is due reminds, unless a message came after it was scheduled:
\* then a later job or a handler stands for that message.
LEMMA ProcessStep ==
  ASSUME AppealsInv, NEW x \in popped, NEW ripe \in BOOLEAN, ProcessUnread(x, ripe) \/ ProcessClosure(x)
  PROVE  AppealsInv'
<1>1. popped' = popped \ {x} /\ UNCHANGED <<appeal, job, slot>>
  BY DEF ProcessUnread, ProcessClosure
<1>2. owed \in [1..MaxAppeals -> BOOLEAN] /\ JobsOK' /\ Len(appeal) \in Nat
      /\ Len(appeal) <= MaxAppeals /\ MaxAppeals \in Nat
  BY <1>1, AppealsAssumption DEF AppealsInv, AppealRows, JobsOK
<1>3. owed' = [owed EXCEPT ![x[1]] = FALSE] \/ owed' = owed
  BY DEF ProcessUnread, ProcessClosure
<1>4. owed' \in [1..MaxAppeals -> BOOLEAN] /\ \A a \in 1..MaxAppeals : owed'[a] => owed[a]
  BY <1>2, <1>3
<1>5. ASSUME NEW a \in 1..Len(appeal), owed'[a], IsUnread(a), Covered(a) PROVE Covered(a)'
  <2>1. LatestUserMessage(a)' = LatestUserMessage(a)  BY <1>1 DEF LatestUserMessage
  <2>2. owed[a] /\ Owes(a) /\ a \in 1..MaxAppeals  BY <1>2, <1>4, <1>5 DEF AppealsInv
  <2>3. appeal[a].status \in Active  BY <2>2 DEF Owes
  <2>4. CASE \E z \in popped : /\ z[1] = a /\ z[2] = "UNREAD_REMINDER"
                               /\ z[3] \in Nat /\ LatestUserMessage(a) <= z[3]
    <3>1. PICK z \in popped : /\ z[1] = a /\ z[2] = "UNREAD_REMINDER"
                              /\ z[3] \in Nat /\ LatestUserMessage(a) <= z[3]
      BY <2>4
    <3>2. z # x
      <4>1. SUFFICES ASSUME z = x PROVE FALSE  OBVIOUS
      <4>2. x[2] # "CLOSURE_REMINDER"  BY <3>1, <4>1
      <4>3. ProcessUnread(x, ripe)  BY <4>2 DEF ProcessClosure
      <4>4. ripe  BY <3>1, <4>1, <4>3 DEF ProcessUnread
      <4>5. owed' = [owed EXCEPT ![a] = FALSE]
        BY <1>5, <2>3, <3>1, <4>1, <4>3, <4>4 DEF ProcessUnread
      <4>6. owed'[a] = FALSE  BY <1>2, <2>2, <4>5
      <4>. QED  BY <1>5, <4>6
    <3>3. z \in popped'  BY <1>1, <3>1, <3>2
    <3>. QED  BY <2>1, <3>1, <3>3 DEF Covered
  <2>5. CASE job[a]["UNREAD_REMINDER"] \in Nat /\ LatestUserMessage(a) <= job[a]["UNREAD_REMINDER"]
    BY <1>1, <2>1, <2>5 DEF Covered
  <2>6. CASE \E s \in Slots : slot[s].a = a /\ slot[s].pc \in RemindPcs
    BY <1>1, <2>6 DEF Covered
  <2>. QED  BY <1>5, <2>4, <2>5, <2>6 DEF Covered
<1>6. \A a \in 1..Len(appeal) : owed'[a] => KeepsOwing(a)
  BY <1>2, <1>4, <1>5 DEF KeepsOwing
<1>7. DOMAIN slot' = Slots /\ \A s \in Slots : SlotOK(slot'[s], Len(appeal))
  BY <1>1 DEF AppealsInv
<1>. QED  BY <1>1, <1>2, <1>4, <1>6, <1>7, JobStep

\* A job that throws takes its reminder with it, and no other.
LEMMA JobFailStep ==
  ASSUME AppealsInv, NEW x \in popped, JobFails(x)
  PROVE  AppealsInv'
<1>1. popped' = popped \ {x} /\ UNCHANGED <<appeal, job, slot>>  BY DEF JobFails
<1>2. /\ owed \in [1..MaxAppeals -> BOOLEAN] /\ Len(appeal) \in Nat
      /\ Len(appeal) <= MaxAppeals /\ MaxAppeals \in Nat /\ JobsOK'
  BY <1>1, AppealsAssumption DEF AppealsInv, AppealRows, JobsOK
<1>3. owed' = IF x[2] = "UNREAD_REMINDER" THEN [owed EXCEPT ![x[1]] = FALSE] ELSE owed
  BY DEF JobFails
<1>4. /\ owed' \in [1..MaxAppeals -> BOOLEAN]
      /\ \A a \in 1..MaxAppeals : owed'[a] => owed[a] /\ ~(x[2] = "UNREAD_REMINDER" /\ x[1] = a)
  BY <1>2, <1>3
<1>5. ASSUME NEW a \in 1..Len(appeal), owed'[a] PROVE KeepsOwing(a)
  <2>1. owed[a] /\ ~(x[2] = "UNREAD_REMINDER" /\ x[1] = a)  BY <1>2, <1>4, <1>5
  <2>2. LatestUserMessage(a)' = LatestUserMessage(a)  BY <1>1 DEF LatestUserMessage
  <2>3. \A z \in popped : z[1] = a /\ z[2] = "UNREAD_REMINDER" => z \in popped'
    BY <1>1, <2>1
  <2>4. Covered(a) => Covered(a)'  BY <1>1, <2>2, <2>3 DEF Covered
  <2>. QED  BY <2>1, <2>4 DEF KeepsOwing
<1>6. DOMAIN slot' = Slots /\ \A s \in Slots : SlotOK(slot'[s], Len(appeal))
  BY <1>1 DEF AppealsInv
<1>. QED  BY <1>1, <1>2, <1>4, <1>5, <1>6, JobStep

\* A restart loses what it interrupts; a job still in Redis is safe.
LEMMA CrashStep ==
  ASSUME AppealsInv, ServerCrash
  PROVE  AppealsInv'
<1>1. /\ slot' = [s \in Slots |-> Idle]
      /\ owed' = [a \in DOMAIN owed |-> owed[a] /\ ~Interrupted(a)]
      /\ UNCHANGED <<appeal, job>>
  BY DEF ServerCrash
<1>2. /\ owed \in [1..MaxAppeals -> BOOLEAN] /\ Len(appeal) \in Nat
      /\ Len(appeal) <= MaxAppeals /\ MaxAppeals \in Nat /\ JobsOK'
  BY <1>1, AppealsAssumption DEF AppealsInv, AppealRows, JobsOK
<1>3. \A a \in 1..MaxAppeals : owed'[a] = (owed[a] /\ ~Interrupted(a))  BY <1>1, <1>2, Zenon
<1>4. owed' \in [1..MaxAppeals -> BOOLEAN]
  <2>1. DOMAIN owed = 1..MaxAppeals /\ \A a \in 1..MaxAppeals : owed[a] \in BOOLEAN  BY <1>2
  <2>. QED  BY <1>1, <2>1, Zenon
<1>5. DOMAIN slot' = Slots /\ \A s \in Slots : SlotOK(slot'[s], Len(appeal))
  BY <1>1, <1>2, IdleIsOK
<1>6. ASSUME NEW a \in 1..Len(appeal), owed'[a] PROVE KeepsOwing(a)
  <2>0. a \in 1..MaxAppeals  BY <1>2
  <2>1. owed[a] /\ ~Interrupted(a)  BY <1>3, <1>6, <2>0, Zenon
  <2>2. LatestUserMessage(a)' = LatestUserMessage(a)  BY <1>1 DEF LatestUserMessage
  <2>3. Covered(a) => Covered(a)'
    BY <1>1, <2>1, <2>2 DEF Covered, Interrupted, WillRemind, Reminding
  <2>. QED  BY <2>1, <2>3 DEF KeepsOwing
<1>. QED  BY <1>1, <1>2, <1>4, <1>5, <1>6, JobStep

LEMMA ReadsStep ==
  ASSUME AppealsInv, NEW s \in Slots, NEW u,
         ReadNumber(s, u) \/ \E a \in 1..MaxAppeals : ReadAppeal(s, u, a)
  PROVE  AppealsInv'
<1>1. slot[s] = Idle /\ UNCHANGED <<appeal, job, popped, owed>>
  BY DEF ReadNumber, ReadAppeal
<1>2. Len(appeal) \in Nat  BY DEF AppealsInv, AppealRows
<1>3. CASE ReadNumber(s, u)
  <2>1. PICK y : y = [Idle EXCEPT !.pc = "create", !.by = u,
                        !.n = Max({appeal[a].number : a \in 1..Len(appeal)} \cup {0}) + 1]
    OBVIOUS
  <2>2. slot' = [slot EXCEPT ![s] = y]  BY <1>3, <2>1 DEF ReadNumber
  <2>3. SlotOK(y, Len(appeal))  BY <2>1 DEF SlotOK, Idle, SlotFields
  <2>. QED  BY <1>1, <2>2, <2>3, StartStep
<1>4. ASSUME NEW a \in 1..MaxAppeals, ReadAppeal(s, u, a) PROVE AppealsInv'
  <2>1. PICK y : y = [pc |-> "read", by |-> u, a |-> a, seen |-> Judged(appeal[a]), n |-> 0]
    OBVIOUS
  <2>2. slot' = [slot EXCEPT ![s] = y] /\ a <= Len(appeal)  BY <1>4, <2>1 DEF ReadAppeal
  <2>3. SlotOK(y, Len(appeal))  BY <1>2, <2>1, <2>2 DEF SlotOK, SlotFields
  <2>. QED  BY <1>1, <2>2, <2>3, StartStep
<1>. QED  BY <1>3, <1>4

LEMMA AppealsInvStep == AppealsInv /\ [AppealsNext]_appeals => AppealsInv'
<1> SUFFICES ASSUME AppealsInv, [AppealsNext]_appeals PROVE AppealsInv'  OBVIOUS
<1>1. ASSUME NEW s \in Slots, Background(s) PROVE AppealsInv'
  BY <1>1, RecordStatusStep, CancelStep, ScheduleStep, JudgeStatusStep, JudgeMessageStep DEF Background
<1>5. ASSUME NEW s \in Slots,
             CancelAppealJobs(s, FALSE) \/ ScheduleReminder(s, FALSE) \/ StepFails(s)
      PROVE  AppealsInv'
  BY <1>5, CancelStep, ScheduleStep, FailStep
<1>2. CASE Jobs
  <2>1. ASSUME NEW x \in popped, ProcessClosure(x) PROVE AppealsInv'
    BY <2>1, ProcessStep
  <2>. QED  BY <1>2, <2>1, PopStep, ProcessStep DEF Jobs
<1>3. CASE UNCHANGED appeals
  <2>1. UNCHANGED <<appeal, job, popped, slot, owed>>  BY <1>3 DEF appeals
  <2>2. \A a : Covered(a) => Covered(a)'  BY <2>1 DEF Covered, LatestUserMessage
  <2>3. \A a \in 1..Len(appeal) : owed'[a] => KeepsOwing(a)  BY <2>1, <2>2 DEF KeepsOwing
  <2>. QED  BY <2>1, <2>3, JobStep DEF AppealsInv, JobsOK
<1>4. ASSUME NEW s \in Slots, NEW u \in Members,
             ReadNumber(s, u) \/ \E a \in 1..MaxAppeals : ReadAppeal(s, u, a)
      PROVE  AppealsInv'
  BY <1>4, ReadsStep
<1>. QED  BY <1>1, <1>2, <1>3, <1>4, <1>5, CreateStep, HandlerStep, JobFailStep, CrashStep DEF AppealsNext

\* An unread message of an active appeal has its reminder, in the set of jobs,
\* taken by the poll or in the hands of a handler, in every interleaving of
\* handlers, their background work, the poll, failures and restarts (routes/appeals.ts,
\* scheduledJobsService.ts).
THEOREM RemindersAreKept == AppealsSpec => []UnreadMessageHasReminder
<1>1. AppealsInit => AppealsInv
  <2>1. SUFFICES ASSUME AppealsInit PROVE AppealsInv  OBVIOUS
  <2>2. appeal = <<>> /\ appeal \in Seq({}) /\ Len(appeal) = 0  BY <2>1 DEF AppealsInit
  <2>3. AppealRows /\ Len(appeal) <= MaxAppeals  BY <2>2, AppealsAssumption DEF AppealRows
  <2>4. JobsOK /\ owed \in [1..MaxAppeals -> BOOLEAN]  BY <2>1 DEF AppealsInit, JobsOK
  <2>5. DOMAIN slot = Slots /\ \A s \in Slots : SlotOK(slot[s], Len(appeal))
    BY <2>1, <2>2, IdleIsOK DEF AppealsInit
  <2>. QED  BY <2>2, <2>3, <2>4, <2>5 DEF AppealsInv
<1>2. AppealsInv => UnreadMessageHasReminder
  <2>1. SUFFICES ASSUME AppealsInv, NEW a \in 1..Len(appeal), owed[a], IsUnread(a)
                 PROVE  \/ job[a]["UNREAD_REMINDER"] # NoValue
                        \/ \E x \in popped : x[1] = a /\ x[2] = "UNREAD_REMINDER"
                        \/ WillRemind(a)
    BY DEF UnreadMessageHasReminder
  <2>2. Covered(a)  BY <2>1 DEF AppealsInv, Owes
  <2>. QED  BY <2>2, AppealsAssumption DEF Covered, WillRemind, Reminding
<1>3. QED  BY <1>1, <1>2, AppealsInvStep, PTL DEF AppealsSpec

-----------------------------------------------------------------------------
(* Roles.                                                                    *)

NumberOfRoles == Cardinality(Role)

LEMMA RolesAreFinite == NumberOfRoles \in Nat
BY RolesAssumption, FS_CardinalityType DEF NumberOfRoles

\* The parents of a set of roles.
ParentsOf(tree, S) == {tree[q] : q \in S \cap DOMAIN tree} \ {NoRole}

\* Each generation adds the parents of those before.
LEMMA AncestorsRun ==
  ASSUME NEW tree, NEW r, NEW k, k = Ancestors(tree, r)
  PROVE  /\ k[0] = {r}
         /\ \A i \in 1..NumberOfRoles : k[i] = k[i - 1] \cup ParentsOf(tree, k[i - 1])
<1>1. PICK N \in Nat : N = NumberOfRoles  BY RolesAreFinite
<1>2. PICK A : A = SUBSET ({tree[q] : q \in DOMAIN tree} \cup {r})  OBVIOUS
<1>3. PICK step : step = [x \in A \X (1..N) |-> x[1] \cup ParentsOf(tree, x[1])]  OBVIOUS
<1>4. \A S \in A, i \in 1..N : step[<<S, i>>] = S \cup ParentsOf(tree, S)
  BY <1>3
<1>5. \A S \in A : S \cup ParentsOf(tree, S) \in A  BY <1>2 DEF ParentsOf
<1>6. step \in [A \X (1..N) -> A]
  <2>1. \A x \in A \X (1..N) : x[1] \in A  OBVIOUS
  <2>. QED  BY <1>3, <1>5, <2>1
<1>7. {r} \in A  BY <1>2
<1>8. PICK f \in [0..N -> A] : RunsTo(f, N, {r}, step)  BY <1>6, <1>7, RunExists
<1>9. \A i \in 1..N : i - 1 \in 0..N /\ i \in 0..N /\ i # 0  BY <1>1
<1>10. \A i \in 1..N : f[i] = f[i - 1] \cup ParentsOf(tree, f[i - 1])
  BY <1>4, <1>8, <1>9 DEF RunsTo
<1>11. f = [i \in 0..N |-> IF i = 0 THEN {r} ELSE f[i - 1] \cup ParentsOf(tree, f[i - 1])]
  <2>1. \A i \in 0..N : i = 0 \/ i \in 1..N  BY <1>1
  <2>. QED  BY <1>8, <1>10, <2>1 DEF RunsTo
<1>12. k = [i \in 0..N |-> IF i = 0 THEN {r} ELSE k[i - 1] \cup ParentsOf(tree, k[i - 1])]
  BY <1>1, <1>11 DEF Ancestors, NumberOfRoles, ParentsOf
<1>13. k[0] = {r}  BY <1>1, <1>12
<1>14. \A i \in 1..N : k[i] = k[i - 1] \cup ParentsOf(tree, k[i - 1])
  <2>1. TAKE i \in 1..N
  <2>2. i \in 0..N /\ i # 0  BY <1>9
  <2>3. k[i] = IF i = 0 THEN {r} ELSE k[i - 1] \cup ParentsOf(tree, k[i - 1])
    BY <1>12, <2>2, Zenon
  <2>. QED  BY <2>2, <2>3, Zenon
<1>. QED  BY <1>1, <1>13, <1>14

\* A tree that loses edges loses ancestors.
Prunes(old, new) ==
  DOMAIN new \subseteq DOMAIN old /\ \A q \in DOMAIN new : new[q] \in {old[q], NoRole}

LEMMA AncestorsShrink ==
  ASSUME NEW old, NEW new, Prunes(old, new), NEW r
  PROVE  Ancestors(new, r)[NumberOfRoles] \subseteq Ancestors(old, r)[NumberOfRoles]
<1>1. PICK N \in Nat : N = NumberOfRoles  BY RolesAreFinite
<1>2. PICK k : k = Ancestors(old, r)  OBVIOUS
<1>3. PICK l : l = Ancestors(new, r)  OBVIOUS
<1>4. k[0] = {r} /\ \A i \in 1..N : k[i] = k[i - 1] \cup ParentsOf(old, k[i - 1])
  BY <1>1, <1>2, AncestorsRun
<1>5. l[0] = {r} /\ \A i \in 1..N : l[i] = l[i - 1] \cup ParentsOf(new, l[i - 1])
  BY <1>1, <1>3, AncestorsRun
<1>6. PICK T : T = {n \in 0..N : ~(l[n] \subseteq k[n])}  OBVIOUS
<1>7. T = {}
  <2>1. SUFFICES ASSUME T # {} PROVE FALSE  OBVIOUS
  <2>2. T \subseteq Nat  BY <1>6
  <2>3. PICK n \in T : \A m \in T : n <= m  BY <2>1, <2>2, SmallestIn
  <2>4. n \in 0..N /\ ~(l[n] \subseteq k[n])  BY <1>6, <2>3
  <2>5. n # 0  BY <1>4, <1>5, <2>4
  <2>6. n \in 1..N /\ n - 1 \in 0..N /\ n - 1 < n  BY <2>4, <2>5
  <2>7. l[n - 1] \subseteq k[n - 1]  BY <1>6, <2>2, <2>3, <2>6
  <2>8. ParentsOf(new, l[n - 1]) \subseteq ParentsOf(old, k[n - 1])
    BY <2>7 DEF ParentsOf, Prunes
  <2>. QED  BY <1>4, <1>5, <2>4, <2>6, <2>7, <2>8
<1>8. N \in 0..N  OBVIOUS
<1>9. l[N] \subseteq k[N]  BY <1>6, <1>7, <1>8
<1>. QED  BY <1>1, <1>2, <1>3, <1>9

\* A tree whose roles can be numbered above their parents has no circle.
Ranks(rank, tree) == \A q \in DOMAIN tree : tree[q] # NoRole => rank[tree[q]] < rank[q]
Ordered(tree) == \E rank \in [Role -> Nat] : Ranks(rank, tree)
TreeOK(tree) ==
  /\ DOMAIN tree \subseteq Role
  /\ \A q \in DOMAIN tree : tree[q] \in DOMAIN tree \cup {NoRole}

LEMMA OrderedHasNoCircle ==
  ASSUME NEW tree, TreeOK(tree), Ordered(tree), NEW r \in DOMAIN tree, tree[r] # NoRole
  PROVE  r \notin Ancestors(tree, tree[r])[NumberOfRoles]
<1>1. PICK N \in Nat : N = NumberOfRoles  BY RolesAreFinite
<1>2. PICK rank \in [Role -> Nat] : Ranks(rank, tree)  BY DEF Ordered
<1>3. PICK p : p = tree[r]  OBVIOUS
<1>4. p \in DOMAIN tree /\ p \in Role /\ r \in Role /\ rank[p] < rank[r]
  BY <1>2, <1>3 DEF Ranks, TreeOK
<1>5. PICK k : k = Ancestors(tree, p)  OBVIOUS
<1>6. k[0] = {p} /\ \A i \in 1..N : k[i] = k[i - 1] \cup ParentsOf(tree, k[i - 1])
  BY <1>1, <1>5, AncestorsRun
<1>7. PICK T : T = {n \in 0..N : ~\A q \in k[n] : q \in DOMAIN tree /\ rank[q] <= rank[p]}  OBVIOUS
<1>8. T = {}
  <2>1. SUFFICES ASSUME T # {} PROVE FALSE  OBVIOUS
  <2>2. T \subseteq Nat  BY <1>7
  <2>3. PICK n \in T : \A m \in T : n <= m  BY <2>1, <2>2, SmallestIn
  <2>4. n \in 0..N /\ ~\A q \in k[n] : q \in DOMAIN tree /\ rank[q] <= rank[p]  BY <1>7, <2>3
  <2>5. rank[p] \in Nat  BY <1>4
  <2>6. n # 0  BY <1>4, <1>6, <2>4, <2>5
  <2>7. n \in 1..N /\ n - 1 \in 0..N /\ n - 1 < n  BY <2>4, <2>6
  <2>8. \A q \in k[n - 1] : q \in DOMAIN tree /\ rank[q] <= rank[p]  BY <1>7, <2>2, <2>3, <2>7
  <2>9. ASSUME NEW q \in ParentsOf(tree, k[n - 1]) PROVE q \in DOMAIN tree /\ rank[q] <= rank[p]
    <3>1. PICK c \in k[n - 1] : c \in DOMAIN tree /\ q = tree[c] /\ q # NoRole  BY DEF ParentsOf
    <3>2. rank[q] < rank[c] /\ q \in DOMAIN tree  BY <1>2, <3>1 DEF Ranks, TreeOK
    <3>3. rank[c] \in Nat /\ rank[q] \in Nat  BY <3>1, <3>2 DEF TreeOK
    <3>. QED  BY <2>5, <2>8, <3>1, <3>2, <3>3
  <2>. QED  BY <1>6, <2>4, <2>7, <2>8, <2>9
<1>9. N \in 0..N  OBVIOUS
<1>10. \A q \in k[N] : rank[q] <= rank[p]  BY <1>7, <1>8, <1>9
<1>11. rank[p] \in Nat /\ rank[r] \in Nat  BY <1>4
<1>12. r \notin k[N]  BY <1>4, <1>10, <1>11
<1>. QED  BY <1>1, <1>3, <1>5, <1>12

\* Roles lose their parents, not more.
LEMMA PrunedStays ==
  ASSUME NEW old, NEW new, Prunes(old, new), TreeOK(old), Ordered(old), NoRole \notin DOMAIN old
  PROVE  Ordered(new)
<1>1. PICK rank \in [Role -> Nat] : Ranks(rank, old)  BY DEF Ordered
<1>2. Ranks(rank, new)  BY <1>1 DEF Ranks, Prunes
<1>. QED  BY <1>1, <1>2 DEF Ordered

\* A new role has no children.
LEMMA NewLeaf ==
  ASSUME NEW tree, TreeOK(tree), Ordered(tree), NEW r \in Role \ DOMAIN tree,
         NEW p \in DOMAIN tree \cup {NoRole}, NEW new,
         new = [q \in DOMAIN tree \cup {r} |-> IF q = r THEN p ELSE tree[q]]
  PROVE  TreeOK(new) /\ Ordered(new)
<1>1. PICK rank \in [Role -> Nat] : Ranks(rank, tree)  BY DEF Ordered
<1>2. PICK up \in Nat : up = IF p = NoRole THEN 0 ELSE rank[p] + 1
  <2>1. p # NoRole => rank[p] \in Nat  BY DEF TreeOK
  <2>. QED  BY <2>1
<1>3. PICK above : above = [rank EXCEPT ![r] = up]  OBVIOUS
<1>4. above \in [Role -> Nat] /\ above[r] = up /\ \A q \in Role : q # r => above[q] = rank[q]
  BY <1>3
<1>5. TreeOK(new)  BY DEF TreeOK
<1>6. ASSUME NEW q \in DOMAIN new, new[q] # NoRole PROVE above[new[q]] < above[q]
  <2>1. CASE q = r
    <3>1. p \in DOMAIN tree /\ p \in Role /\ p # r /\ new[q] = p  BY <1>6, <2>1 DEF TreeOK
    <3>2. rank[p] \in Nat  BY <3>1
    <3>. QED  BY <1>2, <1>4, <1>6, <2>1, <3>1, <3>2
  <2>2. CASE q # r
    <3>1. q \in DOMAIN tree /\ new[q] = tree[q]  BY <2>2
    <3>2. q \in Role /\ tree[q] \in Role /\ tree[q] # r  BY <1>6, <3>1 DEF TreeOK
    <3>3. rank[tree[q]] < rank[q]  BY <1>1, <1>6, <3>1 DEF Ranks
    <3>. QED  BY <1>4, <2>2, <3>1, <3>2, <3>3
  <2>. QED  BY <2>1, <2>2
<1>7. Ranks(above, new)  BY <1>6 DEF Ranks
<1>. QED  BY <1>4, <1>5, <1>7 DEF Ordered

\* What a climb has seen goes from the new parent upwards and leaves the role out.
ClimbOK(x, tree) ==
  /\ x.role \notin x.seen /\ x.seen \subseteq DOMAIN tree
  /\ x.to \in x.seen \cup {x.at} /\ x.at \in DOMAIN tree \cup {NoRole}
  /\ \A q \in x.seen : tree[q] \in x.seen \cup {x.at}

LEMMA Reparented ==
  ASSUME NEW tree, TreeOK(tree), Ordered(tree), NEW x, ClimbOK(x, tree), x.at = NoRole,
         x.role \in DOMAIN tree, x.to \in DOMAIN tree \cup {NoRole},
         NEW new, new = [tree EXCEPT ![x.role] = x.to]
  PROVE  TreeOK(new) /\ Ordered(new)
<1>1. PICK rank \in [Role -> Nat] : Ranks(rank, tree)  BY DEF Ordered
<1>2. PICK r \in Role : r = x.role /\ r \in DOMAIN tree  BY DEF TreeOK
<1>3. PICK p : p = x.to  OBVIOUS
<1>4. PICK seen : seen = x.seen  OBVIOUS
<1>5. /\ r \notin seen /\ seen \subseteq DOMAIN tree /\ p \in seen \cup {NoRole}
      /\ \A q \in seen : tree[q] \in seen \cup {NoRole}
  BY <1>2, <1>3, <1>4 DEF ClimbOK
<1>6. /\ DOMAIN new = DOMAIN tree /\ new[r] = p
      /\ \A q \in DOMAIN tree : q # r => new[q] = tree[q]
  BY <1>2, <1>3
<1>7. TreeOK(new)  BY <1>2, <1>3, <1>6 DEF TreeOK
<1>8. CASE p = NoRole
  <2>1. Prunes(tree, new)  BY <1>6, <1>8 DEF Prunes
  <2>2. Ranks(rank, new)  BY <1>1, <2>1 DEF Ranks, Prunes
  <2>. QED  BY <1>7, <2>2 DEF Ordered
<1>9. CASE p # NoRole
  <2>1. PICK b \in Nat : b = rank[p] + 1
    <3>1. p \in Role  BY <1>5, <1>9 DEF TreeOK
    <3>. QED  BY <3>1
  <2>2. PICK above : above = [q \in Role |-> IF q \in seen THEN rank[q] ELSE rank[q] + b]  OBVIOUS
  <2>3. above \in [Role -> Nat]  BY <2>2
  <2>4. \A q \in Role : rank[q] \in Nat /\ above[q] = IF q \in seen THEN rank[q] ELSE rank[q] + b
    BY <2>2
  <2>5. ASSUME NEW q \in DOMAIN new, new[q] # NoRole PROVE above[new[q]] < above[q]
    <3>1. q \in DOMAIN tree /\ q \in Role  BY <1>6 DEF TreeOK
    <3>2. CASE q = r
      <4>1. new[q] = p /\ p \in seen /\ p \in Role /\ q \notin seen
        BY <1>5, <1>6, <1>9, <3>2 DEF TreeOK
      <4>2. above[p] = rank[p] /\ above[q] = rank[q] + b  BY <2>4, <3>1, <4>1
      <4>3. rank[p] \in Nat /\ rank[q] \in Nat  BY <2>4, <3>1, <4>1
      <4>. QED  BY <2>1, <4>1, <4>2, <4>3
    <3>3. CASE q # r
      <4>1. PICK c \in Role : c = new[q] /\ c = tree[q] /\ c # NoRole
        BY <1>6, <2>5, <3>1, <3>3 DEF TreeOK
      <4>2. rank[c] < rank[q]  BY <1>1, <3>1, <4>1 DEF Ranks
      <4>3. q \in seen => c \in seen  BY <1>5, <4>1
      <4>. QED  BY <2>4, <3>1, <4>1, <4>2, <4>3
    <3>. QED  BY <3>2, <3>3
  <2>6. Ranks(above, new)  BY <2>5 DEF Ranks
  <2>. QED  BY <1>7, <2>3, <2>6 DEF Ordered
<1>. QED  BY <1>8, <1>9

\* The permissions of a role.
NamesOf(grants, r) == {g[2] : g \in {x \in grants : x[1] = r}}

LEMMA NamesGrow ==
  ASSUME NEW grants, NEW t, NEW new, new = grants \cup {t}
  PROVE  NamesOf(new, t[1]) = NamesOf(grants, t[1]) \cup {t[2]}
<1>1. \A G, r : \A n : n \in NamesOf(G, r) <=> \E g \in G : g[1] = r /\ g[2] = n
  BY DEF NamesOf
<1>2. \A n : n \in NamesOf(new, t[1]) <=> n \in NamesOf(grants, t[1]) \/ n = t[2]
  BY <1>1
<1>. QED  BY <1>2

RequestOK(x) ==
  \/ x = Still
  \/ x \in [pc : {"grant"}, role : Role, todo : SUBSET UNION Bodies, all : SUBSET UNION Bodies]
  \/ x \in [pc : {"climb"}, role : Role, to : Role \cup {NoRole}, at : Role \cup {NoRole}, seen : SUBSET Role]
  \/ x \in [pc : {"users", "children", "permissions", "row"}, role : Role]

\* A request that overlaps no other knows the hierarchy and the grants.
Knows(x, tree, grants) ==
  /\ x.pc = "climb" => ClimbOK(x, tree)
  /\ x.pc = "grant" => x.todo \subseteq x.all /\ NamesOf(grants, x.role) = x.all \ x.todo

Consistent ==
  /\ \A a, b \in AdminCalls : admin[a] # Still /\ admin[b] # Still => a = b
  /\ Ordered(parent)
  /\ \A a \in AdminCalls : Knows(admin[a], parent, granted)

RolesInv ==
  /\ TreeOK(parent) /\ (\A g \in granted : g[1] \in Exists)
  /\ DOMAIN admin = AdminCalls /\ \A a \in AdminCalls : RequestOK(admin[a])
  /\ crossed \in BOOLEAN /\ (~crossed => Consistent)

LEMMA RolesInvImplies == RolesInv => HierarchyIsAcyclic /\ GrantsAreTheRequests
<1>1. SUFFICES ASSUME RolesInv, ~crossed PROVE HierarchyIsAcyclic /\ GrantsAreTheRequests
  BY DEF RolesInv, HierarchyIsAcyclic, GrantsAreTheRequests
<1>2. Consistent /\ TreeOK(parent)  BY <1>1 DEF RolesInv
<1>3. ASSUME NEW r \in Exists, parent[r] # NoRole PROVE r \notin Chain(parent[r])
  BY <1>2, <1>3, OrderedHasNoCircle DEF Consistent, Exists, Chain, NumberOfRoles
<1>4. ASSUME NEW a \in AdminCalls, admin[a].pc = "grant"
      PROVE  {g[2] : g \in {x \in granted : x[1] = admin[a].role}} = admin[a].all \ admin[a].todo
  BY <1>2, <1>4 DEF Consistent, Knows, NamesOf
<1>. QED  BY <1>3, <1>4 DEF HierarchyIsAcyclic, GrantsAreTheRequests

\* The next of one request, which is alone unless requests have crossed.
RequestStep(a, x) ==
  /\ RequestOK(x) /\ admin' = [admin EXCEPT ![a] = x]
  /\ TreeOK(parent') /\ \A g \in granted' : g[1] \in Exists'
  /\ crossed' \in BOOLEAN
  /\ ~crossed' => /\ ~crossed /\ (admin[a] = Still => Others(a) = {})
                  /\ Ordered(parent') /\ Knows(x, parent', granted')

LEMMA RequestSteps ==
  ASSUME RolesInv, NEW a \in AdminCalls, NEW x, RequestStep(a, x)
  PROVE  RolesInv'
<1>1. DOMAIN admin = AdminCalls /\ admin' = [admin EXCEPT ![a] = x]
  BY DEF RolesInv, RequestStep
<1>2. PICK new : new = admin'  OBVIOUS
<1>3. DOMAIN new = AdminCalls /\ new[a] = x /\ \A b \in AdminCalls : b # a => new[b] = admin[b]
  BY <1>1, <1>2
<1>4. \A b \in AdminCalls : RequestOK(new[b])  BY <1>3 DEF RolesInv, RequestStep
<1>5. ASSUME ~crossed' PROVE Consistent'
  <2>1. /\ ~crossed /\ (admin[a] = Still => Others(a) = {})
        /\ Ordered(parent') /\ Knows(x, parent', granted')
    BY <1>5 DEF RequestStep
  <2>2. Consistent  BY <2>1 DEF RolesInv
  <2>3. ASSUME NEW b \in AdminCalls, b # a PROVE new[b] = Still
    <3>1. new[b] = admin[b]  BY <1>3, <2>3
    <3>2. CASE admin[a] = Still
      <4>1. Others(a) = {}  BY <2>1, <3>2
      <4>. QED  BY <2>3, <3>1, <4>1 DEF Others
    <3>3. CASE admin[a] # Still  BY <2>2, <2>3, <3>1, <3>3 DEF Consistent
    <3>. QED  BY <3>2, <3>3
  <2>4. Knows(Still, parent', granted')  BY DEF Knows, Still
  <2>5. \A b \in AdminCalls : Knows(new[b], parent', granted')  BY <1>3, <2>1, <2>3, <2>4
  <2>6. \A b, c \in AdminCalls : new[b] # Still /\ new[c] # Still => b = c  BY <2>3
  <2>. QED  BY <1>2, <2>1, <2>5, <2>6 DEF Consistent
<1>6. TreeOK(parent)' /\ (\A g \in granted' : g[1] \in Exists') /\ crossed' \in BOOLEAN
  BY DEF RequestStep, TreeOK
<1>. QED  BY <1>2, <1>3, <1>4, <1>5, <1>6 DEF RolesInv

\* A request that begins crosses those in progress.
LEMMA BeginsOK ==
  ASSUME RolesInv, NEW a \in AdminCalls, Crosses(a)
  PROVE  /\ crossed' \in BOOLEAN
         /\ ~crossed' => ~crossed /\ Others(a) = {} /\ Consistent
BY DEF RolesInv, Crosses

\* A request in progress that leaves crossed as it is.
LEMMA GoesOn ==
  ASSUME RolesInv, UNCHANGED crossed
  PROVE  /\ crossed' \in BOOLEAN /\ (~crossed' => ~crossed /\ Consistent)
BY DEF RolesInv

\* Requests of other kinds know nothing that could change.
LEMMA KnowsNothing ==
  ASSUME NEW x, x.pc \notin {"climb", "grant"}, NEW tree, NEW grants
  PROVE  Knows(x, tree, grants)
BY DEF Knows

LEMMA FinishedKeeps ==
  ASSUME RolesInv, NEW a \in AdminCalls, Finished(a), admin[a] # Still, UNCHANGED <<parent, granted, crossed>>
  PROVE  RolesInv'
<1>1. RequestOK(Still) /\ Knows(Still, parent, granted)
  BY KnowsNothing DEF RequestOK, Still
<1>2. TreeOK(parent) /\ (\A g \in granted : g[1] \in Exists) /\ Exists' = Exists
  BY DEF RolesInv, Exists
<1>3. crossed' \in BOOLEAN /\ (~crossed' => ~crossed /\ Ordered(parent))
  BY GoesOn DEF Consistent
<1>4. RequestStep(a, Still)  BY <1>1, <1>2, <1>3 DEF RequestStep, Finished
<1>. QED  BY <1>4, RequestSteps

LEMMA CreateRoleStep ==
  ASSUME RolesInv, NEW a \in AdminCalls, NEW r \in Role, NEW p, NEW perms \in Bodies,
         CreateRole(a, r, p, perms)
  PROVE  RolesInv'
<1>1. PICK x : x = [pc |-> "grant", role |-> r, todo |-> perms, all |-> perms]  OBVIOUS
<1>2. /\ r \notin Exists /\ p \in Exists \cup {NoRole} /\ admin' = [admin EXCEPT ![a] = x]
      /\ parent' = [q \in Exists \cup {r} |-> IF q = r THEN p ELSE parent[q]]
      /\ Crosses(a) /\ granted' = granted
  BY <1>1 DEF CreateRole, AdminRequest
<1>3. RequestOK(x)  BY <1>1 DEF RequestOK
<1>4. TreeOK(parent) /\ \A g \in granted : g[1] \in Exists  BY DEF RolesInv
<1>5. Exists' = Exists \cup {r}  BY <1>2 DEF Exists
<1>6. crossed' \in BOOLEAN /\ (~crossed' => ~crossed /\ Others(a) = {} /\ Consistent)
  BY <1>2, BeginsOK
<1>7. TreeOK(parent')  BY <1>2, <1>4 DEF TreeOK, Exists
<1>8. Ordered(parent) => Ordered(parent')  BY <1>2, <1>4, NewLeaf DEF Exists
<1>9. NamesOf(granted, r) = {}  BY <1>2, <1>4 DEF NamesOf
<1>10. Knows(x, parent', granted)  BY <1>1, <1>9 DEF Knows
<1>11. RequestStep(a, x)
  BY <1>2, <1>3, <1>4, <1>5, <1>6, <1>7, <1>8, <1>10 DEF RequestStep, Consistent
<1>. QED  BY <1>11, RequestSteps

LEMMA SetPermissionsStep ==
  ASSUME RolesInv, NEW a \in AdminCalls, NEW r \in Role, NEW perms \in Bodies, SetPermissions(a, r, perms)
  PROVE  RolesInv'
<1>1. PICK x : x = [pc |-> "grant", role |-> r, todo |-> perms, all |-> perms]  OBVIOUS
<1>2. /\ admin' = [admin EXCEPT ![a] = x] /\ granted' = {g \in granted : g[1] # r}
      /\ Crosses(a) /\ parent' = parent
  BY <1>1 DEF SetPermissions, AdminRequest
<1>3. RequestOK(x)  BY <1>1 DEF RequestOK
<1>4. TreeOK(parent) /\ (\A g \in granted : g[1] \in Exists) /\ Exists' = Exists
  BY <1>2 DEF RolesInv, Exists
<1>5. crossed' \in BOOLEAN /\ (~crossed' => ~crossed /\ Others(a) = {} /\ Consistent)
  BY <1>2, BeginsOK
<1>6. NamesOf(granted', r) = {}  BY <1>2 DEF NamesOf
<1>7. Knows(x, parent, granted')  BY <1>1, <1>6 DEF Knows
<1>8. RequestStep(a, x)
  BY <1>2, <1>3, <1>4, <1>5, <1>7 DEF RequestStep, Consistent
<1>. QED  BY <1>8, RequestSteps

LEMMA GrantStep ==
  ASSUME RolesInv, NEW a \in AdminCalls, Grant(a)
  PROVE  RolesInv'
<1>1. PICK x : x = admin[a]  OBVIOUS
<1>2. PICK p \in x.todo :
        IF x.role \in Exists /\ <<x.role, p>> \notin granted
        THEN granted' = granted \cup {<<x.role, p>>} /\ admin' = [admin EXCEPT ![a].todo = @ \ {p}]
        ELSE Finished(a) /\ UNCHANGED granted
  BY <1>1 DEF Grant
<1>3. x.pc = "grant" /\ UNCHANGED <<parent, crossed>>  BY <1>1 DEF Grant
<1>4. RequestOK(x)  BY <1>1 DEF RolesInv
<1>5. x \in [pc : {"grant"}, role : Role, todo : SUBSET UNION Bodies, all : SUBSET UNION Bodies]
  BY <1>3, <1>4 DEF RequestOK, Still
<1>6. x # Still  BY <1>3 DEF Still
<1>7. CASE x.role \in Exists /\ <<x.role, p>> \notin granted
  <2>1. PICK y : y = [x EXCEPT !.todo = @ \ {p}]  OBVIOUS
  <2>2. admin' = [admin EXCEPT ![a] = y] /\ granted' = granted \cup {<<x.role, p>>}
    BY <1>1, <1>2, <1>7, <2>1
  <2>3. /\ y \in [pc : {"grant"}, role : Role, todo : SUBSET UNION Bodies, all : SUBSET UNION Bodies]
        /\ y.pc = "grant" /\ y.role = x.role /\ y.all = x.all /\ y.todo = x.todo \ {p}
    BY <1>5, <2>1
  <2>4. /\ TreeOK(parent) /\ (\A g \in granted' : g[1] \in Exists) /\ Exists' = Exists
    BY <1>3, <1>7, <2>2 DEF RolesInv, Exists
  <2>5. crossed' \in BOOLEAN /\ (~crossed' => ~crossed /\ Consistent)  BY <1>3, GoesOn
  <2>6. ASSUME ~crossed' PROVE Knows(y, parent, granted')
    <3>1. Knows(x, parent, granted)  BY <1>1, <2>5, <2>6 DEF Consistent
    <3>2. x.todo \subseteq x.all /\ NamesOf(granted, x.role) = x.all \ x.todo
      BY <1>3, <3>1 DEF Knows
    <3>3. NamesOf(granted', x.role) = NamesOf(granted, x.role) \cup {p}
      <4>1. PICK t : t = <<x.role, p>>  OBVIOUS
      <4>2. t[1] = x.role /\ t[2] = p /\ granted' = granted \cup {t}  BY <2>2, <4>1
      <4>3. NamesOf(granted', t[1]) = NamesOf(granted, t[1]) \cup {t[2]}  BY <4>2, NamesGrow
      <4>. QED  BY <4>2, <4>3
    <3>4. x.all \ (x.todo \ {p}) = (x.all \ x.todo) \cup {p}  BY <1>2, <3>2
    <3>. QED  BY <2>3, <3>2, <3>3, <3>4 DEF Knows
  <2>7. RequestOK(y)  BY <2>3 DEF RequestOK
  <2>8. RequestStep(a, y)
    BY <1>1, <1>3, <1>6, <2>2, <2>4, <2>5, <2>6, <2>7 DEF RequestStep, Consistent
  <2>. QED  BY <2>8, RequestSteps
<1>8. CASE ~(x.role \in Exists /\ <<x.role, p>> \notin granted)
  <2>1. Finished(a) /\ UNCHANGED granted  BY <1>2, <1>8
  <2>. QED  BY <1>1, <1>3, <1>6, <2>1, FinishedKeeps
<1>. QED  BY <1>7, <1>8

LEMMA ReadParentStep ==
  ASSUME RolesInv, NEW a \in AdminCalls, NEW r \in Role, NEW p \in Role \cup {NoRole}, ReadParent(a, r, p)
  PROVE  RolesInv'
<1>1. PICK x : x = [pc |-> "climb", role |-> r, to |-> p, at |-> p, seen |-> {}]  OBVIOUS
<1>2. admin' = [admin EXCEPT ![a] = x] /\ Crosses(a) /\ parent' = parent /\ granted' = granted
  BY <1>1 DEF ReadParent, AdminRequest
<1>3. RequestOK(x)  BY <1>1 DEF RequestOK
<1>4. TreeOK(parent) /\ (\A g \in granted : g[1] \in Exists) /\ Exists' = Exists
  BY <1>2 DEF RolesInv, Exists
<1>5. crossed' \in BOOLEAN /\ (~crossed' => ~crossed /\ Others(a) = {} /\ Consistent)
  BY <1>2, BeginsOK
<1>6. p \in Exists \cup {NoRole}  BY DEF ReadParent
<1>7. Knows(x, parent, granted)  BY <1>1, <1>6 DEF Knows, ClimbOK, Exists
<1>8. RequestStep(a, x)
  BY <1>2, <1>3, <1>4, <1>5, <1>7 DEF RequestStep, Consistent
<1>. QED  BY <1>8, RequestSteps

LEMMA ClimbStep ==
  ASSUME RolesInv, NEW a \in AdminCalls, Climb(a)
  PROVE  RolesInv'
<1>1. PICK x : x = admin[a]  OBVIOUS
<1>2. x.pc = "climb" /\ x.at # NoRole /\ UNCHANGED <<parent, granted, crossed>>
  BY <1>1 DEF Climb
<1>3. RequestOK(x)  BY <1>1 DEF RolesInv
<1>4. x \in [pc : {"climb"}, role : Role, to : Role \cup {NoRole}, at : Role \cup {NoRole}, seen : SUBSET Role]
  BY <1>2, <1>3 DEF RequestOK, Still
<1>5. x # Still  BY <1>2 DEF Still
<1>6. CASE x.at = x.role \/ x.at \in x.seen
  <2>1. Finished(a)  BY <1>1, <1>6 DEF Climb
  <2>. QED  BY <1>1, <1>2, <1>5, <2>1, FinishedKeeps
<1>7. CASE ~(x.at = x.role \/ x.at \in x.seen)
  <2>1. PICK up : up = IF x.at \in Exists THEN parent[x.at] ELSE NoRole  OBVIOUS
  <2>2. PICK y : y = [x EXCEPT !.seen = @ \cup {x.at}, !.at = up]  OBVIOUS
  <2>3. admin' = [admin EXCEPT ![a] = y]
    BY <1>1, <1>7, <2>1, <2>2 DEF Climb
  <2>4. TreeOK(parent) /\ (\A g \in granted : g[1] \in Exists) /\ Exists' = Exists
    BY <1>2 DEF RolesInv, Exists
  <2>5. up \in Role \cup {NoRole}  BY <2>1, <2>4 DEF TreeOK, Exists
  <2>6. /\ y \in [pc : {"climb"}, role : Role, to : Role \cup {NoRole}, at : Role \cup {NoRole}, seen : SUBSET Role]
        /\ y.pc = "climb" /\ y.role = x.role /\ y.to = x.to /\ y.at = up /\ y.seen = x.seen \cup {x.at}
    BY <1>2, <1>4, <2>2, <2>5
  <2>7. crossed' \in BOOLEAN /\ (~crossed' => ~crossed /\ Consistent)  BY <1>2, GoesOn
  <2>8. ASSUME ~crossed' PROVE Knows(y, parent, granted)
    <3>1. ClimbOK(x, parent)  BY <1>1, <1>2, <2>7, <2>8 DEF Consistent, Knows
    <3>2. x.at \in Exists /\ up = parent[x.at] /\ up \in Exists \cup {NoRole}
      BY <1>2, <2>1, <2>4, <3>1 DEF ClimbOK, TreeOK, Exists
    <3>3. ClimbOK(y, parent)  BY <1>7, <2>6, <3>1, <3>2 DEF ClimbOK, Exists
    <3>. QED  BY <2>6, <3>3 DEF Knows
  <2>9. RequestOK(y)  BY <2>6 DEF RequestOK
  <2>10. RequestStep(a, y)
    BY <1>1, <1>2, <1>5, <2>3, <2>4, <2>7, <2>8, <2>9 DEF RequestStep, Consistent
  <2>. QED  BY <2>10, RequestSteps
<1>. QED  BY <1>6, <1>7

LEMMA WriteParentStep ==
  ASSUME RolesInv, NEW a \in AdminCalls, WriteParent(a)
  PROVE  RolesInv'
<1>1. PICK x : x = admin[a]  OBVIOUS
<1>2. /\ x.pc = "climb" /\ x.at = NoRole /\ UNCHANGED <<granted, crossed>>
      /\ admin' = [admin EXCEPT ![a] = Still]
      /\ parent' = IF x.role \in Exists /\ x.to \in Exists \cup {NoRole}
                   THEN [parent EXCEPT ![x.role] = x.to] ELSE parent
  BY <1>1 DEF WriteParent, Finished
<1>3. x # Still  BY <1>2 DEF Still
<1>4. RequestOK(Still) /\ Knows(Still, parent', granted)
  BY KnowsNothing DEF RequestOK, Still
<1>5. TreeOK(parent) /\ \A g \in granted : g[1] \in Exists  BY DEF RolesInv
<1>6. crossed' \in BOOLEAN /\ (~crossed' => ~crossed /\ Consistent)  BY <1>2, GoesOn
<1>7. TreeOK(parent') /\ Exists' = Exists  BY <1>2, <1>5 DEF TreeOK, Exists
<1>8. ASSUME ~crossed' PROVE Ordered(parent')
  <2>1. Ordered(parent) /\ ClimbOK(x, parent)  BY <1>1, <1>2, <1>6, <1>8 DEF Consistent, Knows
  <2>. QED  BY <1>2, <1>5, <2>1, Reparented DEF Exists
<1>9. RequestStep(a, Still)
  BY <1>1, <1>2, <1>3, <1>4, <1>5, <1>6, <1>7, <1>8 DEF RequestStep
<1>. QED  BY <1>9, RequestSteps

LEMMA BeginRemovalStep ==
  ASSUME RolesInv, NEW a \in AdminCalls, NEW r \in Role, BeginRemoval(a, r)
  PROVE  RolesInv'
<1>1. PICK x : x = [pc |-> "users", role |-> r]  OBVIOUS
<1>2. admin' = [admin EXCEPT ![a] = x] /\ Crosses(a) /\ parent' = parent /\ granted' = granted
  BY <1>1 DEF BeginRemoval, AdminRequest
<1>3. RequestOK(x) /\ Knows(x, parent, granted)  BY <1>1, KnowsNothing DEF RequestOK
<1>4. TreeOK(parent) /\ (\A g \in granted : g[1] \in Exists) /\ Exists' = Exists
  BY <1>2 DEF RolesInv, Exists
<1>5. crossed' \in BOOLEAN /\ (~crossed' => ~crossed /\ Others(a) = {} /\ Consistent)
  BY <1>2, BeginsOK
<1>6. RequestStep(a, x)
  BY <1>2, <1>3, <1>4, <1>5 DEF RequestStep, Consistent
<1>. QED  BY <1>6, RequestSteps

\* What a deletion does to the hierarchy and to the grants at each of its steps.
LEMMA RemovalPrunes ==
  ASSUME NEW a \in AdminCalls, RemovalStep(a)
  PROVE  /\ Prunes(parent, parent') /\ granted' \subseteq granted /\ deptRole' \subseteq deptRole
         /\ \A u \in Person : holds'[u] = holds[u] \/ holds'[u] = UserRole
<1>1. CASE MoveUsers(a)  BY <1>1 DEF MoveUsers, Prunes
<1>2. CASE OrphanChildren(a)  BY <1>2 DEF OrphanChildren, Prunes, Exists
<1>3. CASE RemoveGrants(a)  BY <1>3 DEF RemoveGrants, Prunes
<1>4. CASE RemoveRole(a)
  <2>1. Prunes(parent, parent')
    BY <1>4 DEF RemoveRole, Prunes, Exists
  <2>. QED  BY <1>4, <2>1 DEF RemoveRole
<1>. QED  BY <1>1, <1>2, <1>3, <1>4 DEF RemovalStep

LEMMA RemovalSteps ==
  ASSUME RolesInv, NEW a \in AdminCalls, RemovalStep(a)
  PROVE  RolesInv'
<1>1. PICK x : x = admin[a]  OBVIOUS
<1>2. x.pc \in {"users", "children", "permissions", "row"} /\ UNCHANGED crossed
  BY <1>1 DEF RemovalStep, MoveUsers, OrphanChildren, RemoveGrants, RemoveRole
<1>3. x \in [pc : {"users", "children", "permissions", "row"}, role : Role] /\ x # Still
  <2>1. RequestOK(x)  BY <1>1 DEF RolesInv
  <2>. QED  BY <1>2, <2>1 DEF RequestOK, Still
<1>4. PICK y :
        /\ admin' = [admin EXCEPT ![a] = y]
        /\ y = Still \/ y = [x EXCEPT !.pc = "children"] \/ y = [x EXCEPT !.pc = "permissions"]
                     \/ y = [x EXCEPT !.pc = "row"]
  BY <1>1 DEF RemovalStep, MoveUsers, OrphanChildren, RemoveGrants, RemoveRole, Finished
<1>5. RequestOK(y) /\ Knows(y, parent', granted')
  <2>1. y = Still \/ y \in [pc : {"users", "children", "permissions", "row"}, role : Role]
    BY <1>3, <1>4
  <2>. QED  BY <2>1, KnowsNothing DEF RequestOK, Still
<1>6. TreeOK(parent) /\ (\A g \in granted : g[1] \in Exists) /\ NoRole \notin Exists
  BY RolesAssumption DEF RolesInv, TreeOK, Exists
<1>7. TreeOK(parent') /\ \A g \in granted' : g[1] \in Exists'
  <2>1. CASE MoveUsers(a) \/ RemoveGrants(a)
    BY <1>6, <2>1 DEF MoveUsers, RemoveGrants, Exists
  <2>2. CASE OrphanChildren(a)  BY <1>6, <2>2 DEF OrphanChildren, Exists, TreeOK
  <2>3. CASE RemoveRole(a)
    <3>1. PICK r : r = admin[a].role  OBVIOUS
    <3>2. CASE UNCHANGED parent  BY <1>6, <2>3, <3>2 DEF RemoveRole, Exists
    <3>3. CASE ~UNCHANGED parent
      <4>1. /\ parent' = [q \in Exists \ {r} |-> IF parent[q] = r THEN NoRole ELSE parent[q]]
            /\ (\A g \in granted : g[1] # r) /\ granted' = granted
        BY <2>3, <3>1, <3>3 DEF RemoveRole
      <4>2. Exists' = Exists \ {r}  BY <4>1 DEF Exists
      <4>. QED  BY <1>6, <4>1, <4>2 DEF TreeOK, Exists
    <3>. QED  BY <3>2, <3>3
  <2>. QED  BY <2>1, <2>2, <2>3 DEF RemovalStep
<1>8. crossed' \in BOOLEAN /\ (~crossed' => ~crossed /\ Consistent)  BY <1>2, GoesOn
<1>9. ~crossed' => Ordered(parent')
  BY <1>6, <1>8, RemovalPrunes, PrunedStays DEF Consistent, Exists
<1>10. RequestStep(a, y)
  BY <1>1, <1>3, <1>4, <1>5, <1>7, <1>8, <1>9 DEF RequestStep
<1>. QED  BY <1>10, RequestSteps

LEMMA RolesInvStep == RolesInv /\ [RolesNext]_roles => RolesInv'
<1> SUFFICES ASSUME RolesInv, [RolesNext]_roles PROVE RolesInv'  OBVIOUS
<1>1. ASSUME UNCHANGED <<parent, granted, admin, crossed>> PROVE RolesInv'
  <2>1. Exists' = Exists /\ TreeOK(parent') /\ (Consistent => Consistent')
    BY <1>1 DEF Exists, Consistent, RolesInv
  <2>. QED  BY <1>1, <2>1 DEF RolesInv
<1>2. ASSUME NEW a \in AdminCalls, Granted(a) \/ FailRequest(a) PROVE RolesInv'
  <2>1. admin[a] # Still /\ Finished(a) /\ UNCHANGED <<parent, granted, crossed>>
    BY <1>2 DEF Granted, FailRequest, Still
  <2>. QED  BY <2>1, FinishedKeeps
<1>3. ASSUME NEW a \in AdminCalls, NEW r \in Role, NEW p \in Role \cup {NoRole}, NEW s \in Bodies,
             CreateRole(a, r, p, s) \/ SetPermissions(a, r, s)
      PROVE  RolesInv'
  BY <1>3, CreateRoleStep, SetPermissionsStep
<1>4. ASSUME NEW a \in AdminCalls, NEW r \in Role, NEW p \in Role \cup {NoRole},
             ReadParent(a, r, p) \/ BeginRemoval(a, r)
      PROVE  RolesInv'
  BY <1>4, ReadParentStep, BeginRemovalStep
<1>5. ASSUME NEW a \in AdminCalls, Grant(a) \/ Climb(a) \/ WriteParent(a) \/ RemovalStep(a)
      PROVE  RolesInv'
  BY <1>5, GrantStep, ClimbStep, WriteParentStep, RemovalSteps
<1>6. ASSUME NEW u, NEW r, GiveRole(u, r) \/ GiveDepartmentRole(u, r) PROVE RolesInv'
  BY <1>1, <1>6 DEF GiveRole, GiveDepartmentRole
<1>7. ASSUME NEW g, NEW p, CreateGroup(g) \/ DeleteGroup(g) \/ MoveToGroup(p, g) PROVE RolesInv'
  BY <1>1, <1>7 DEF CreateGroup, DeleteGroup, MoveToGroup
<1>8. CASE UNCHANGED roles  BY <1>1, <1>8 DEF roles
<1>. QED  BY <1>2, <1>3, <1>4, <1>5, <1>6, <1>7, <1>8 DEF RolesNext

\* What a person may do.
RolesHeld(u, held, inDepts) == {held[u]} \cup {d[2] : d \in {x \in inDepts : x[1] = u}}

LEMMA Permitted ==
  ASSUME NEW u, NEW p
  PROVE  /\ p \in PermissionsOf(u) <=>
              \E g \in granted : g[2] = p /\ \E r \in RolesHeld(u, holds, deptRole) : g[1] \in Chain(r)
         /\ p \in PermissionsOf(u)' <=>
              \E g \in granted' : g[2] = p /\ \E r \in RolesHeld(u, holds', deptRole') : g[1] \in Chain(r)'
BY DEF PermissionsOf, RolesHeld

LEMMA RemovalsGiveNothing ==
  ASSUME NEW a \in AdminCalls, RemovalStep(a), NEW u \in Person, NEW p \in PermissionsOf(u)'
  PROVE  p \in PermissionsOf(u) \cup {g[2] : g \in {x \in granted : x[1] \in Chain(UserRole)}}
<1>1. PICK g \in granted' : g[2] = p /\ \E r \in RolesHeld(u, holds', deptRole') : g[1] \in Chain(r)'
  BY Permitted
<1>2. PICK r \in RolesHeld(u, holds', deptRole') : g[1] \in Chain(r)'  BY <1>1
<1>3. g \in granted /\ (r \in RolesHeld(u, holds, deptRole) \/ r = UserRole)
  BY RemovalPrunes DEF RolesHeld
<1>4. Chain(r)' \subseteq Chain(r)
  BY RemovalPrunes, AncestorsShrink DEF Chain, NumberOfRoles
<1>5. CASE r = UserRole  BY <1>1, <1>2, <1>3, <1>4, <1>5
<1>6. CASE r \in RolesHeld(u, holds, deptRole)  BY <1>1, <1>2, <1>3, <1>4, <1>6, Permitted
<1>. QED  BY <1>3, <1>5, <1>6

\* However the statements of administrators' requests on roles interleave, fail and stop: no
\* role is its own ancestor and grants are those asked for unless requests crossed, and the
\* deletion of a role gives nobody a permission (routes/users.ts).
THEOREM RolesStaySound == RolesSpec => RolesAreSound
<1>1. RolesInit => RolesInv
  <2>1. SUFFICES ASSUME RolesInit PROVE RolesInv  OBVIOUS
  <2>2. TreeOK(parent) /\ \A g \in granted : g[1] \in Exists
    BY <2>1, RolesAssumption DEF RolesInit, TreeOK, Exists
  <2>3. DOMAIN admin = AdminCalls /\ \A a \in AdminCalls : admin[a] = Still  BY <2>1 DEF RolesInit
  <2>4. \A a \in AdminCalls : RequestOK(admin[a]) /\ Knows(admin[a], parent, granted)
    BY <2>3, KnowsNothing DEF RequestOK, Still
  <2>5. Ordered(parent)
    <3>1. PICK rank : rank = [r \in Role |-> 0]  OBVIOUS
    <3>2. rank \in [Role -> Nat] /\ Ranks(rank, parent)  BY <2>1, <3>1 DEF RolesInit, Ranks
    <3>. QED  BY <3>2 DEF Ordered
  <2>6. Consistent  BY <2>3, <2>4, <2>5 DEF Consistent
  <2>. QED  BY <2>1, <2>2, <2>3, <2>4, <2>6 DEF RolesInit, RolesInv
<1>2. [RolesNext]_roles =>
        [(\E a \in AdminCalls : RemovalStep(a)) =>
           \A u \in Person :
             PermissionsOf(u)' \subseteq PermissionsOf(u) \cup
               {g[2] : g \in {x \in granted : x[1] \in Chain(UserRole)}}]_roles
  BY RemovalsGiveNothing
<1>3. RolesSpec => RemovalGivesNothing  BY <1>2, PTL DEF RolesSpec, RemovalGivesNothing
<1>4. QED  BY <1>1, <1>3, RolesInvImplies, RolesInvStep, PTL DEF RolesSpec, RolesAreSound

-----------------------------------------------------------------------------
(* ServiceAccess: the most specific rules decide.                           *)

\* The nearest of some distances.
LEMMA NearestIs ==
  ASSUME NEW S, S \subseteq Nat, S # {}
  PROVE  Nearest(S) \in S /\ \A k \in S : Nearest(S) <= k
<1>1. \E n \in S : \A k \in S : n <= k  BY SmallestIn
<1>. QED  BY <1>1 DEF Nearest

\* Rules with their distances, P: those that say something of a flag, the
\* nearest of them, what these decide, and the layer they make.
Speaking(P, f) == {p \in P : rule[p[1]][f] # Unset}
Closest(P, f) == {p \in Speaking(P, f) : \A q \in Speaking(P, f) : p[2] <= q[2]}
Decision(P, f) ==
  IF Speaking(P, f) = {} THEN Unset
  ELSE IF \E p \in Closest(P, f) : rule[p[1]][f] = "no" THEN "no" ELSE "yes"
DistancesOf(P, t) == {p[2] : p \in {q \in P : q[1] = t}}
LayerOf(P) == {<<rule[t], Nearest(DistancesOf(P, t))>> : t \in {p[1] : p \in P}}

LEMMA LayerDecides ==
  ASSUME NEW P, P \subseteq Targets \X Nat, NEW f
  PROVE  EvaluateNearest(LayerOf(P), f) = Decision(P, f)
<1>1. PICK T : T = {p[1] : p \in P}  OBVIOUS
<1>2. PICK D : D = [t \in T |-> Nearest(DistancesOf(P, t))]  OBVIOUS
<1>3. \A p \in P : p[2] \in Nat /\ p[1] \in T  BY <1>1
<1>4. ASSUME NEW t \in T
      PROVE  /\ D[t] \in Nat /\ \A p \in P : p[1] = t => D[t] <= p[2]
             /\ \E p \in P : p[1] = t /\ p[2] = D[t]
  <2>1. DistancesOf(P, t) \subseteq Nat /\ DistancesOf(P, t) # {}
    BY <1>1, <1>3 DEF DistancesOf
  <2>2. D[t] = Nearest(DistancesOf(P, t))  BY <1>2
  <2>3. D[t] \in DistancesOf(P, t) /\ \A k \in DistancesOf(P, t) : D[t] <= k
    BY <2>1, <2>2, NearestIs
  <2>. QED  BY <2>1, <2>3 DEF DistancesOf
<1>5. PICK L : L = {<<rule[t], D[t]>> : t \in T}  OBVIOUS
<1>6. L = LayerOf(P)  BY <1>1, <1>2, <1>5 DEF LayerOf
<1>7. PICK S : S = Explicit(L, f)  OBVIOUS
<1>8. \A x : x \in S <=> \E t \in T : x = <<rule[t], D[t]>> /\ rule[t][f] # Unset
  BY <1>5, <1>7 DEF Explicit
<1>9. \A t \in T : rule[t][f] # Unset <=> \E p \in Speaking(P, f) : p[1] = t
  BY <1>1 DEF Speaking
<1>10. CASE S = {}
  <2>1. \A t \in T : ~(rule[t][f] # Unset)  BY <1>8, <1>10
  <2>2. Speaking(P, f) = {}  BY <1>3, <2>1 DEF Speaking
  <2>3. EvaluateNearest(L, f) = Unset  BY <1>7, <1>10 DEF EvaluateNearest, Evaluate
  <2>. QED  BY <1>6, <2>2, <2>3 DEF Decision
<1>11. CASE S # {}
  <2>1. PICK M : M = {y[2] : y \in S}  OBVIOUS
  <2>2. M \subseteq Nat /\ M # {}
    <3>1. \A y \in S : y[2] \in Nat  BY <1>4, <1>8
    <3>. QED  BY <1>11, <2>1, <3>1
  <2>3. PICK m : m = Nearest(M)  OBVIOUS
  <2>4. m \in M /\ m \in Nat /\ \A k \in M : m <= k  BY <2>2, <2>3, NearestIs
  <2>5. PICK N : N = {x \in S : x[2] = m}  OBVIOUS
  <2>6. N # {}  BY <2>1, <2>4, <2>5
  <2>7. EvaluateNearest(L, f) = IF \E x \in N : x[1][f] = "no" THEN "no" ELSE "yes"
    <3>1. EvaluateNearest(L, f) = Evaluate(N, f)
      BY <1>7, <2>1, <2>3, <2>5 DEF EvaluateNearest
    <3>. QED  BY <2>6, <3>1 DEF Evaluate
  <2>8. \A t \in T : rule[t][f] # Unset => m <= D[t]
    <3>1. TAKE t \in T
    <3>2. HAVE rule[t][f] # Unset
    <3>3. PICK y : y = <<rule[t], D[t]>>  OBVIOUS
    <3>4. y \in S /\ y[2] = D[t]  BY <1>8, <3>2, <3>3
    <3>. QED  BY <2>1, <2>4, <3>4
  <2>9. ASSUME NEW x \in N PROVE \E p \in Closest(P, f) : rule[p[1]][f] = x[1][f]
    <3>1. PICK t \in T : x = <<rule[t], D[t]>> /\ rule[t][f] # Unset  BY <1>8, <2>5
    <3>2. D[t] = m /\ x[1] = rule[t]  BY <2>5, <3>1
    <3>3. PICK p \in P : p[1] = t /\ p[2] = m  BY <1>4, <3>2
    <3>4. p \in Speaking(P, f)  BY <3>1, <3>3 DEF Speaking
    <3>5. ASSUME NEW q \in Speaking(P, f) PROVE m <= q[2]
      <4>1. q \in P /\ q[1] \in T /\ rule[q[1]][f] # Unset /\ q[2] \in Nat  BY <1>3 DEF Speaking
      <4>2. m <= D[q[1]] /\ D[q[1]] <= q[2] /\ D[q[1]] \in Nat  BY <1>4, <2>8, <4>1
      <4>. QED  BY <2>4, <4>1, <4>2
    <3>6. p \in Closest(P, f)  BY <3>3, <3>4, <3>5 DEF Closest
    <3>. QED  BY <3>2, <3>3, <3>6
  <2>10. ASSUME NEW p \in Closest(P, f) PROVE \E x \in N : x[1][f] = rule[p[1]][f]
    <3>1. p \in P /\ p[1] \in T /\ p[2] \in Nat /\ rule[p[1]][f] # Unset /\ p \in Speaking(P, f)
      BY <1>3 DEF Closest, Speaking
    <3>2. PICK y \in S : y[2] = m  BY <2>1, <2>4
    <3>3. PICK t \in T : y = <<rule[t], D[t]>> /\ rule[t][f] # Unset  BY <1>8, <3>2
    <3>4. D[t] = m  BY <3>2, <3>3
    <3>5. PICK q \in P : q[1] = t /\ q[2] = m  BY <1>4, <3>4
    <3>6. q \in Speaking(P, f)  BY <3>3, <3>5 DEF Speaking
    <3>7. p[2] <= m  BY <3>5, <3>6 DEF Closest
    <3>8. D[p[1]] \in Nat /\ D[p[1]] <= p[2] /\ m <= D[p[1]]  BY <1>4, <2>8, <3>1
    <3>9. D[p[1]] = m  BY <2>4, <3>1, <3>7, <3>8
    <3>10. PICK x : x = <<rule[p[1]], m>>  OBVIOUS
    <3>11. x \in N /\ x[1] = rule[p[1]]  BY <1>8, <2>5, <3>1, <3>9, <3>10
    <3>. QED  BY <3>11
  <2>11. Speaking(P, f) # {}
    <3>1. \E p \in Closest(P, f) : TRUE  BY <2>6, <2>9
    <3>. QED  BY <3>1 DEF Closest
  <2>. QED  BY <1>6, <2>7, <2>9, <2>10, <2>11 DEF Decision
<1>. QED  BY <1>10, <1>11

\* A layer without distances.
LEMMA FlatLayerDecides ==
  ASSUME NEW T, NEW f
  PROVE  Evaluate(Explicit({<<rule[t], 0>> : t \in T}, f), f) = Decision({<<t, 0>> : t \in T}, f)
<1>1. PICK L : L = {<<rule[t], 0>> : t \in T}  OBVIOUS
<1>2. PICK P : P = {<<t, 0>> : t \in T}  OBVIOUS
<1>3. PICK S : S = Explicit(L, f)  OBVIOUS
<1>4. \A x \in S : \E t \in T : x[1] = rule[t] /\ rule[t][f] # Unset  BY <1>1, <1>3 DEF Explicit
<1>5. \A t \in T : rule[t][f] # Unset => \E x \in S : x[1] = rule[t]
  <2>1. TAKE t \in T
  <2>2. HAVE rule[t][f] # Unset
  <2>3. PICK x : x = <<rule[t], 0>>  OBVIOUS
  <2>4. x \in L /\ x[1] = rule[t]  BY <1>1, <2>3
  <2>. QED  BY <1>3, <2>2, <2>4 DEF Explicit
<1>6. \A p \in Speaking(P, f) : p[2] = 0 /\ p[1] \in T /\ rule[p[1]][f] # Unset  BY <1>2 DEF Speaking
<1>7. \A t \in T : rule[t][f] # Unset => \E p \in Speaking(P, f) : p[1] = t
  <2>1. TAKE t \in T
  <2>2. HAVE rule[t][f] # Unset
  <2>3. PICK p : p = <<t, 0>>  OBVIOUS
  <2>4. p \in P /\ p[1] = t  BY <1>2, <2>3
  <2>. QED  BY <2>2, <2>4 DEF Speaking
<1>8. Closest(P, f) = Speaking(P, f)  BY <1>6 DEF Closest
<1>9. S = {} <=> Speaking(P, f) = {}  BY <1>4, <1>5, <1>6, <1>7
<1>10. (\E x \in S : x[1][f] = "no") <=> \E p \in Speaking(P, f) : rule[p[1]][f] = "no"
  BY <1>4, <1>5, <1>6, <1>7
<1>11. Evaluate(S, f) = Decision(P, f)  BY <1>8, <1>9, <1>10 DEF Evaluate, Decision
<1>. QED  BY <1>1, <1>2, <1>3, <1>11

NumberOfJobs == Cardinality(JobRoles)

\* The chain of a role has roles and distances.
LEMMA ChainsAreNumbered ==
  ASSUME NEW r \in JobRoles
  PROVE  RoleChain[r] \subseteq JobRoles \X Nat
<1>1. PICK N \in Nat : N = Cardinality(JobRoles)  BY ServicesAssumption, FS_CardinalityType
<1>2. PICK A : A = JobRoles \cup {NoDept}  OBVIOUS
<1>3. PICK step : step = [x \in A \X (1..N) |-> IF x[1] = NoDept THEN NoDept ELSE JobParent[x[1]]]
  OBVIOUS
<1>4. \A j \in A, i \in 1..N : step[<<j, i>>] = IF j = NoDept THEN NoDept ELSE JobParent[j]
  BY <1>3
<1>5. step \in [A \X (1..N) -> A]
  <2>1. \A x \in A \X (1..N) : (IF x[1] = NoDept THEN NoDept ELSE JobParent[x[1]]) \in A
    BY <1>2, ServicesAssumption
  <2>. QED  BY <1>3, <2>1
<1>6. r \in A  BY <1>2
<1>7. PICK f \in [0..N -> A] : RunsTo(f, N, r, step)  BY <1>5, <1>6, RunExists
<1>8. \A i \in 1..N : i - 1 \in 0..N /\ i \in 0..N /\ i # 0  BY <1>1
<1>9. \A i \in 1..N : f[i] = IF f[i - 1] = NoDept THEN NoDept ELSE JobParent[f[i - 1]]
  BY <1>4, <1>7, <1>8 DEF RunsTo
<1>10. f = [i \in 0..N |-> IF i = 0 THEN r ELSE IF f[i - 1] = NoDept THEN NoDept ELSE JobParent[f[i - 1]]]
  <2>1. \A i \in 0..N : i = 0 \/ i \in 1..N  BY <1>1
  <2>. QED  BY <1>7, <1>9, <2>1 DEF RunsTo
<1>11. PICK up : up = Generations(r)  OBVIOUS
<1>12. up = [i \in 0..N |-> IF i = 0 THEN r ELSE IF up[i - 1] = NoDept THEN NoDept ELSE JobParent[up[i - 1]]]
  BY <1>1, <1>10, <1>11 DEF Generations
<1>13. up[0] = r /\ \A i \in 1..N : up[i] = IF up[i - 1] = NoDept THEN NoDept ELSE JobParent[up[i - 1]]
  <2>1. up[0] = r  BY <1>1, <1>12
  <2>2. ASSUME NEW i \in 1..N
        PROVE  up[i] = IF up[i - 1] = NoDept THEN NoDept ELSE JobParent[up[i - 1]]
    <3>1. i \in 0..N /\ i # 0  BY <1>8
    <3>2. up[i] = IF i = 0 THEN r ELSE IF up[i - 1] = NoDept THEN NoDept ELSE JobParent[up[i - 1]]
      BY <1>12, <3>1, Zenon
    <3>. QED  BY <3>1, <3>2, Zenon
  <2>. QED  BY <2>1, <2>2
<1>14. \A i \in 0..N : up[i] \in A
  <2>1. PICK T : T = {i \in 0..N : up[i] \notin A}  OBVIOUS
  <2>2. SUFFICES ASSUME T # {} PROVE FALSE  BY <2>1
  <2>3. T \subseteq Nat  BY <2>1
  <2>4. PICK n \in T : \A m \in T : n <= m  BY <2>2, <2>3, SmallestIn
  <2>5. n \in 0..N /\ up[n] \notin A  BY <2>1, <2>4
  <2>6. n # 0  BY <1>6, <1>13, <2>5
  <2>7. n \in 1..N /\ n - 1 \in 0..N /\ n - 1 < n  BY <2>5, <2>6
  <2>8. up[n - 1] \in A  BY <2>1, <2>3, <2>4, <2>7
  <2>. QED  BY <1>2, <1>13, <2>5, <2>7, <2>8, ServicesAssumption
<1>15. ASSUME NEW x \in RoleChain[r] PROVE \E n \in 0..N : x = <<up[n], n>> /\ up[n] # NoDept
  <2>1. DOMAIN up = 0..N  BY <1>12
  <2>2. RoleChain[r] = {<<up[n], n>> : n \in {k \in DOMAIN up : up[k] # NoDept /\ \A j \in 0..(k - 1) : up[j] # up[k]}}
    BY <1>11 DEF RoleChain
  <2>. QED  BY <2>1, <2>2
<1>16. ASSUME NEW x \in RoleChain[r] PROVE x \in JobRoles \X Nat
  <2>1. PICK n \in 0..N : x = <<up[n], n>> /\ up[n] # NoDept  BY <1>15
  <2>2. up[n] \in JobRoles /\ n \in Nat  BY <1>2, <1>14, <2>1
  <2>. QED  BY <2>1, <2>2
<1>. QED  BY <1>16

PersonOK ==
  /\ person.role \in JobRoles /\ ActiveDept \in Depts \cup {NoDept}
  /\ person.managed \subseteq Depts \X JobRoles
RulesOK == rule \in [Targets -> Flags]

\* The layers as rules with their distances.
OfUser == {<<t, 0>> : t \in {<<"user">>}}
OfDepts == {<<t, 0>> : t \in {<<"dept", d>> : d \in EffectiveDepts}}
OfRoles == {<<<<"role", a.role>>, a.distance>> : a \in Assignments}
OfDeptRoles ==
  {<<<<"deptRole", x[1], x[2].role>>, x[2].distance>> :
     x \in {y \in EffectiveDepts \X Assignments : y[2] \in Matching(y[1], y[2].role)}}

LEMMA AssignmentsAre ==
  ASSUME PersonOK
  PROVE  /\ EffectiveDepts \subseteq Depts
         /\ \A a \in Assignments : a.role \in JobRoles /\ a.distance \in Nat
         /\ \A r, n : (\E a \in Assignments : a.role = r /\ a.distance = n) <=>
                        \/ <<r, n>> \in RoleChain[person.role]
                        \/ \E d \in EffectiveDepts : <<r, n>> \in OwnRoles(d)
         /\ \A d \in EffectiveDepts : \A r, n :
              (\E a \in Matching(d, r) : a.distance = n) <=> <<r, n>> \in OwnRoles(d)
<1>1. PICK own : own = RoleChain[person.role]  OBVIOUS
<1>2. own \subseteq JobRoles \X Nat  BY <1>1, ChainsAreNumbered DEF PersonOK
<1>3. \A m \in person.managed : m[1] \in Depts /\ m[2] \in JobRoles /\ RoleChain[m[2]] \subseteq JobRoles \X Nat
  BY ChainsAreNumbered DEF PersonOK
<1>4. NoDept \notin Depts  BY ServicesAssumption
<1>5. EffectiveDepts \subseteq Depts  BY <1>3 DEF EffectiveDepts, PersonOK
<1>6. \A m : m \in RelevantManaged <=> m \in person.managed /\ m[1] \in EffectiveDepts
  BY DEF RelevantManaged, EffectiveDepts
<1>7. \A a : a \in Assignments <=>
        \/ \E x \in own : a = [role |-> x[1], distance |-> x[2], dept |-> NoDept]
        \/ \E m \in RelevantManaged : \E x \in RoleChain[m[2]] :
             a = [role |-> x[1], distance |-> x[2], dept |-> m[1]]
  BY <1>1 DEF Assignments
<1>8. ASSUME NEW a \in Assignments
      PROVE  \/ a.dept = NoDept /\ <<a.role, a.distance>> \in own
             \/ \E m \in RelevantManaged : a.dept = m[1] /\ <<a.role, a.distance>> \in RoleChain[m[2]]
  <2>1. CASE \E x \in own : a = [role |-> x[1], distance |-> x[2], dept |-> NoDept]
    BY <1>2, <2>1
  <2>2. CASE \E m \in RelevantManaged : \E x \in RoleChain[m[2]] :
               a = [role |-> x[1], distance |-> x[2], dept |-> m[1]]
    BY <1>3, <1>6, <2>2
  <2>. QED  BY <1>7, <2>1, <2>2
<1>9. ASSUME NEW r, NEW n, <<r, n>> \in own
      PROVE  \E a \in Assignments : a.role = r /\ a.distance = n /\ a.dept = NoDept
  <2>1. PICK a : a = [role |-> r, distance |-> n, dept |-> NoDept]  OBVIOUS
  <2>2. PICK x \in own : x[1] = r /\ x[2] = n  BY <1>9
  <2>3. a \in Assignments  BY <1>7, <2>1, <2>2
  <2>. QED  BY <2>1, <2>3
<1>10. ASSUME NEW m \in RelevantManaged, NEW r, NEW n, <<r, n>> \in RoleChain[m[2]]
       PROVE  \E a \in Assignments : a.role = r /\ a.distance = n /\ a.dept = m[1]
  <2>1. PICK a : a = [role |-> r, distance |-> n, dept |-> m[1]]  OBVIOUS
  <2>2. PICK x \in RoleChain[m[2]] : x[1] = r /\ x[2] = n  BY <1>10
  <2>3. a \in Assignments  BY <1>7, <2>1, <2>2
  <2>. QED  BY <2>1, <2>3
<1>11. \A d, r, n : <<r, n>> \in OwnRoles(d) <=>
         <<r, n>> \in own \/ \E m \in person.managed : m[1] = d /\ <<r, n>> \in RoleChain[m[2]]
  <2>1. TAKE d, r, n
  <2>2. \A y : y \in OwnRoles(d) <=>
          y \in own \/ \E m \in person.managed : m[1] = d /\ y \in RoleChain[m[2]]
    <3>1. \A y \in own \cup UNION {RoleChain[m[2]] : m \in {k \in person.managed : k[1] = d}} :
            y = <<y[1], y[2]>>
      BY <1>2, <1>3
    <3>2. OwnRoles(d) = own \cup UNION {RoleChain[m[2]] : m \in {k \in person.managed : k[1] = d}}
      BY <1>1, <3>1 DEF OwnRoles
    <3>. QED  BY <3>2
  <2>. QED  BY <2>2
<1>12. \A d \in EffectiveDepts : \A a :
         a \in Matching(d, a.role) <=> a \in Assignments /\ (a.dept = NoDept \/ a.dept = d)
  BY DEF Matching
<1>13. ASSUME NEW r, NEW n
       PROVE  (\E a \in Assignments : a.role = r /\ a.distance = n) <=>
                \/ <<r, n>> \in RoleChain[person.role]
                \/ \E d \in EffectiveDepts : <<r, n>> \in OwnRoles(d)
  BY <1>1, <1>6, <1>8, <1>9, <1>10, <1>11
<1>14. ASSUME NEW d \in EffectiveDepts, NEW r, NEW n
       PROVE  (\E a \in Matching(d, r) : a.distance = n) <=> <<r, n>> \in OwnRoles(d)
  <2>1. ASSUME NEW a \in Matching(d, r), a.distance = n PROVE <<r, n>> \in OwnRoles(d)
    <3>1. a \in Assignments /\ a.role = r /\ (a.dept = NoDept \/ a.dept = d)
      BY <1>4, <1>5 DEF Matching
    <3>. QED  BY <1>3, <1>4, <1>5, <1>6, <1>8, <1>11, <2>1, <3>1
  <2>2. ASSUME <<r, n>> \in OwnRoles(d) PROVE \E a \in Matching(d, r) : a.distance = n
    <3>1. CASE <<r, n>> \in own  BY <1>9, <3>1 DEF Matching
    <3>2. CASE \E m \in person.managed : m[1] = d /\ <<r, n>> \in RoleChain[m[2]]
      <4>1. PICK m \in RelevantManaged : m[1] = d /\ <<r, n>> \in RoleChain[m[2]]  BY <1>6, <3>2
      <4>2. PICK a \in Assignments : a.role = r /\ a.distance = n /\ a.dept = d  BY <1>10, <4>1
      <4>3. a.dept # NoDept  BY <1>4, <1>5, <4>2
      <4>. QED  BY <4>2, <4>3 DEF Matching
    <3>. QED  BY <1>11, <2>2, <3>1, <3>2
  <2>. QED  BY <2>1, <2>2
<1>15. \A a \in Assignments : a.role \in JobRoles /\ a.distance \in Nat
  <2>1. TAKE a \in Assignments
  <2>2. PICK x : x = <<a.role, a.distance>>  OBVIOUS
  <2>3. x \in JobRoles \X Nat  BY <1>2, <1>3, <1>6, <1>8, <2>2
  <2>. QED  BY <2>2, <2>3
<1>. QED  BY <1>5, <1>13, <1>14, <1>15

Describes(P, K, target, away) ==
  /\ \A p \in P : \E k \in K : p[1] = target[k]
  /\ \A k \in K : \E p \in P : p[1] = target[k]
  /\ \A k \in K : DistancesOf(P, target[k]) = away[k]

LEMMA DescribedLayer ==
  ASSUME NEW P, NEW K, NEW target, NEW away, Describes(P, K, target, away)
  PROVE  \A x : x \in LayerOf(P) <=> \E k \in K : x = <<rule[target[k]], Nearest(away[k])>>
BY DEF LayerOf, Describes

\* The targets of the layers, and what the layers are.
LEMMA LayersAre ==
  ASSUME PersonOK
  PROVE  /\ OfDeptRoles \subseteq Targets \X Nat /\ OfRoles \subseteq Targets \X Nat
         /\ OfUser \subseteq Targets \X Nat /\ OfDepts \subseteq Targets \X Nat
         /\ RoleLayer = LayerOf(OfRoles) /\ DeptRoleLayer = LayerOf(OfDeptRoles)
<1>1. EffectiveDepts \subseteq Depts /\ \A a \in Assignments : a.role \in JobRoles /\ a.distance \in Nat
  BY AssignmentsAre
<1>2. OfRoles \subseteq Targets \X Nat
  <2>1. \A a \in Assignments : <<"role", a.role>> \in Targets  BY <1>1 DEF Targets
  <2>. QED  BY <1>1, <2>1 DEF OfRoles
<1>3. OfDeptRoles \subseteq Targets \X Nat
  <2>1. \A d \in EffectiveDepts, a \in Assignments : <<"deptRole", d, a.role>> \in Targets
    BY <1>1 DEF Targets
  <2>2. \A y \in EffectiveDepts \X Assignments : y[1] \in EffectiveDepts /\ y[2] \in Assignments
    OBVIOUS
  <2>. QED  BY <1>1, <2>1, <2>2 DEF OfDeptRoles
<1>4. OfUser \subseteq Targets \X Nat
  <2>1. <<"user">> \in Targets  BY DEF Targets
  <2>. QED  BY <2>1 DEF OfUser
<1>5. OfDepts \subseteq Targets \X Nat
  <2>1. \A d \in EffectiveDepts : <<"dept", d>> \in Targets  BY <1>1 DEF Targets
  <2>. QED  BY <2>1 DEF OfDepts
<1>6. RoleLayer = LayerOf(OfRoles)
  <2>1. PICK K : K = {a.role : a \in Assignments}  OBVIOUS
  <2>2. PICK target : target = [r \in K |-> <<"role", r>>]  OBVIOUS
  <2>3. PICK away : away = [r \in K |-> {a.distance : a \in {b \in Assignments : b.role = r}}]  OBVIOUS
  <2>4. \A r \in K : target[r][2] = r  BY <2>2
  <2>5. OfRoles = {<<target[a.role], a.distance>> : a \in Assignments}  BY <2>1, <2>2 DEF OfRoles
  <2>6. \A p \in OfRoles : \E a \in Assignments : p[1] = target[a.role] /\ p[2] = a.distance
    BY <2>5
  <2>7. ASSUME NEW a \in Assignments
        PROVE  \E p \in OfRoles : p[1] = target[a.role] /\ p[2] = a.distance
    <3>1. PICK p : p = <<target[a.role], a.distance>>  OBVIOUS
    <3>2. p \in OfRoles  BY <2>5, <3>1
    <3>. QED  BY <3>1, <3>2
  <2>8. /\ \A p \in OfRoles : \E r \in K : p[1] = target[r]
        /\ \A r \in K : \E p \in OfRoles : p[1] = target[r]
    BY <2>1, <2>6, <2>7
  <2>9. ASSUME NEW r \in K PROVE DistancesOf(OfRoles, target[r]) = away[r]
    <3>1. away[r] = {a.distance : a \in {b \in Assignments : b.role = r}}  BY <2>3
    <3>2. \A n \in away[r] : \E p \in OfRoles : p[1] = target[r] /\ p[2] = n  BY <2>7, <3>1
    <3>3. ASSUME NEW p \in OfRoles, p[1] = target[r] PROVE p[2] \in away[r]
      <4>1. PICK a \in Assignments : p[1] = target[a.role] /\ p[2] = a.distance  BY <2>6
      <4>2. a.role \in K /\ a.role = r  BY <2>1, <2>4, <3>3, <4>1
      <4>. QED  BY <3>1, <4>1, <4>2
    <3>. QED  BY <3>2, <3>3 DEF DistancesOf
  <2>10. \A x : x \in LayerOf(OfRoles) <=> \E r \in K : x = <<rule[target[r]], Nearest(away[r])>>
    <3>1. Describes(OfRoles, K, target, away)  BY <2>8, <2>9 DEF Describes
    <3>. QED  BY <3>1, DescribedLayer
  <2>11. \A x : x \in RoleLayer <=> \E r \in K : x = <<rule[target[r]], Nearest(away[r])>>
    <3>1. PICK n : n = [r \in K |-> Nearest({a.distance : a \in {b \in Assignments : b.role = r}})]
      OBVIOUS
    <3>2. RoleLayer = {<<rule[<<"role", r>>], n[r]>> : r \in K}
      BY <2>1, <3>1 DEF RoleLayer
    <3>3. \A r \in K : target[r] = <<"role", r>> /\ n[r] = Nearest(away[r])  BY <2>2, <2>3, <3>1
    <3>. QED  BY <3>2, <3>3
  <2>. QED  BY <2>10, <2>11
<1>7. DeptRoleLayer = LayerOf(OfDeptRoles)
  <2>1. PICK K : K = {y \in EffectiveDepts \X JobRoles : Matching(y[1], y[2]) # {}}  OBVIOUS
  <2>2. PICK target : target = [x \in K |-> <<"deptRole", x[1], x[2]>>]  OBVIOUS
  <2>3. PICK away : away = [x \in K |-> {a.distance : a \in Matching(x[1], x[2])}]  OBVIOUS
  <2>4. \A x \in K : target[x][2] = x[1] /\ target[x][3] = x[2] /\ x = <<x[1], x[2]>>  BY <2>1, <2>2
  <2>5. ASSUME NEW p \in OfDeptRoles
        PROVE  \E x \in K : \E a \in Matching(x[1], x[2]) : p[1] = target[x] /\ p[2] = a.distance
    <3>1. PICK d \in EffectiveDepts, a \in Assignments :
            p = <<<<"deptRole", d, a.role>>, a.distance>> /\ a \in Matching(d, a.role)
      BY DEF OfDeptRoles
    <3>2. PICK x : x = <<d, a.role>>  OBVIOUS
    <3>3. x \in K /\ x[1] = d /\ x[2] = a.role  BY <1>1, <2>1, <3>1, <3>2
    <3>4. target[x] = <<"deptRole", d, a.role>>  BY <2>2, <3>3
    <3>. QED  BY <3>1, <3>3, <3>4
  <2>6. ASSUME NEW x \in K, NEW a \in Matching(x[1], x[2])
        PROVE  \E p \in OfDeptRoles : p[1] = target[x] /\ p[2] = a.distance
    <3>1. a \in Assignments /\ a.role = x[2] /\ x[1] \in EffectiveDepts  BY <2>1 DEF Matching
    <3>2. PICK y : y = <<x[1], a>>  OBVIOUS
    <3>3. y \in EffectiveDepts \X Assignments /\ y[2] \in Matching(y[1], y[2].role)
      BY <3>1, <3>2
    <3>4. PICK p : p = <<<<"deptRole", y[1], y[2].role>>, y[2].distance>>  OBVIOUS
    <3>5. p \in OfDeptRoles  BY <3>3, <3>4 DEF OfDeptRoles
    <3>6. p[1] = target[x] /\ p[2] = a.distance  BY <2>2, <3>1, <3>2, <3>4
    <3>. QED  BY <3>5, <3>6
  <2>7. /\ \A p \in OfDeptRoles : \E x \in K : p[1] = target[x]
        /\ \A x \in K : \E p \in OfDeptRoles : p[1] = target[x]
    <3>1. ASSUME NEW p \in OfDeptRoles PROVE \E x \in K : p[1] = target[x]  BY <2>5
    <3>2. ASSUME NEW x \in K PROVE \E p \in OfDeptRoles : p[1] = target[x]
      <4>1. PICK a \in Matching(x[1], x[2]) : TRUE  BY <2>1
      <4>. QED  BY <2>6, <4>1
    <3>. QED  BY <3>1, <3>2
  <2>8. ASSUME NEW x \in K PROVE DistancesOf(OfDeptRoles, target[x]) = away[x]
    <3>1. away[x] = {a.distance : a \in Matching(x[1], x[2])}  BY <2>3
    <3>2. \A n \in away[x] : \E p \in OfDeptRoles : p[1] = target[x] /\ p[2] = n  BY <2>6, <3>1
    <3>3. ASSUME NEW p \in OfDeptRoles, p[1] = target[x] PROVE p[2] \in away[x]
      <4>1. PICK y \in K : \E a \in Matching(y[1], y[2]) : p[1] = target[y] /\ p[2] = a.distance
        BY <2>5
      <4>2. y = x
        <5>1. target[y] = target[x]  BY <3>3, <4>1
        <5>2. y[1] = x[1] /\ y[2] = x[2]  BY <2>4, <5>1
        <5>. QED  BY <2>4, <5>2, Zenon
      <4>. QED  BY <3>1, <4>1, <4>2
    <3>. QED  BY <3>2, <3>3 DEF DistancesOf
  <2>9. \A y : y \in LayerOf(OfDeptRoles) <=> \E x \in K : y = <<rule[target[x]], Nearest(away[x])>>
    <3>1. Describes(OfDeptRoles, K, target, away)  BY <2>7, <2>8 DEF Describes
    <3>. QED  BY <3>1, DescribedLayer
  <2>10. \A y : y \in DeptRoleLayer <=> \E x \in K : y = <<rule[target[x]], Nearest(away[x])>>
    <3>1. PICK n : n = [x \in K |-> Nearest({a.distance : a \in Matching(x[1], x[2])})]  OBVIOUS
    <3>2. DeptRoleLayer = {<<rule[<<"deptRole", x[1], x[2]>>], n[x]>> : x \in K}
      BY <2>1, <3>1 DEF DeptRoleLayer
    <3>3. \A x \in K : target[x] = <<"deptRole", x[1], x[2]>> /\ n[x] = Nearest(away[x])
      BY <2>2, <2>3, <3>1
    <3>. QED  BY <3>2, <3>3
  <2>. QED  BY <2>9, <2>10
<1>. QED  BY <1>2, <1>3, <1>4, <1>5, <1>6, <1>7

\* The ranking of the property lists the layers in turn.
Layers == <<OfUser, OfDeptRoles, OfDepts, OfRoles>>
Places(x, i, p) == x[1] = i /\ x[2] = p[2] /\ x[3] = p[1]

UserRanks == {<<1, 0, <<"user">>>>}
DeptRoleRanks ==
  UNION {{<<2, x[2], <<"deptRole", d, x[1]>>>> : x \in OwnRoles(d)} : d \in EffectiveDepts}
DeptRanks == {<<3, 0, <<"dept", d>>>> : d \in EffectiveDepts}
RoleRanks ==
  {<<4, x[2], <<"role", x[1]>>>> : x \in RoleChain[person.role] \cup UNION {OwnRoles(d) : d \in EffectiveDepts}}

LEMMA RankedIs ==
  ASSUME PersonOK
  PROVE  /\ \A x \in Ranked : \E i \in 1..4 : \E p \in Layers[i] : Places(x, i, p)
         /\ \A i \in 1..4 : \A p \in Layers[i] : \E x \in Ranked : Places(x, i, p)
<1>1. /\ \A r, n : (\E a \in Assignments : a.role = r /\ a.distance = n) <=>
                        \/ <<r, n>> \in RoleChain[person.role]
                        \/ \E d \in EffectiveDepts : <<r, n>> \in OwnRoles(d)
      /\ \A d \in EffectiveDepts : \A r, n :
              (\E a \in Matching(d, r) : a.distance = n) <=> <<r, n>> \in OwnRoles(d)
  BY AssignmentsAre
<1>2. \A d : \A y \in OwnRoles(d) : y = <<y[1], y[2]>>  BY DEF OwnRoles
<1>3. \A y \in RoleChain[person.role] : y = <<y[1], y[2]>>
  BY ChainsAreNumbered DEF PersonOK
<1>4. PICK first : first = UserRanks  OBVIOUS
<1>5. PICK second : second = DeptRoleRanks  OBVIOUS
<1>6. PICK third : third = DeptRanks  OBVIOUS
<1>7. PICK fourth : fourth = RoleRanks  OBVIOUS
<1>8. Ranked = first \cup second \cup third \cup fourth
  <2>1. Ranked = UserRanks \cup DeptRoleRanks \cup DeptRanks \cup RoleRanks
    BY Zenon DEF Ranked, UserRanks, DeptRoleRanks, DeptRanks, RoleRanks
  <2>. QED  BY <1>4, <1>5, <1>6, <1>7, <2>1
<1>9. /\ Layers[1] = OfUser /\ Layers[2] = OfDeptRoles /\ Layers[3] = OfDepts /\ Layers[4] = OfRoles
  BY DEF Layers
<1>10. /\ \A x \in first : \E p \in OfUser : Places(x, 1, p)
       /\ \A p \in OfUser : \E x \in first : Places(x, 1, p)
  <2>1. PICK p : p = <<<<"user">>, 0>>  OBVIOUS
  <2>2. PICK x : x = <<1, 0, <<"user">>>>  OBVIOUS
  <2>3. OfUser = {p}  BY <2>1 DEF OfUser
  <2>4. first = {x}  BY <1>4, <2>2 DEF UserRanks
  <2>5. Places(x, 1, p)  BY <2>1, <2>2 DEF Places
  <2>. QED  BY <2>3, <2>4, <2>5
<1>11. ASSUME NEW x \in second PROVE \E p \in OfDeptRoles : Places(x, 2, p)
  <2>1. PICK d \in EffectiveDepts : \E y \in OwnRoles(d) : x = <<2, y[2], <<"deptRole", d, y[1]>>>>
    BY <1>5 DEF DeptRoleRanks
  <2>2. PICK y \in OwnRoles(d) : x = <<2, y[2], <<"deptRole", d, y[1]>>>>  BY <2>1
  <2>3. <<y[1], y[2]>> \in OwnRoles(d)  BY <1>2
  <2>4. PICK a \in Matching(d, y[1]) : a.distance = y[2]  BY <1>1, <2>3
  <2>5. a \in Assignments /\ a.role = y[1]  BY DEF Matching
  <2>6. PICK z : z = <<d, a>>  OBVIOUS
  <2>7. z \in EffectiveDepts \X Assignments /\ z[2] \in Matching(z[1], z[2].role)
    BY <2>4, <2>5, <2>6
  <2>8. PICK p : p = <<<<"deptRole", z[1], z[2].role>>, z[2].distance>>  OBVIOUS
  <2>9. p \in OfDeptRoles  BY <2>7, <2>8 DEF OfDeptRoles
  <2>10. Places(x, 2, p)  BY <2>2, <2>4, <2>5, <2>6, <2>8 DEF Places
  <2>. QED  BY <2>9, <2>10
<1>12. ASSUME NEW p \in OfDeptRoles PROVE \E x \in second : Places(x, 2, p)
  <2>1. PICK d \in EffectiveDepts, a \in Assignments :
          p = <<<<"deptRole", d, a.role>>, a.distance>> /\ a \in Matching(d, a.role)
    BY DEF OfDeptRoles
  <2>2. PICK y : y = <<a.role, a.distance>>  OBVIOUS
  <2>3. y \in OwnRoles(d)  BY <1>1, <2>1, <2>2
  <2>4. PICK x : x = <<2, y[2], <<"deptRole", d, y[1]>>>>  OBVIOUS
  <2>5. x \in second  BY <1>5, <2>3, <2>4 DEF DeptRoleRanks
  <2>6. Places(x, 2, p)  BY <2>1, <2>2, <2>4 DEF Places
  <2>. QED  BY <2>5, <2>6
<1>13. ASSUME NEW x \in third PROVE \E p \in OfDepts : Places(x, 3, p)
  <2>1. PICK d \in EffectiveDepts : x = <<3, 0, <<"dept", d>>>>  BY <1>6 DEF DeptRanks
  <2>2. PICK p : p = <<<<"dept", d>>, 0>>  OBVIOUS
  <2>3. p \in OfDepts  BY <2>2 DEF OfDepts
  <2>. QED  BY <2>1, <2>2, <2>3 DEF Places
<1>14. ASSUME NEW p \in OfDepts PROVE \E x \in third : Places(x, 3, p)
  <2>1. PICK d \in EffectiveDepts : p = <<<<"dept", d>>, 0>>  BY DEF OfDepts
  <2>2. PICK x : x = <<3, 0, <<"dept", d>>>>  OBVIOUS
  <2>3. x \in third  BY <1>6, <2>2 DEF DeptRanks
  <2>. QED  BY <2>1, <2>2, <2>3 DEF Places
<1>15. ASSUME NEW x \in fourth PROVE \E p \in OfRoles : Places(x, 4, p)
  <2>1. PICK y \in RoleChain[person.role] \cup UNION {OwnRoles(d) : d \in EffectiveDepts} :
          x = <<4, y[2], <<"role", y[1]>>>>
    BY <1>7 DEF RoleRanks
  <2>2. y = <<y[1], y[2]>>  BY <1>2, <1>3
  <2>3. PICK a \in Assignments : a.role = y[1] /\ a.distance = y[2]  BY <1>1, <2>2
  <2>4. PICK p : p = <<<<"role", a.role>>, a.distance>>  OBVIOUS
  <2>5. p \in OfRoles  BY <2>4 DEF OfRoles
  <2>. QED  BY <2>1, <2>3, <2>4, <2>5 DEF Places
<1>16. ASSUME NEW p \in OfRoles PROVE \E x \in fourth : Places(x, 4, p)
  <2>1. PICK a \in Assignments : p = <<<<"role", a.role>>, a.distance>>  BY DEF OfRoles
  <2>2. PICK y : y = <<a.role, a.distance>>  OBVIOUS
  <2>3. y \in RoleChain[person.role] \cup UNION {OwnRoles(d) : d \in EffectiveDepts}
    BY <1>1, <2>2
  <2>4. PICK x : x = <<4, y[2], <<"role", y[1]>>>>  OBVIOUS
  <2>5. x \in fourth  BY <1>7, <2>3, <2>4 DEF RoleRanks
  <2>. QED  BY <2>1, <2>2, <2>4, <2>5 DEF Places
<1>17. \A i \in 1..4 : i = 1 \/ i = 2 \/ i = 3 \/ i = 4  OBVIOUS
<1>. QED  BY <1>8, <1>9, <1>10, <1>11, <1>12, <1>13, <1>14, <1>15, <1>16, <1>17

LEMMA FieldIsDecided ==
  ASSUME PersonOK, RulesOK, NEW f \in RuleFields
  PROVE  ResolveFinalField(f) <=> Decided(f)
<1>1. PICK says :
        says = <<Evaluate(Explicit(UserLayer, f), f), EvaluateNearest(DeptRoleLayer, f),
                 Evaluate(Explicit(DeptLayer, f), f), EvaluateNearest(RoleLayer, f)>>
  OBVIOUS
<1>2. \A i \in 1..4 : Layers[i] \subseteq Targets \X Nat
  BY LayersAre DEF Layers
<1>3. \A i \in 1..4 : says[i] = Decision(Layers[i], f)
  <2>1. EvaluateNearest(RoleLayer, f) = Decision(OfRoles, f)  BY LayersAre, LayerDecides
  <2>2. EvaluateNearest(DeptRoleLayer, f) = Decision(OfDeptRoles, f)  BY LayersAre, LayerDecides
  <2>3. Evaluate(Explicit(UserLayer, f), f) = Decision(OfUser, f)
    <3>1. UserLayer = {<<rule[t], 0>> : t \in {<<"user">>}}  BY DEF UserLayer
    <3>. QED  BY <3>1, FlatLayerDecides DEF OfUser
  <2>4. Evaluate(Explicit(DeptLayer, f), f) = Decision(OfDepts, f)
    <3>1. PICK T : T = {<<"dept", d>> : d \in EffectiveDepts}  OBVIOUS
    <3>2. DeptLayer = {<<rule[t], 0>> : t \in T}  BY <3>1 DEF DeptLayer
    <3>3. OfDepts = {<<t, 0>> : t \in T}  BY <3>1 DEF OfDepts
    <3>. QED  BY <3>2, <3>3, FlatLayerDecides
  <2>5. \A i \in 1..4 : i = 1 \/ i = 2 \/ i = 3 \/ i = 4  OBVIOUS
  <2>. QED  BY <1>1, <2>1, <2>2, <2>3, <2>4, <2>5 DEF Layers
<1>4. \A i \in 1..4 : says[i] # Unset <=> Speaking(Layers[i], f) # {}
  BY <1>3 DEF Decision, Unset
<1>5. \A i \in 1..4 : \A p \in Speaking(Layers[i], f) :
        p \in Layers[i] /\ p[2] \in Nat /\ rule[p[1]][f] \in {"yes", "no"}
  <2>1. TAKE i \in 1..4
  <2>2. TAKE p \in Speaking(Layers[i], f)
  <2>3. p \in Layers[i] /\ rule[p[1]][f] # Unset  BY DEF Speaking
  <2>4. p[1] \in Targets /\ p[2] \in Nat  BY <1>2, <2>3
  <2>5. rule[p[1]] \in Flags  BY <2>4 DEF RulesOK
  <2>. QED  BY <2>3, <2>4, <2>5 DEF Flags
<1>6. \A x \in Said(f) : \E i \in 1..4 : \E p \in Speaking(Layers[i], f) : Places(x, i, p)
  BY RankedIs DEF Said, Speaking, Places
<1>7. \A i \in 1..4 : \A p \in Speaking(Layers[i], f) : \E x \in Said(f) : Places(x, i, p)
  BY RankedIs DEF Said, Speaking, Places
<1>8. PICK first : first = {i \in 1..4 : says[i] # Unset}  OBVIOUS
<1>9. ResolveFinalField(f) = IF first = {} THEN service.active /\ service[f] ELSE says[Nearest(first)] = "yes"
  BY <1>1, <1>8 DEF ResolveFinalField
<1>10. first = {} <=> Said(f) = {}  BY <1>4, <1>6, <1>7, <1>8
<1>11. CASE first = {}  BY <1>9, <1>10, <1>11 DEF Decided
<1>12. CASE first # {}
  <2>1. PICK n \in 1..4 : n = Nearest(first) /\ n \in first /\ \A k \in first : n <= k
    <3>1. first \subseteq Nat  BY <1>8
    <3>. QED  BY <1>8, <1>12, <3>1, NearestIs
  <2>2. ASSUME NEW x \in MostSpecific(f) PROVE \E p \in Closest(Layers[n], f) : rule[x[3]] = rule[p[1]]
    <3>1. x \in Said(f) /\ \A y \in Said(f) : ~Before(y, x)  BY DEF MostSpecific
    <3>2. PICK i \in 1..4 : \E p \in Speaking(Layers[i], f) : Places(x, i, p)  BY <1>6, <3>1
    <3>3. PICK p \in Speaking(Layers[i], f) : Places(x, i, p)  BY <3>2
    <3>4. n <= i  BY <1>4, <1>8, <2>1, <3>2
    <3>5. ~(n < i)
      <4>1. SUFFICES ASSUME n < i PROVE FALSE  OBVIOUS
      <4>2. PICK q \in Speaking(Layers[n], f) : TRUE  BY <1>4, <1>8, <2>1
      <4>3. PICK y \in Said(f) : Places(y, n, q)  BY <1>7, <4>2
      <4>. QED  BY <3>1, <3>3, <4>1, <4>3 DEF Before, Places
    <3>6. i = n  BY <3>4, <3>5
    <3>7. ASSUME NEW q \in Speaking(Layers[n], f) PROVE p[2] <= q[2]
      <4>1. PICK y \in Said(f) : Places(y, n, q)  BY <1>7
      <4>2. ~(q[2] < p[2])  BY <3>1, <3>3, <3>6, <4>1 DEF Before, Places
      <4>. QED  BY <1>5, <3>3, <3>6, <4>2
    <3>. QED  BY <3>3, <3>6, <3>7 DEF Closest, Places
  <2>3. ASSUME NEW p \in Closest(Layers[n], f) PROVE \E x \in MostSpecific(f) : rule[x[3]] = rule[p[1]]
    <3>1. p \in Speaking(Layers[n], f) /\ \A q \in Speaking(Layers[n], f) : p[2] <= q[2]
      BY DEF Closest
    <3>2. PICK x \in Said(f) : Places(x, n, p)  BY <1>7, <3>1
    <3>3. ASSUME NEW y \in Said(f) PROVE ~Before(y, x)
      <4>1. PICK i \in 1..4 : \E q \in Speaking(Layers[i], f) : Places(y, i, q)  BY <1>6
      <4>2. PICK q \in Speaking(Layers[i], f) : Places(y, i, q)  BY <4>1
      <4>3. n <= i  BY <1>4, <1>8, <2>1, <4>1
      <4>4. i = n => p[2] <= q[2]  BY <3>1
      <4>5. p[2] \in Nat /\ q[2] \in Nat  BY <1>5, <3>1
      <4>6. x[1] = n /\ x[2] = p[2] /\ y[1] = i /\ y[2] = q[2]  BY <3>2, <4>2 DEF Places
      <4>. QED  BY <4>3, <4>4, <4>5, <4>6 DEF Before
    <3>4. x \in MostSpecific(f)  BY <3>3 DEF MostSpecific
    <3>. QED  BY <3>2, <3>4 DEF Places
  <2>4. \A p \in Closest(Layers[n], f) : rule[p[1]][f] \in {"yes", "no"}
    BY <1>5 DEF Closest
  <2>5. says[n] = IF \E p \in Closest(Layers[n], f) : rule[p[1]][f] = "no" THEN "no" ELSE "yes"
    BY <1>3, <1>4, <1>8, <2>1 DEF Decision
  <2>6. Decided(f) = \A x \in MostSpecific(f) : rule[x[3]][f] = "yes"
    BY <1>10, <1>12 DEF Decided
  <2>7. (\A x \in MostSpecific(f) : rule[x[3]][f] = "yes")
          <=> ~\E p \in Closest(Layers[n], f) : rule[p[1]][f] = "no"
    BY <2>2, <2>3, <2>4
  <2>8. ResolveFinalField(f) = (says[n] = "yes")  BY <1>9, <1>12, <2>1
  <2>. QED  BY <2>5, <2>6, <2>7, <2>8
<1>. QED  BY <1>11, <1>12

LEMMA RulesDecide ==
  ASSUME PersonOK, RulesOK
  PROVE  MostSpecificDecides
<1>1. /\ ResolveFinalField("visible") <=> Decided("visible")
      /\ ResolveFinalField("enabled") <=> Decided("enabled")
  BY FieldIsDecided DEF RuleFields
<1>2. GatePasses <=> person.admin \/ (person.employee /\ Decided("visible") /\ Decided("enabled"))
  BY <1>1 DEF GatePasses, VisibleToUser, EnabledForUser
<1>3. ListedForUser <=> service.active /\ (person.admin \/ (person.employee /\ Decided("visible")))
  BY <1>1 DEF ListedForUser, VisibleToUser
<1>. QED
  BY <1>2, <1>3 DEF MostSpecificDecides

\* A change of the defaults that overlaps no other leaves them consistent.
Edits == [visible : {"yes", "no", Unset}, enabled : {"yes", "no", Unset}, seen : {TRUE}]
Pending(edit, s, f) == IF edit[f] = Unset THEN s[f] ELSE edit[f] = "yes"
ServicesInv ==
  /\ person \in Situations /\ RulesOK
  /\ service \in [active : BOOLEAN, visible : BOOLEAN, enabled : BOOLEAN]
  /\ DOMAIN editor = Editors /\ \A e \in Editors : editor[e] = NoJob \/ editor[e] \in Edits
  /\ mixed \in BOOLEAN
  /\ ~mixed => /\ \A e, o \in Editors : editor[e] # NoJob /\ editor[o] # NoJob => e = o
               /\ service.enabled => service.visible
               /\ \A e \in Editors : editor[e] # NoJob =>
                    (Pending(editor[e], service, "enabled") => Pending(editor[e], service, "visible"))

LEMMA ServicesInvImplies == ServicesInv => AccessIsDecided
<1>1. SUFFICES ASSUME ServicesInv PROVE AccessIsDecided  OBVIOUS
<1>2. PersonOK
  BY <1>1, ServicesAssumption DEF ServicesInv, PersonOK, ActiveDept
<1>3. MostSpecificDecides  BY <1>1, <1>2, RulesDecide DEF ServicesInv
<1>4. DefaultsAreConsistent  BY <1>1 DEF ServicesInv, DefaultsAreConsistent
<1>. QED  BY <1>3, <1>4 DEF AccessIsDecided

LEMMA RuleSteps ==
  ASSUME ServicesInv, NEW t \in Targets, NEW flags \in Flags,
         SaveRule(t, flags) \/ DeleteRule(t) \/ ReplaceCatalogRule(t, flags)
  PROVE  RulesOK' /\ UNCHANGED <<person, service, editor, mixed>>
<1>1. rule[t] \in Flags  BY DEF ServicesInv, RulesOK
<1>2. NoFlags \in Flags /\ Merge(rule[t], flags) \in Flags
  BY <1>1 DEF NoFlags, Flags, Merge
<1>3. PICK new \in Flags : rule' = [rule EXCEPT ![t] = new]
  BY <1>2 DEF SaveRule, DeleteRule, ReplaceCatalogRule
<1>4. RulesOK'  BY <1>3 DEF ServicesInv, RulesOK
<1>. QED  BY <1>4 DEF SaveRule, DeleteRule, ReplaceCatalogRule

LEMMA ReadDefaultsStep ==
  ASSUME ServicesInv, NEW e \in Editors, NEW given \in Flags, ReadDefaults(e, given)
  PROVE  ServicesInv'
<1>1. PICK edit : edit = [visible |-> given.visible, enabled |-> given.enabled, seen |-> TRUE]  OBVIOUS
<1>2. /\ editor[e] = NoJob /\ editor' = [editor EXCEPT ![e] = edit]
      /\ UNCHANGED <<person, service, rule>>
      /\ mixed' = (mixed \/ \E o \in Editors \ {e} : editor[o] # NoJob)
  BY <1>1 DEF ReadDefaults
<1>3. given.visible \in {"yes", "no", Unset} /\ given.enabled \in {"yes", "no", Unset}
  BY DEF Flags, RuleFields
<1>4. /\ edit \in Edits /\ edit["visible"] = given["visible"] /\ edit["enabled"] = given["enabled"]
  BY <1>1, <1>3 DEF Edits
<1>5. PICK merged : merged = Merge([f \in RuleFields |-> Default(f)], given)  OBVIOUS
<1>6. ~(merged["visible"] = "no" /\ merged["enabled"] = "yes")
  BY <1>5 DEF ReadDefaults, PairIsValid
<1>7. \A f \in RuleFields : merged[f] = IF given[f] = Unset THEN Default(f) ELSE given[f]
  BY <1>5 DEF Merge
<1>8. service["visible"] \in BOOLEAN /\ service["enabled"] \in BOOLEAN  BY DEF ServicesInv
<1>9. Pending(edit, service, "enabled") => Pending(edit, service, "visible")
  BY <1>3, <1>4, <1>6, <1>7, <1>8 DEF Pending, Default, RuleFields, Unset
<1>10. DOMAIN editor' = Editors /\ \A o \in Editors : editor'[o] = IF o = e THEN edit ELSE editor[o]
  BY <1>2 DEF ServicesInv
<1>11. ASSUME ~mixed'
       PROVE  /\ ~mixed /\ \A o \in Editors : editor'[o] # NoJob => o = e
  BY <1>2, <1>10, <1>11 DEF ServicesInv
<1>12. \A o \in Editors : editor'[o] = NoJob \/ editor'[o] \in Edits
  BY <1>4, <1>10 DEF ServicesInv
<1>13. mixed' \in BOOLEAN  BY <1>2 DEF ServicesInv
<1>14. person' \in Situations /\ RulesOK' /\ service' = service
  BY <1>2 DEF ServicesInv, RulesOK
<1>15. ASSUME ~mixed'
       PROVE  /\ \A o, u \in Editors : editor'[o] # NoJob /\ editor'[u] # NoJob => o = u
              /\ service'.enabled => service'.visible
              /\ \A o \in Editors : editor'[o] # NoJob =>
                   (Pending(editor'[o], service', "enabled") => Pending(editor'[o], service', "visible"))
  <2>1. \A o \in Editors : editor'[o] # NoJob => o = e /\ editor'[o] = edit  BY <1>10, <1>11, <1>15
  <2>2. service.enabled => service.visible  BY <1>11, <1>15 DEF ServicesInv
  <2>. QED  BY <1>9, <1>14, <2>1, <2>2
<1>16. service' \in [active : BOOLEAN, visible : BOOLEAN, enabled : BOOLEAN]
  BY <1>14 DEF ServicesInv
<1>. QED  BY <1>10, <1>12, <1>13, <1>14, <1>15, <1>16 DEF ServicesInv

LEMMA WriteDefaultsStep ==
  ASSUME ServicesInv, NEW e \in Editors, WriteDefaults(e)
  PROVE  ServicesInv'
<1>1. PICK v : v = Pending(editor[e], service, "visible")  OBVIOUS
<1>2. PICK n : n = Pending(editor[e], service, "enabled")  OBVIOUS
<1>3. /\ editor[e] # NoJob /\ editor' = [editor EXCEPT ![e] = NoJob]
      /\ service' = [service EXCEPT !.visible = v, !.enabled = n]
      /\ UNCHANGED <<person, rule, mixed>>
  BY <1>1, <1>2 DEF WriteDefaults, Pending
<1>4. editor[e] \in Edits  BY <1>3 DEF ServicesInv
<1>5. service \in [active : BOOLEAN, visible : BOOLEAN, enabled : BOOLEAN]  BY DEF ServicesInv
<1>6. v \in BOOLEAN /\ n \in BOOLEAN
  <2>1. service["visible"] \in BOOLEAN /\ service["enabled"] \in BOOLEAN  BY <1>5
  <2>. QED  BY <1>1, <1>2, <2>1 DEF Pending
<1>7. /\ service' \in [active : BOOLEAN, visible : BOOLEAN, enabled : BOOLEAN]
      /\ service'.visible = v /\ service'.enabled = n
  BY <1>3, <1>5, <1>6
<1>8. DOMAIN editor' = Editors /\ \A o \in Editors : editor'[o] = IF o = e THEN NoJob ELSE editor[o]
  BY <1>3 DEF ServicesInv
<1>9. \A o \in Editors : editor'[o] = NoJob \/ editor'[o] \in Edits  BY <1>8 DEF ServicesInv
<1>10. person' \in Situations /\ RulesOK' /\ mixed' = mixed /\ mixed' \in BOOLEAN
  BY <1>3 DEF ServicesInv, RulesOK
<1>11. ASSUME ~mixed' PROVE (\A o \in Editors : editor'[o] = NoJob) /\ (n => v)
  BY <1>1, <1>2, <1>3, <1>8, <1>10, <1>11 DEF ServicesInv
<1>. QED  BY <1>7, <1>8, <1>9, <1>10, <1>11 DEF ServicesInv

LEMMA SwitchServiceStep ==
  ASSUME ServicesInv, SwitchService
  PROVE  ServicesInv'
<1>1. /\ service' \in [active : BOOLEAN, visible : BOOLEAN, enabled : BOOLEAN]
      /\ service'["visible"] = service["visible"] /\ service'["enabled"] = service["enabled"]
  BY DEF ServicesInv, SwitchService
<1>2. UNCHANGED <<person, rule, editor, mixed>>  BY DEF SwitchService
<1>3. \A edit :
            /\ Pending(edit, service', "visible") = Pending(edit, service, "visible")
            /\ Pending(edit, service', "enabled") = Pending(edit, service, "enabled")
  BY <1>1 DEF Pending
<1>4. RulesOK'  BY <1>2 DEF ServicesInv, RulesOK
<1>. QED  BY <1>1, <1>2, <1>3, <1>4 DEF ServicesInv

\* What changes the rules only.
LEMMA RulesOnly ==
  ASSUME ServicesInv, RulesOK', UNCHANGED <<person, service, editor, mixed>>
  PROVE  ServicesInv'
BY DEF ServicesInv

LEMMA ServicesInvStep == ServicesInv /\ [ServicesNext]_services => ServicesInv'
<1>1. SUFFICES ASSUME ServicesInv, [ServicesNext]_services PROVE ServicesInv'  OBVIOUS
<1>. USE <1>1
<1>2. ASSUME NEW body \in RuleBodies, ReplaceRules(body) PROVE ServicesInv'
  <2>1. RulesOK'  BY <1>2, ServicesAssumption DEF ReplaceRules, RulesOK
  <2>. QED  BY <1>2, <2>1, RulesOnly DEF ReplaceRules
<1>3. ASSUME NEW t \in Targets, NEW flags \in Flags,
             SaveRule(t, flags) \/ DeleteRule(t) \/ ReplaceCatalogRule(t, flags)
      PROVE  ServicesInv'
  BY <1>3, RuleSteps, RulesOnly
<1>4. /\ <<"user">> \in Targets
      /\ \A r \in JobRoles : <<"role", r>> \in Targets
      /\ \A d \in Depts : <<"dept", d>> \in Targets
      /\ \A d \in Depts, r \in JobRoles : <<"deptRole", d, r>> \in Targets
  BY DEF Targets
<1>5. NoFlags \in Flags  BY DEF NoFlags, Flags
<1>6. ASSUME NEW flags \in Flags, SaveUserRule(flags) PROVE ServicesInv'
  BY <1>3, <1>4, <1>6 DEF SaveUserRule
<1>7. ASSUME NEW flags \in Flags, NEW r \in JobRoles, SaveRoleRule(r, flags) PROVE ServicesInv'
  BY <1>3, <1>4, <1>7 DEF SaveRoleRule
<1>8. ASSUME NEW flags \in Flags, NEW d \in Depts,
             SaveDeptRule(d, flags) \/ ReplaceCatalogRule(<<"dept", d>>, flags)
      PROVE  ServicesInv'
  BY <1>3, <1>4, <1>8 DEF SaveDeptRule
<1>9. ASSUME NEW flags \in Flags, NEW d \in Depts, NEW r \in JobRoles,
             SaveDeptRoleRule(d, r, flags) \/ ReplaceCatalogRule(<<"deptRole", d, r>>, flags)
      PROVE  ServicesInv'
  BY <1>3, <1>4, <1>9 DEF SaveDeptRoleRule
<1>10. CASE DeleteUserRule  BY <1>3, <1>4, <1>5, <1>10 DEF DeleteUserRule
<1>11. ASSUME NEW r \in JobRoles, DeleteRoleRule(r) PROVE ServicesInv'
  BY <1>3, <1>4, <1>5, <1>11 DEF DeleteRoleRule
<1>12. ASSUME NEW r \in JobRoles, NEW d \in Depts, DeleteDeptRoleRule(d, r) PROVE ServicesInv'
  BY <1>3, <1>4, <1>5, <1>12 DEF DeleteDeptRoleRule
<1>13. ASSUME NEW d \in Depts, DeleteDeptRule(d) PROVE ServicesInv'
  BY <1>3, <1>4, <1>5, <1>13 DEF DeleteDeptRule
<1>14. ASSUME NEW e \in Editors, WriteDefaults(e) PROVE ServicesInv'  BY <1>14, WriteDefaultsStep
<1>15. ASSUME NEW e \in Editors, NEW given \in Flags, ReadDefaults(e, given) PROVE ServicesInv'
  BY <1>15, ReadDefaultsStep
<1>16. CASE SwitchService  BY <1>16, SwitchServiceStep
<1>17. CASE UNCHANGED services
  BY <1>17, RulesOnly DEF services, ServicesInv, RulesOK
<1>. QED
  BY <1>2, <1>6, <1>7, <1>8, <1>9, <1>10, <1>11, <1>12, <1>13, <1>14, <1>15, <1>16, <1>17
  DEF ServicesNext

LEMMA ServicesInvInit == ServicesInit => ServicesInv
<1>1. SUFFICES ASSUME ServicesInit PROVE ServicesInv  OBVIOUS
<1>2. RulesOK  BY <1>1, ServicesAssumption DEF ServicesInit, RulesOK
<1>3. DOMAIN editor = Editors /\ \A e \in Editors : editor[e] = NoJob  BY <1>1 DEF ServicesInit
<1>4. service \in [active : BOOLEAN, visible : BOOLEAN, enabled : BOOLEAN]  BY <1>1 DEF ServicesInit
<1>. QED  BY <1>1, <1>2, <1>3, <1>4 DEF ServicesInit, ServicesInv

\* What a user may do with a service is decided by the most specific of the rules that concern
\* the user, for every hierarchy of roles, every situation of the user and every sequence of
\* edits, and the defaults they fall back to never say that a hidden service may be used unless
\* two changes of the service overlapped (services/serviceAccess.ts, routes/services.ts).
THEOREM AccessStaysDecided == ServicesSpec => []AccessIsDecided
BY ServicesInvInit, ServicesInvStep, ServicesInvImplies, PTL DEF ServicesSpec
=============================================================================
