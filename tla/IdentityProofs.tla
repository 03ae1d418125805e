--------------------------- MODULE IdentityProofs ---------------------------
(***************************************************************************)
(* Proofs about who a user is: the sign-in and the phone verification by   *)
(* messengers (MessengerAuth) and the profiles of a person (Profiles).     *)
(***************************************************************************)
EXTENDS MessengerAuth, Profiles, FiniteSetTheorems, TLAPS

-----------------------------------------------------------------------------
(* MessengerAuth: what a handler in progress may rely on.                    *)

\* An account that opened the code q was taken for user u.
Scanned(q, u) == \E a \in Accounts : <<q, a>> \in opened /\ <<a, u>> \in identified

\* An account opened the link of s and sent the number p.
Answered(s, p) == \E a \in Accounts : <<s, a>> \in opened /\ <<a, p>> \in sent

QrPcs == {"expireQr", "cancelQr", "issue", "consume", "bindQr", "verifyQr", "failQr"}
PhonePcs == {"expirePhone", "failPhone", "phoneOwner", "accountOwner", "commitPhone", "bindPhone"}
AccountPcs == {"bindQr", "bindPhone", "byLink", "ownerOfPhone", "setPhone", "byPhone", "attach", "create", "link"}
NumberPcs == {"ownerOfPhone", "setPhone", "byPhone", "attach", "create", "replace", "openPhone"}
UserPcs ==
  {"ownerOfPhone", "setPhone", "attach", "markVerified", "verifyQr", "phoneOwner", "accountOwner",
   "commitPhone", "replace", "openPhone", "link"}
BotPcs ==
  {"active", "markVerified", "markFailed", "verifyQr", "failQr", "phoneSession", "phoneOwner",
   "accountOwner", "commitPhone"}
MatchedPcs == {"phoneOwner", "accountOwner", "commitPhone"}

\* The rows a handler is about to write exist.
HandlerHasRows(r) ==
  /\ call[r].pc \in QrPcs => call[r].q \in QrSessions /\ qr[call[r].q] # Null
  /\ call[r].pc \in PhonePcs => call[r].s \in PhoneSessions /\ phone[call[r].s] # Null
  /\ call[r].pc \in AccountPcs => call[r].a \in Accounts
  /\ call[r].pc \in NumberPcs => call[r].p \in Phones
  /\ call[r].pc \in UserPcs => call[r].u \in Users /\ user[call[r].u] # Null
  /\ call[r].pc \in {"replace", "openPhone"} => call[r].via \in Providers
  /\ call[r].o # Null => call[r].o \in Users /\ user[call[r].o] # Null

\* What a handler has learnt stays true although the tables change: a bot's
\* contact was sent, a match was found for an account that opened the session.
HandlerKnows(r) ==
  /\ call[r].pc \in BotPcs => call[r].bot
  /\ call[r].bot => call[r].a \in Accounts /\ call[r].p \in Phones /\ <<call[r].a, call[r].p>> \in sent
  /\ call[r].pc \in {"markVerified", "verifyQr"} => <<call[r].a, call[r].u>> \in identified
  /\ call[r].pc = "verifyQr" => <<call[r].q, call[r].a>> \in opened
  /\ call[r].pc = "issue" => call[r].u \in Users /\ Scanned(call[r].q, call[r].u)
  /\ call[r].pc \in MatchedPcs =>
       <<call[r].s, call[r].a>> \in opened /\ phone[call[r].s].phone = call[r].p
  /\ call[r].o # Null => call[r].pc = "commitPhone" /\ ProviderOf[call[r].a] # "MAX"

HandlersOK == \A r \in Requests : HandlerHasRows(r) /\ HandlerKnows(r)

QrOK(q) ==
  qr[q] # Null =>
    /\ qr[q].account # Null => <<q, qr[q].account>> \in opened
    /\ qr[q].resolved # Null => Scanned(q, qr[q].resolved)

PhoneOK(s) ==
  phone[s] # Null =>
    /\ user[phone[s].user] # Null
    /\ phone[s].account # Null => <<s, phone[s].account>> \in opened
    /\ phone[s].status = "VERIFIED" => Answered(s, phone[s].phone)

SessionsOK == (\A q \in QrSessions : QrOK(q)) /\ (\A s \in PhoneSessions : PhoneOK(s))

AuthInv == TypeOK /\ HandlersOK /\ SessionsOK /\ SignedInByScanner

-----------------------------------------------------------------------------
(* What every step keeps.                                                    *)

\* Rows are never deleted and a session keeps the number it was opened for;
\* the history grows.
Grown ==
  /\ user' \in [Users -> UserRows \cup {Null}] /\ \A u \in Users : user[u] # Null => user'[u] # Null
  /\ qr' \in [QrSessions -> QrRows \cup {Null}] /\ \A q \in QrSessions : qr[q] # Null => qr'[q] # Null
  /\ phone' \in [PhoneSessions -> PhoneRows \cup {Null}]
  /\ \A s \in PhoneSessions : phone[s] # Null => phone'[s] # Null /\ phone'[s].phone = phone[s].phone
  /\ contact' \in [Accounts -> Phones \cup {Null}] /\ budget' \in Nat /\ faults' \in Nat
  /\ opened \subseteq opened' /\ opened' \subseteq (QrSessions \cup PhoneSessions) \X Accounts
  /\ sent \subseteq sent' /\ sent' \subseteq Accounts \X Phones
  /\ identified \subseteq identified' /\ identified' \subseteq Accounts \X Users
  /\ signedIn' \subseteq QrSessions \X Users

\* The step is of handler r.
OnlyHandler(r) ==
  /\ call' \in [Requests -> CallRecords]
  /\ \A x \in Requests : x # r => call'[x] = call[x]

LEMMA ScannedStays ==
  ASSUME Grown
  PROVE  /\ \A q, u : Scanned(q, u) => Scanned(q, u)'
         /\ \A s, p : Answered(s, p) => Answered(s, p)'
BY DEF Grown, Scanned, Answered

LEMMA HandlerStays ==
  ASSUME AuthInv, Grown, NEW r \in Requests, call'[r] = call[r]
  PROVE  HandlerHasRows(r)' /\ HandlerKnows(r)'
<1>1. HandlerHasRows(r) /\ HandlerKnows(r)  BY DEF AuthInv, HandlersOK
<1>2. HandlerHasRows(r)'  BY <1>1 DEF Grown, HandlerHasRows
<1>3. call[r].pc \in MatchedPcs => phone'[call[r].s].phone = phone[call[r].s].phone
  BY <1>1 DEF Grown, HandlerHasRows, MatchedPcs, PhonePcs
<1>4. HandlerKnows(r)'
  BY <1>1, <1>3, ScannedStays DEF Grown, HandlerKnows
<1>. QED  BY <1>2, <1>4

\* The parts of a session that count.
KeepsQrs ==
  \A q \in QrSessions : qr'[q] # Null =>
    qr[q] # Null /\ qr'[q].account = qr[q].account /\ qr'[q].resolved = qr[q].resolved

KeepsPhones ==
  \A s \in PhoneSessions : phone'[s] # Null =>
    /\ phone[s] # Null /\ phone'[s].account = phone[s].account /\ phone'[s].user = phone[s].user
    /\ phone'[s].status = "VERIFIED" => phone[s].status = "VERIFIED"

LEMMA QrsStay ==
  ASSUME AuthInv, Grown, NEW q \in QrSessions,
         qr'[q] # Null => qr[q] # Null /\ qr'[q].account = qr[q].account /\ qr'[q].resolved = qr[q].resolved
  PROVE  QrOK(q)'
BY ScannedStays DEF AuthInv, SessionsOK, QrOK, Grown

LEMMA PhoneStays ==
  ASSUME AuthInv, Grown, NEW s \in PhoneSessions,
         phone'[s] # Null =>
           /\ phone[s] # Null /\ phone'[s].account = phone[s].account /\ phone'[s].user = phone[s].user
           /\ phone'[s].status = "VERIFIED" => phone[s].status = "VERIFIED"
  PROVE  PhoneOK(s)'
<1> SUFFICES ASSUME phone'[s] # Null PROVE PhoneOK(s)'  BY DEF PhoneOK
<1>1. /\ PhoneOK(s) /\ phone[s] # Null /\ phone'[s].phone = phone[s].phone
      /\ phone[s] \in PhoneRows
  BY DEF AuthInv, SessionsOK, Grown, TypeOK
<1>2. phone[s].user \in Users  BY <1>1 DEF PhoneRows
<1>3. user'[phone'[s].user] # Null  BY <1>1, <1>2 DEF PhoneOK, Grown
<1>. QED  BY <1>1, <1>3, ScannedStays DEF PhoneOK, Grown

LEMMA SessionsStay ==
  ASSUME AuthInv, Grown, KeepsQrs, KeepsPhones
  PROVE  SessionsOK'
BY QrsStay, PhoneStays DEF SessionsOK, KeepsQrs, KeepsPhones

LEMMA SignedStays ==
  ASSUME AuthInv, Grown, signedIn' = signedIn
  PROVE  SignedInByScanner'
BY DEF AuthInv, SignedInByScanner, Grown

\* What is left to show of a step of handler r.
LEMMA HandlerStep ==
  ASSUME AuthInv, Grown, NEW r \in Requests, OnlyHandler(r), HandlerHasRows(r)', HandlerKnows(r)',
         SessionsOK', SignedInByScanner'
  PROVE  AuthInv'
<1>1. HandlersOK'
  BY HandlerStays DEF HandlersOK, OnlyHandler
<1>2. TypeOK'
  BY DEF TypeOK, Grown, OnlyHandler
<1>. QED  BY <1>1, <1>2 DEF AuthInv

\* A handler that has returned relies on nothing.
LEMMA IdleCallOK ==
  /\ IdleCall \in CallRecords /\ IdleCall.pc = "idle" /\ ~IdleCall.bot /\ IdleCall.o = Null
BY DEF IdleCall, CallRecords

AuthPcs ==
  {"idle", "expireQr", "cancelQr", "issue", "consume", "bindQr",
   "active", "byLink", "ownerOfPhone", "setPhone", "byPhone", "attach", "create",
   "markVerified", "markFailed", "verifyQr", "failQr",
   "phoneSession", "phoneOwner", "accountOwner", "commitPhone", "expirePhone", "failPhone",
   "bindPhone", "replace", "openPhone", "link"}

LEMMA AuthReturn ==
  ASSUME AuthInv, NEW r \in Requests, Return(r)
  PROVE  OnlyHandler(r) /\ HandlerHasRows(r)' /\ HandlerKnows(r)'
<1>1. OnlyHandler(r) /\ call'[r] = IdleCall
  BY IdleCallOK DEF AuthInv, TypeOK, Return, OnlyHandler
<1>2. HandlerHasRows(r)'
  BY <1>1, IdleCallOK DEF HandlerHasRows, QrPcs, PhonePcs, AccountPcs, NumberPcs, UserPcs
<1>3. HandlerKnows(r)'
  BY <1>1, IdleCallOK DEF HandlerKnows, BotPcs, MatchedPcs
<1>. QED  BY <1>1, <1>2, <1>3

KeepsRecord(r) ==
  /\ call'[r].bot = call[r].bot /\ call'[r].q = call[r].q /\ call'[r].s = call[r].s
  /\ call'[r].a = call[r].a /\ call'[r].p = call[r].p /\ call'[r].u = call[r].u
  /\ call'[r].o = call[r].o /\ call'[r].via = call[r].via

LEMMA AuthGoto ==
  ASSUME AuthInv, NEW r \in Requests, NEW pc \in AuthPcs, Goto(r, pc)
  PROVE  OnlyHandler(r) /\ KeepsRecord(r) /\ call'[r].pc = pc
<1>1. call \in [Requests -> CallRecords] /\ call[r] \in CallRecords
  BY DEF AuthInv, TypeOK
<1>2. [call[r] EXCEPT !.pc = pc] \in CallRecords
  BY <1>1 DEF CallRecords, AuthPcs
<1>3. call' = [call EXCEPT ![r] = [call[r] EXCEPT !.pc = pc]]
  BY DEF Goto
<1>. QED  BY <1>1, <1>2, <1>3 DEF OnlyHandler, KeepsRecord, CallRecords

LEMMA AuthBegin ==
  ASSUME AuthInv, NEW r \in Requests, NEW c \in CallRecords, Begin(r, c)
  PROVE  OnlyHandler(r) /\ (call'[r] = IdleCall \/ (c.pc # "idle" /\ call'[r] = c))
BY IdleCallOK DEF AuthInv, TypeOK, Begin, OnlyHandler

LEMMA IdleOK ==
  ASSUME NEW r \in Requests, call'[r] = IdleCall
  PROVE  HandlerHasRows(r)' /\ HandlerKnows(r)'
<1>1. HandlerHasRows(r)'
  BY IdleCallOK DEF HandlerHasRows, QrPcs, PhonePcs, AccountPcs, NumberPcs, UserPcs
<1>2. HandlerKnows(r)'
  BY IdleCallOK DEF HandlerKnows, BotPcs, MatchedPcs
<1>. QED  BY <1>1, <1>2

\* A step that only moves a handler keeps everything but the handler's record.
LEMMA OnlyReads ==
  ASSUME AuthInv, UNCHANGED <<tables, history>>, budget' \in Nat, faults' \in Nat
  PROVE  Grown /\ SessionsOK' /\ SignedInByScanner'
<1>1. Grown
  BY DEF AuthInv, TypeOK, Grown, tables, history
<1>2. KeepsQrs /\ KeepsPhones
  BY DEF KeepsQrs, KeepsPhones, tables
<1>. QED  BY <1>1, <1>2, SessionsStay, SignedStays DEF history

LEMMA BoundsStay ==
  ASSUME AuthInv, NEW r \in Requests, NEW pc, Arrives(r) \/ Step(r, pc)
  PROVE  budget' \in Nat /\ faults' \in Nat
<1>1. budget \in Nat /\ faults \in Nat  BY DEF AuthInv, TypeOK
<1>2. CASE Arrives(r)  BY <1>1, <1>2 DEF Arrives
<1>3. CASE Step(r, pc)  BY <1>1, <1>3 DEF Step
<1>. QED  BY <1>2, <1>3

-----------------------------------------------------------------------------
(* Requests and updates that arrive.                                         *)

LEMMA PollQrStep ==
  ASSUME AuthInv, NEW r \in Requests, NEW q \in QrSessions, PollQr(r, q)
  PROVE  AuthInv'
<1> DEFINE pc == IF qr[q].status = "VERIFIED" /\ qr[q].resolved # Null THEN "issue" ELSE Looked(q, "idle")
           c == [IdleCall EXCEPT !.q = q, !.u = qr[q].resolved, !.pc = pc]
<1> PICK w : w = qr[q].resolved  OBVIOUS
<1>1. Grown /\ SessionsOK' /\ SignedInByScanner'
  BY OnlyReads, BoundsStay DEF PollQr
<1>2. /\ qr[q] \in QrRows /\ qr[q] # Null /\ QrOK(q) /\ qr' = qr
      /\ qr[q].resolved \in Users \cup {Null}
  BY DEF AuthInv, TypeOK, SessionsOK, PollQr, tables, QrRows
<1>3. pc \in {"issue", "expireQr", "idle"} /\ (pc = "issue" => qr[q].resolved # Null)
  BY DEF Looked
<1> HIDE DEF pc
<1>4. /\ c \in CallRecords /\ c.q = q /\ c.u = qr[q].resolved /\ c.pc = pc /\ c.bot = FALSE
      /\ c.o = Null
  BY <1>2, <1>3 DEF IdleCall, CallRecords
<1>5. Begin(r, c)  BY DEF PollQr, pc
<1> HIDE DEF c
<1>6. OnlyHandler(r) /\ (call'[r] = IdleCall \/ call'[r] = c)
  BY <1>4, <1>5, AuthBegin
<1>7. CASE call'[r] = c
  <2>1. HandlerHasRows(r)'
    BY <1>1, <1>2, <1>3, <1>4, <1>7 DEF HandlerHasRows, QrPcs, PhonePcs, AccountPcs, NumberPcs, UserPcs
  <2>2. c.u = w /\ (pc = "issue" => w \in Users /\ Scanned(q, w)')
    BY <1>1, <1>2, <1>3, <1>4, ScannedStays DEF QrOK
  <2>3. HandlerKnows(r)'
    BY <1>3, <1>4, <1>7, <2>2 DEF HandlerKnows, BotPcs, MatchedPcs
  <2>. QED  BY <1>1, <1>6, <2>1, <2>3, HandlerStep
<1>8. CASE call'[r] = IdleCall
  BY <1>1, <1>6, <1>8, IdleOK, HandlerStep
<1>. QED  BY <1>6, <1>7, <1>8

LEMMA CancelQrStep ==
  ASSUME AuthInv, NEW r \in Requests, NEW q \in QrSessions, CancelQr(r, q)
  PROVE  AuthInv'
<1> DEFINE pc == Looked(q, "cancelQr")
           c == [IdleCall EXCEPT !.q = q, !.pc = pc]
<1>1. Grown /\ SessionsOK' /\ SignedInByScanner'
  BY OnlyReads, BoundsStay DEF CancelQr
<1>2. qr[q] # Null /\ qr' = qr
  BY DEF CancelQr, tables
<1>3. pc \in {"cancelQr", "expireQr", "idle"}
  BY DEF Looked
<1> HIDE DEF pc
<1>4. c \in CallRecords /\ c.q = q /\ c.pc = pc /\ c.bot = FALSE /\ c.o = Null
  BY <1>3 DEF IdleCall, CallRecords
<1>5. Begin(r, c)  BY DEF CancelQr, pc
<1> HIDE DEF c
<1>6. OnlyHandler(r) /\ (call'[r] = IdleCall \/ call'[r] = c)
  BY <1>4, <1>5, AuthBegin
<1>7. CASE call'[r] = c
  <2>1. HandlerHasRows(r)'
    BY <1>2, <1>3, <1>4, <1>7 DEF HandlerHasRows, QrPcs, PhonePcs, AccountPcs, NumberPcs, UserPcs
  <2>2. HandlerKnows(r)'
    BY <1>3, <1>4, <1>7 DEF HandlerKnows, BotPcs, MatchedPcs
  <2>. QED  BY <1>1, <1>6, <2>1, <2>2, HandlerStep
<1>8. CASE call'[r] = IdleCall
  BY <1>1, <1>6, <1>8, IdleOK, HandlerStep
<1>. QED  BY <1>6, <1>7, <1>8

LEMMA BindQrStep ==
  ASSUME AuthInv, NEW r \in Requests, NEW a \in Accounts, NEW q \in QrSessions, BindQr(r, a, q)
  PROVE  AuthInv'
<1> DEFINE pc == Looked(q, "bindQr")
           c == [IdleCall EXCEPT !.q = q, !.a = a, !.pc = pc]
<1>1. Grown /\ SessionsOK' /\ SignedInByScanner'
  BY OnlyReads, BoundsStay DEF BindQr
<1>2. qr[q] # Null /\ qr' = qr
  BY DEF BindQr, tables
<1>3. pc \in {"bindQr", "expireQr", "idle"}
  BY DEF Looked
<1> HIDE DEF pc
<1>4. c \in CallRecords /\ c.q = q /\ c.a = a /\ c.pc = pc /\ c.bot = FALSE /\ c.o = Null
  BY <1>3 DEF IdleCall, CallRecords
<1>5. Begin(r, c)  BY DEF BindQr, pc
<1> HIDE DEF c
<1>6. OnlyHandler(r) /\ (call'[r] = IdleCall \/ call'[r] = c)
  BY <1>4, <1>5, AuthBegin
<1>7. CASE call'[r] = c
  <2>1. HandlerHasRows(r)'
    BY <1>2, <1>3, <1>4, <1>7 DEF HandlerHasRows, QrPcs, PhonePcs, AccountPcs, NumberPcs, UserPcs
  <2>2. HandlerKnows(r)'
    BY <1>3, <1>4, <1>7 DEF HandlerKnows, BotPcs, MatchedPcs
  <2>. QED  BY <1>1, <1>6, <2>1, <2>2, HandlerStep
<1>8. CASE call'[r] = IdleCall
  BY <1>1, <1>6, <1>8, IdleOK, HandlerStep
<1>. QED  BY <1>6, <1>7, <1>8

LEMMA BindPhoneStep ==
  ASSUME AuthInv, NEW r \in Requests, NEW a \in Accounts, NEW s \in PhoneSessions, BindPhone(r, a, s)
  PROVE  AuthInv'
<1> DEFINE pc == IF phone[s].expired THEN "expirePhone" ELSE "bindPhone"
           c == [IdleCall EXCEPT !.s = s, !.a = a, !.pc = pc]
<1>1. Grown /\ SessionsOK' /\ SignedInByScanner'
  BY OnlyReads, BoundsStay DEF BindPhone
<1>2. phone[s] # Null /\ phone' = phone
  BY DEF BindPhone, tables
<1>3. pc \in {"bindPhone", "expirePhone"}
  OBVIOUS
<1> HIDE DEF pc
<1>4. c \in CallRecords /\ c.s = s /\ c.a = a /\ c.pc = pc /\ c.bot = FALSE /\ c.o = Null
  BY <1>3 DEF IdleCall, CallRecords
<1>5. Begin(r, c)  BY DEF BindPhone, pc
<1> HIDE DEF c
<1>6. OnlyHandler(r) /\ (call'[r] = IdleCall \/ call'[r] = c)
  BY <1>4, <1>5, AuthBegin
<1>7. CASE call'[r] = c
  <2>1. HandlerHasRows(r)'
    BY <1>2, <1>3, <1>4, <1>7 DEF HandlerHasRows, QrPcs, PhonePcs, AccountPcs, NumberPcs, UserPcs
  <2>2. HandlerKnows(r)'
    BY <1>3, <1>4, <1>7 DEF HandlerKnows, BotPcs, MatchedPcs
  <2>. QED  BY <1>1, <1>6, <2>1, <2>2, HandlerStep
<1>8. CASE call'[r] = IdleCall
  BY <1>1, <1>6, <1>8, IdleOK, HandlerStep
<1>. QED  BY <1>6, <1>7, <1>8

LEMMA StartPhoneStep ==
  ASSUME AuthInv, NEW r \in Requests, NEW u \in Users, NEW p \in Phones, NEW v \in Providers,
         StartPhone(r, u, p, v)
  PROVE  AuthInv'
<1> DEFINE c == [IdleCall EXCEPT !.u = u, !.p = p, !.via = v, !.pc = "replace"]
<1>1. Grown /\ SessionsOK' /\ SignedInByScanner'
  BY OnlyReads, BoundsStay DEF StartPhone
<1>2. user[u] # Null /\ user' = user
  BY DEF StartPhone, tables
<1>3. c \in CallRecords /\ c.pc = "replace" /\ c.u = u /\ c.p = p /\ c.via = v /\ c.bot = FALSE /\ c.o = Null
  BY <1>2 DEF IdleCall, CallRecords
<1>4. Begin(r, c)  BY DEF StartPhone
<1> HIDE DEF c
<1>5. OnlyHandler(r) /\ (call'[r] = IdleCall \/ call'[r] = c)
  BY <1>3, <1>4, AuthBegin
<1>6. CASE call'[r] = c
  <2>1. HandlerHasRows(r)'
    BY <1>2, <1>3, <1>6 DEF HandlerHasRows, QrPcs, PhonePcs, AccountPcs, NumberPcs, UserPcs
  <2>2. HandlerKnows(r)'
    BY <1>2, <1>3, <1>6 DEF HandlerKnows, BotPcs, MatchedPcs
  <2>. QED  BY <1>1, <1>5, <2>1, <2>2, HandlerStep
<1>7. CASE call'[r] = IdleCall
  BY <1>1, <1>5, <1>7, IdleOK, HandlerStep
<1>. QED  BY <1>5, <1>6, <1>7

LEMMA PollPhoneStep ==
  ASSUME AuthInv, NEW r \in Requests, NEW s \in PhoneSessions, PollPhone(r, s)
  PROVE  AuthInv'
<1> DEFINE c == [IdleCall EXCEPT !.s = s, !.pc = "expirePhone"]
<1>1. Grown /\ SessionsOK' /\ SignedInByScanner'
  BY OnlyReads, BoundsStay DEF PollPhone
<1>2. phone[s] # Null /\ phone' = phone
  BY DEF PollPhone, tables
<1>3. c \in CallRecords /\ c.pc = "expirePhone" /\ c.s = s /\ c.bot = FALSE /\ c.o = Null
  BY <1>2 DEF IdleCall, CallRecords
<1>4. Begin(r, c)  BY DEF PollPhone
<1> HIDE DEF c
<1>5. OnlyHandler(r) /\ (call'[r] = IdleCall \/ call'[r] = c)
  BY <1>3, <1>4, AuthBegin
<1>6. CASE call'[r] = c
  <2>1. HandlerHasRows(r)'
    BY <1>2, <1>3, <1>6 DEF HandlerHasRows, QrPcs, PhonePcs, AccountPcs, NumberPcs, UserPcs
  <2>2. HandlerKnows(r)'
    BY <1>2, <1>3, <1>6 DEF HandlerKnows, BotPcs, MatchedPcs
  <2>. QED  BY <1>1, <1>5, <2>1, <2>2, HandlerStep
<1>7. CASE call'[r] = IdleCall
  BY <1>1, <1>5, <1>7, IdleOK, HandlerStep
<1>. QED  BY <1>5, <1>6, <1>7

LEMMA LinkStep ==
  ASSUME AuthInv, NEW r \in Requests, NEW u \in Users, NEW a \in Accounts, Link(r, u, a)
  PROVE  AuthInv'
<1> DEFINE c == [IdleCall EXCEPT !.u = u, !.a = a, !.pc = "link"]
<1>1. Grown /\ SessionsOK' /\ SignedInByScanner'
  BY OnlyReads, BoundsStay DEF Link
<1>2. user[u] # Null /\ user' = user
  BY DEF Link, tables
<1>3. c \in CallRecords /\ c.pc = "link" /\ c.u = u /\ c.a = a /\ c.bot = FALSE /\ c.o = Null
  BY <1>2 DEF IdleCall, CallRecords
<1>4. Begin(r, c)  BY DEF Link
<1> HIDE DEF c
<1>5. OnlyHandler(r) /\ (call'[r] = IdleCall \/ call'[r] = c)
  BY <1>3, <1>4, AuthBegin
<1>6. CASE call'[r] = c
  <2>1. HandlerHasRows(r)'
    BY <1>2, <1>3, <1>6 DEF HandlerHasRows, QrPcs, PhonePcs, AccountPcs, NumberPcs, UserPcs
  <2>2. HandlerKnows(r)'
    BY <1>2, <1>3, <1>6 DEF HandlerKnows, BotPcs, MatchedPcs
  <2>. QED  BY <1>1, <1>5, <2>1, <2>2, HandlerStep
<1>7. CASE call'[r] = IdleCall
  BY <1>1, <1>5, <1>7, IdleOK, HandlerStep
<1>. QED  BY <1>5, <1>6, <1>7

\* The bots' contacts are cached and remembered.
LEMMA ContactGrows ==
  ASSUME AuthInv, NEW a \in Accounts, NEW p \in Phones, budget' \in Nat, faults' \in Nat,
         contact' = [contact EXCEPT ![a] = p], sent' = sent \cup {<<a, p>>},
         UNCHANGED <<user, qr, phone, opened, identified, signedIn>>
  PROVE  Grown /\ SessionsOK' /\ SignedInByScanner'
<1>1. Grown
  BY DEF AuthInv, TypeOK, Grown
<1>2. KeepsQrs /\ KeepsPhones
  BY DEF KeepsQrs, KeepsPhones
<1>. QED  BY <1>1, <1>2, SessionsStay, SignedStays

LEMMA BotContactStep ==
  ASSUME AuthInv, NEW r \in Requests, NEW a \in Accounts, NEW p \in Phones, BotContact(r, a, p)
  PROVE  AuthInv'
<1> DEFINE c == [IdleCall EXCEPT !.bot = TRUE, !.a = a, !.p = p, !.pc = "active"]
<1>1. Grown /\ SessionsOK' /\ SignedInByScanner'
  BY ContactGrows, BoundsStay DEF BotContact
<1>2. <<a, p>> \in sent'
  BY DEF BotContact
<1>3. c \in CallRecords /\ c.pc = "active" /\ c.a = a /\ c.p = p /\ c.bot = TRUE /\ c.o = Null
  BY <1>2 DEF IdleCall, CallRecords
<1>4. Begin(r, c)  BY DEF BotContact
<1> HIDE DEF c
<1>5. OnlyHandler(r) /\ (call'[r] = IdleCall \/ call'[r] = c)
  BY <1>3, <1>4, AuthBegin
<1>6. CASE call'[r] = c
  <2>1. HandlerHasRows(r)'
    BY <1>2, <1>3, <1>6 DEF HandlerHasRows, QrPcs, PhonePcs, AccountPcs, NumberPcs, UserPcs
  <2>2. HandlerKnows(r)'
    BY <1>2, <1>3, <1>6 DEF HandlerKnows, BotPcs, MatchedPcs
  <2>. QED  BY <1>1, <1>5, <2>1, <2>2, HandlerStep
<1>7. CASE call'[r] = IdleCall
  BY <1>1, <1>5, <1>7, IdleOK, HandlerStep
<1>. QED  BY <1>5, <1>6, <1>7

LEMMA AppContactStep ==
  ASSUME AuthInv, NEW r \in Requests, NEW a \in Accounts, NEW p \in Phones, AppContact(r, a, p)
  PROVE  AuthInv'
<1> DEFINE c == [IdleCall EXCEPT !.a = a, !.p = p, !.pc = "byLink"]
<1>1. Grown /\ SessionsOK' /\ SignedInByScanner'
  BY ContactGrows, BoundsStay DEF AppContact
<1>2. user' = user
  BY DEF AppContact
<1>3. c \in CallRecords /\ c.pc = "byLink" /\ c.a = a /\ c.p = p /\ c.bot = FALSE /\ c.o = Null
  BY <1>2 DEF IdleCall, CallRecords
<1>4. Begin(r, c)  BY DEF AppContact
<1> HIDE DEF c
<1>5. OnlyHandler(r) /\ (call'[r] = IdleCall \/ call'[r] = c)
  BY <1>3, <1>4, AuthBegin
<1>6. CASE call'[r] = c
  <2>1. HandlerHasRows(r)'
    BY <1>2, <1>3, <1>6 DEF HandlerHasRows, QrPcs, PhonePcs, AccountPcs, NumberPcs, UserPcs
  <2>2. HandlerKnows(r)'
    BY <1>2, <1>3, <1>6 DEF HandlerKnows, BotPcs, MatchedPcs
  <2>. QED  BY <1>1, <1>5, <2>1, <2>2, HandlerStep
<1>7. CASE call'[r] = IdleCall
  BY <1>1, <1>5, <1>7, IdleOK, HandlerStep
<1>. QED  BY <1>5, <1>6, <1>7

LEMMA AppStatusStep ==
  ASSUME AuthInv, NEW r \in Requests, NEW a \in Accounts, AppStatus(r, a)
  PROVE  AuthInv'
<1>1. Grown /\ SessionsOK' /\ SignedInByScanner'
  BY OnlyReads, BoundsStay DEF AppStatus
<1>2. PICK p \in {contact[a], Null} : Begin(r, [IdleCall EXCEPT !.a = a, !.p = p, !.pc = "byLink"])
  BY DEF AppStatus
<1> DEFINE c == [IdleCall EXCEPT !.a = a, !.p = p, !.pc = "byLink"]
<1>3. c \in CallRecords /\ c.pc = "byLink" /\ c.a = a /\ c.bot = FALSE /\ c.o = Null
  BY DEF AuthInv, TypeOK, IdleCall, CallRecords
<1>4. Begin(r, c)  BY <1>2
<1> HIDE DEF c
<1>5. OnlyHandler(r) /\ (call'[r] = IdleCall \/ call'[r] = c)
  BY <1>3, <1>4, AuthBegin
<1>6. CASE call'[r] = c
  <2>1. HandlerHasRows(r)'
    BY <1>3, <1>6 DEF HandlerHasRows, QrPcs, PhonePcs, AccountPcs, NumberPcs, UserPcs
  <2>2. HandlerKnows(r)'
    BY <1>3, <1>6 DEF HandlerKnows, BotPcs, MatchedPcs
  <2>. QED  BY <1>1, <1>5, <2>1, <2>2, HandlerStep
<1>7. CASE call'[r] = IdleCall
  BY <1>1, <1>5, <1>7, IdleOK, HandlerStep
<1>. QED  BY <1>5, <1>6, <1>7

\* A step of no handler.
LEMMA NoHandlerStep ==
  ASSUME AuthInv, Grown, call' = call, SessionsOK', SignedInByScanner'
  PROVE  AuthInv'
<1>1. HandlersOK'
  BY HandlerStays DEF HandlersOK
<1>2. TypeOK'
  BY DEF AuthInv, TypeOK, Grown
<1>. QED  BY <1>1, <1>2 DEF AuthInv

LEMMA StartQrStep ==
  ASSUME AuthInv, NEW r \in Requests, NEW q \in QrSessions, NEW v \in Providers, StartQr(r, q, v)
  PROVE  AuthInv'
<1> DEFINE row == [provider |-> v, status |-> "PENDING", account |-> Null, resolved |-> Null, expired |-> FALSE]
<1>1. row \in QrRows /\ row.account = Null /\ row.resolved = Null
  BY DEF QrRows, QrStatuses
<1>2. /\ qr' = [qr EXCEPT ![q] = row] /\ qr[q] = Null
      /\ UNCHANGED <<user, phone, contact, call, opened, sent, identified, signedIn>>
  BY DEF StartQr, history
<1> HIDE DEF row
<1>3. budget' \in Nat /\ faults' \in Nat  BY BoundsStay DEF StartQr
<1>4. row # Null  BY <1>1, NullAssumption
<1>5. Grown
  BY <1>1, <1>2, <1>3, <1>4 DEF AuthInv, TypeOK, Grown
<1>6. SessionsOK'
  <2>1. KeepsPhones  BY <1>2 DEF KeepsPhones
  <2>2. ASSUME NEW x \in QrSessions PROVE QrOK(x)'
    <3>1. CASE x = q
      BY <1>1, <1>2, <3>1 DEF QrOK, AuthInv, TypeOK
    <3>2. CASE x # q
      BY <1>2, <1>5, <3>2, QrsStay DEF AuthInv, TypeOK
    <3>. QED  BY <3>1, <3>2
  <2>. QED  BY <1>5, <2>1, <2>2, PhoneStays DEF SessionsOK, KeepsPhones
<1>. QED  BY <1>2, <1>5, <1>6, SignedStays, NoHandlerStep

\* Only the status of a row of phone changes, and not to VERIFIED.
LEMMA PhoneStatus ==
  ASSUME AuthInv, NEW s \in PhoneSessions, NEW status \in {"FAILED", "EXPIRED", "CANCELLED"}, phone[s] # Null,
         SetPhoneSession(s, status), budget' \in Nat, faults' \in Nat,
         UNCHANGED <<user, qr, contact, history>>
  PROVE  Grown /\ SessionsOK' /\ SignedInByScanner'
<1> DEFINE row == [phone[s] EXCEPT !.status = status]
<1>1. phone \in [PhoneSessions -> PhoneRows \cup {Null}] /\ phone[s] \in PhoneRows
  BY DEF AuthInv, TypeOK
<1>2. /\ row \in PhoneRows /\ row.status = status /\ row.user = phone[s].user
      /\ row.account = phone[s].account /\ row.phone = phone[s].phone
  BY <1>1 DEF PhoneRows
<1>3. phone' = [phone EXCEPT ![s] = row]  BY DEF SetPhoneSession
<1>4. UNCHANGED <<user, qr, contact, opened, sent, identified, signedIn>>  BY DEF history
<1> HIDE DEF row
<1>5. row # Null  BY <1>2, NullAssumption
<1>6. Grown
  BY <1>1, <1>2, <1>3, <1>4, <1>5 DEF AuthInv, TypeOK, Grown
<1>7. KeepsQrs /\ KeepsPhones
  BY <1>1, <1>2, <1>3, <1>4 DEF KeepsQrs, KeepsPhones
<1>. QED  BY <1>4, <1>6, <1>7, SessionsStay, SignedStays

LEMMA CancelPhoneStep ==
  ASSUME AuthInv, NEW r \in Requests, NEW s \in PhoneSessions, CancelPhone(r, s)
  PROVE  AuthInv'
<1>1. Grown /\ SessionsOK' /\ SignedInByScanner'
  BY PhoneStatus, BoundsStay DEF CancelPhone
<1>. QED  BY <1>1, NoHandlerStep DEF CancelPhone

-----------------------------------------------------------------------------
(* What the handlers write in the rows of the QR sessions.                   *)

\* A row of qr is rewritten, its account and its user stay.
LEMMA QrRewritten ==
  ASSUME AuthInv, NEW q \in QrSessions, NEW row \in QrRows, qr[q] # Null, qr' = [qr EXCEPT ![q] = row],
         row.account = qr[q].account, row.resolved = qr[q].resolved, budget' \in Nat, faults' \in Nat,
         UNCHANGED <<user, phone, contact, history>>
  PROVE  Grown /\ SessionsOK' /\ SignedInByScanner'
<1>1. UNCHANGED <<user, phone, contact, opened, sent, identified, signedIn>> /\ row # Null
  BY NullAssumption DEF history
<1>2. qr \in [QrSessions -> QrRows \cup {Null}]
  BY DEF AuthInv, TypeOK
<1>3. Grown
  BY <1>1, <1>2 DEF AuthInv, TypeOK, Grown
<1>4. KeepsQrs /\ KeepsPhones
  BY <1>1, <1>2 DEF KeepsQrs, KeepsPhones
<1>. QED  BY <1>1, <1>3, <1>4, SessionsStay, SignedStays

LEMMA QrStatus ==
  ASSUME AuthInv, NEW q \in QrSessions, NEW status \in QrStatuses, qr[q] # Null, SetQr(q, status),
         budget' \in Nat, faults' \in Nat, UNCHANGED <<user, phone, contact, history>>
  PROVE  Grown /\ SessionsOK' /\ SignedInByScanner'
<1> DEFINE row == [qr[q] EXCEPT !.status = status]
<1>1. qr[q] \in QrRows  BY DEF AuthInv, TypeOK
<1>2. row \in QrRows /\ row.account = qr[q].account /\ row.resolved = qr[q].resolved
  BY <1>1 DEF QrRows
<1>3. qr' = [qr EXCEPT ![q] = row]  BY DEF SetQr
<1> HIDE DEF row
<1>. QED  BY <1>2, <1>3, QrRewritten

\* The rows of a handler at work.
LEMMA HandlerRows ==
  ASSUME AuthInv, NEW r \in Requests
  PROVE  HandlerHasRows(r) /\ HandlerKnows(r) /\ call[r] \in CallRecords
BY DEF AuthInv, HandlersOK, TypeOK

\* A bot's handler goes on with the sessions of the contact.
LEMMA BotGoesOn ==
  ASSUME AuthInv, Grown, NEW r \in Requests, call[r].bot, call[r].pc # "commitPhone",
         NEW pc \in {"phoneSession", "markFailed"}, Goto(r, pc)
  PROVE  OnlyHandler(r) /\ HandlerHasRows(r)' /\ HandlerKnows(r)'
<1>1. HandlerHasRows(r) /\ HandlerKnows(r)  BY HandlerRows
<1>2. OnlyHandler(r) /\ KeepsRecord(r) /\ call'[r].pc = pc
  BY AuthGoto DEF AuthPcs
<1>3. call'[r].o = Null /\ sent \subseteq sent'
  BY <1>1, <1>2 DEF HandlerKnows, KeepsRecord, Grown
<1>4. HandlerHasRows(r)'
  BY <1>2, <1>3 DEF HandlerHasRows, QrPcs, PhonePcs, AccountPcs, NumberPcs, UserPcs
<1>5. HandlerKnows(r)'
  BY <1>1, <1>2, <1>3 DEF HandlerKnows, KeepsRecord, BotPcs, MatchedPcs
<1>. QED  BY <1>2, <1>4, <1>5

LEMMA ExpireQrStep ==
  ASSUME AuthInv, NEW r \in Requests, ExpireQr(r)
  PROVE  AuthInv'
<1>1. call[r].q \in QrSessions /\ qr[call[r].q] # Null
  BY HandlerRows DEF HandlerHasRows, QrPcs, ExpireQr, Step, At
<1>2. Grown /\ SessionsOK' /\ SignedInByScanner'
  BY <1>1, QrStatus, BoundsStay DEF ExpireQr, QrStatuses
<1>. QED  BY <1>2, AuthReturn, HandlerStep DEF ExpireQr

LEMMA CancelQrWriteStep ==
  ASSUME AuthInv, NEW r \in Requests, CancelQrWrite(r)
  PROVE  AuthInv'
<1>1. call[r].q \in QrSessions /\ qr[call[r].q] # Null
  BY HandlerRows DEF HandlerHasRows, QrPcs, CancelQrWrite, Step, At
<1>2. Grown /\ SessionsOK' /\ SignedInByScanner'
  BY <1>1, QrStatus, BoundsStay DEF CancelQrWrite, QrStatuses
<1>. QED  BY <1>2, AuthReturn, HandlerStep DEF CancelQrWrite

LEMMA FailQrStep ==
  ASSUME AuthInv, NEW r \in Requests, FailQr(r)
  PROVE  AuthInv'
<1>1. call[r].q \in QrSessions /\ qr[call[r].q] # Null /\ call[r].bot /\ call[r].pc # "commitPhone"
  BY HandlerRows DEF HandlerHasRows, HandlerKnows, BotPcs, QrPcs, FailQr, Step, At
<1>2. Grown /\ SessionsOK' /\ SignedInByScanner'
  BY <1>1, QrStatus, BoundsStay DEF FailQr, QrStatuses
<1>. QED  BY <1>1, <1>2, BotGoesOn, HandlerStep DEF FailQr

LEMMA ConsumeStep ==
  ASSUME AuthInv, NEW r \in Requests, Consume(r)
  PROVE  AuthInv'
<1>1. call[r].q \in QrSessions /\ qr[call[r].q] # Null
  BY HandlerRows DEF HandlerHasRows, QrPcs, Consume, Step, At
<1>2. Grown /\ SessionsOK' /\ SignedInByScanner'
  <2>1. CASE qr[call[r].q].status = "VERIFIED"
    BY <1>1, <2>1, QrStatus, BoundsStay DEF Consume, QrStatuses, SetQr
  <2>2. CASE qr[call[r].q].status # "VERIFIED"
    BY <2>2, OnlyReads, BoundsStay DEF Consume, tables
  <2>. QED  BY <2>1, <2>2
<1>. QED  BY <1>2, AuthReturn, HandlerStep DEF Consume

\* The session is read, the tokens are issued for the user it names.
LEMMA IssueStep ==
  ASSUME AuthInv, NEW r \in Requests, Issue(r)
  PROVE  AuthInv'
<1> PICK q, u : q = call[r].q /\ u = call[r].u  OBVIOUS
<1>1. HandlerHasRows(r) /\ HandlerKnows(r) /\ call[r].pc = "issue"
  BY HandlerRows DEF Issue, Step, At
<1>2. q \in QrSessions /\ qr[q] # Null /\ u \in Users /\ Scanned(q, u)
  BY <1>1 DEF HandlerHasRows, HandlerKnows, QrPcs
<1>3. UNCHANGED <<tables, opened, sent, identified>> /\ signedIn' = signedIn \cup {<<q, u>>}
  BY DEF Issue
<1>4. Grown
  BY <1>2, <1>3, BoundsStay DEF AuthInv, TypeOK, Grown, tables, Issue
<1>5. SessionsOK'
  <2>1. KeepsQrs /\ KeepsPhones  BY <1>3 DEF KeepsQrs, KeepsPhones, tables
  <2>. QED  BY <1>4, <2>1, SessionsStay
<1>6. SignedInByScanner'
  BY <1>2, <1>3 DEF AuthInv, SignedInByScanner, Scanned
<1>7. OnlyHandler(r) /\ KeepsRecord(r) /\ call'[r].pc = "consume"
  BY AuthGoto DEF Issue, AuthPcs
<1>8. call'[r].o = Null /\ ~(call[r].bot /\ ~<<call[r].a, call[r].p>> \in sent)
  BY <1>1, <1>7 DEF HandlerKnows, KeepsRecord
<1>9. HandlerHasRows(r)'
  BY <1>2, <1>3, <1>7, <1>8
  DEF HandlerHasRows, KeepsRecord, QrPcs, PhonePcs, AccountPcs, NumberPcs, UserPcs, tables
<1>10. HandlerKnows(r)'
  BY <1>1, <1>3, <1>7, <1>8 DEF HandlerKnows, KeepsRecord, BotPcs, MatchedPcs
<1>. QED  BY <1>4, <1>5, <1>6, <1>7, <1>9, <1>10, HandlerStep

\* The account that opens the code becomes the account of the session.
LEMMA BindQrWriteStep ==
  ASSUME AuthInv, NEW r \in Requests, BindQrWrite(r)
  PROVE  AuthInv'
<1> PICK q, a : q = call[r].q /\ a = call[r].a  OBVIOUS
<1> DEFINE row == [qr[q] EXCEPT !.account = a, !.status = "AWAITING_CONTACT"]
<1>1. q \in QrSessions /\ qr[q] # Null /\ a \in Accounts
  BY HandlerRows DEF HandlerHasRows, QrPcs, AccountPcs, BindQrWrite, Step, At
<1>2. qr \in [QrSessions -> QrRows \cup {Null}] /\ qr[q] \in QrRows
  BY <1>1 DEF AuthInv, TypeOK
<1>3. row \in QrRows /\ row.account = a /\ row.resolved = qr[q].resolved
  BY <1>1, <1>2 DEF QrRows, QrStatuses
<1>4. /\ qr' = [qr EXCEPT ![q] = row] /\ opened' = opened \cup {<<q, a>>}
      /\ UNCHANGED <<user, phone, contact, sent, identified, signedIn>>
  BY <1>1, <1>2 DEF BindQrWrite
<1> HIDE DEF row
<1>5. Grown
  BY <1>1, <1>2, <1>3, <1>4, NullAssumption, BoundsStay DEF AuthInv, TypeOK, Grown, BindQrWrite
<1>6. SessionsOK'
  <2>1. KeepsPhones  BY <1>4 DEF KeepsPhones
  <2>2. ASSUME NEW x \in QrSessions PROVE QrOK(x)'
    <3>1. CASE x = q
      <4>1. qr'[x] = row /\ QrOK(q)  BY <1>1, <1>2, <1>4, <3>1 DEF AuthInv, SessionsOK
      <4>2. PICK w : w = qr[q].resolved  OBVIOUS
      <4>3. w # Null => Scanned(q, w)'  BY <1>1, <1>5, <4>1, <4>2, ScannedStays DEF QrOK
      <4>. QED  BY <1>3, <1>4, <3>1, <4>1, <4>2, <4>3 DEF QrOK
    <3>2. CASE x # q
      BY <1>2, <1>4, <1>5, <3>2, QrsStay
    <3>. QED  BY <3>1, <3>2
  <2>. QED  BY <1>5, <2>1, <2>2, PhoneStays DEF SessionsOK, KeepsPhones
<1>. QED  BY <1>4, <1>5, <1>6, SignedStays, AuthReturn, HandlerStep DEF BindQrWrite

\* The user is written in the session the account opened.
LEMMA VerifyQrStep ==
  ASSUME AuthInv, NEW r \in Requests, VerifyQr(r)
  PROVE  AuthInv'
<1> PICK q, u, a : q = call[r].q /\ u = call[r].u /\ a = call[r].a  OBVIOUS
<1> DEFINE row == [qr[q] EXCEPT !.status = "VERIFIED", !.resolved = u]
<1>0. HandlerHasRows(r) /\ HandlerKnows(r) /\ call[r].pc = "verifyQr"
  BY HandlerRows DEF VerifyQr, Step, At
<1>1. q \in QrSessions /\ qr[q] # Null /\ u \in Users /\ a \in Accounts /\ call[r].bot
  BY <1>0 DEF HandlerHasRows, HandlerKnows, BotPcs, QrPcs, UserPcs
<1>2. <<q, a>> \in opened /\ <<a, u>> \in identified
  BY <1>0 DEF HandlerKnows
<1>3. qr \in [QrSessions -> QrRows \cup {Null}] /\ qr[q] \in QrRows
  BY <1>1 DEF AuthInv, TypeOK
<1>4. row \in QrRows /\ row.account = qr[q].account /\ row.resolved = u
  BY <1>1, <1>3 DEF QrRows, QrStatuses
<1>5. /\ qr' = [qr EXCEPT ![q] = row]
      /\ UNCHANGED <<user, phone, contact, opened, sent, identified, signedIn>>
  BY <1>1, <1>3 DEF VerifyQr, history
<1> HIDE DEF row
<1>6. Grown
  BY <1>1, <1>3, <1>4, <1>5, NullAssumption, BoundsStay DEF AuthInv, TypeOK, Grown, VerifyQr
<1>7. SessionsOK'
  <2>1. KeepsPhones  BY <1>5 DEF KeepsPhones
  <2>2. ASSUME NEW x \in QrSessions PROVE QrOK(x)'
    <3>1. CASE x = q
      <4>1. qr'[x] = row /\ QrOK(q)  BY <1>1, <1>3, <1>5, <3>1 DEF AuthInv, SessionsOK
      <4>2. Scanned(q, u)'  BY <1>1, <1>2, <1>5 DEF Scanned
      <4>. QED  BY <1>1, <1>4, <1>5, <3>1, <4>1, <4>2 DEF QrOK
    <3>2. CASE x # q
      BY <1>3, <1>5, <1>6, <3>2, QrsStay
    <3>. QED  BY <3>1, <3>2
  <2>. QED  BY <1>6, <2>1, <2>2, PhoneStays DEF SessionsOK, KeepsPhones
<1>8. OnlyHandler(r) /\ HandlerHasRows(r)' /\ HandlerKnows(r)'
  BY <1>0, <1>1, <1>6, BotGoesOn DEF VerifyQr
<1>. QED  BY <1>5, <1>6, <1>7, <1>8, SignedStays, HandlerStep

LEMMA QrExpiresStep ==
  ASSUME AuthInv, NEW q \in QrSessions, QrExpires(q)
  PROVE  AuthInv'
<1> DEFINE row == [qr[q] EXCEPT !.expired = TRUE]
<1>1. qr[q] \in QrRows /\ qr[q] # Null  BY DEF AuthInv, TypeOK, QrExpires
<1>2. row \in QrRows /\ row.account = qr[q].account /\ row.resolved = qr[q].resolved
  BY <1>1 DEF QrRows
<1>3. /\ qr' = [qr EXCEPT ![q] = row] /\ budget' \in Nat /\ faults' \in Nat
      /\ UNCHANGED <<user, phone, contact, history>> /\ call' = call
  BY DEF QrExpires, AuthInv, TypeOK
<1> HIDE DEF row
<1>. QED  BY <1>1, <1>2, <1>3, QrRewritten, NoHandlerStep

-----------------------------------------------------------------------------
(* What the handlers write in the rows of the phone sessions.                *)

LEMMA ExpirePhoneStep ==
  ASSUME AuthInv, NEW r \in Requests, ExpirePhone(r)
  PROVE  AuthInv'
<1>1. call[r].s \in PhoneSessions /\ phone[call[r].s] # Null
  BY HandlerRows DEF HandlerHasRows, PhonePcs, ExpirePhone, Step, At
<1>2. Grown /\ SessionsOK' /\ SignedInByScanner'
  BY <1>1, PhoneStatus, BoundsStay DEF ExpirePhone
<1>. QED  BY <1>2, AuthReturn, HandlerStep DEF ExpirePhone

LEMMA FailPhoneStep ==
  ASSUME AuthInv, NEW r \in Requests, FailPhone(r)
  PROVE  AuthInv'
<1>1. call[r].s \in PhoneSessions /\ phone[call[r].s] # Null
  BY HandlerRows DEF HandlerHasRows, PhonePcs, FailPhone, Step, At
<1>2. Grown /\ SessionsOK' /\ SignedInByScanner'
  BY <1>1, PhoneStatus, BoundsStay DEF FailPhone
<1>. QED  BY <1>2, AuthReturn, HandlerStep DEF FailPhone

LEMMA BindPhoneWriteStep ==
  ASSUME AuthInv, NEW r \in Requests, BindPhoneWrite(r)
  PROVE  AuthInv'
<1> PICK s, a : s = call[r].s /\ a = call[r].a  OBVIOUS
<1> DEFINE row == [phone[s] EXCEPT !.account = a]
<1>1. s \in PhoneSessions /\ phone[s] # Null /\ a \in Accounts
  BY HandlerRows DEF HandlerHasRows, PhonePcs, AccountPcs, BindPhoneWrite, Step, At
<1>2. phone \in [PhoneSessions -> PhoneRows \cup {Null}] /\ phone[s] \in PhoneRows
  BY <1>1 DEF AuthInv, TypeOK
<1>3. /\ row \in PhoneRows /\ row.account = a /\ row.user = phone[s].user /\ row.phone = phone[s].phone
      /\ row.status = phone[s].status
  BY <1>1, <1>2 DEF PhoneRows
<1>4. /\ phone' = [phone EXCEPT ![s] = row] /\ opened' = opened \cup {<<s, a>>}
      /\ UNCHANGED <<user, qr, contact, sent, identified, signedIn>>
  BY DEF BindPhoneWrite
<1> HIDE DEF row
<1>5. Grown
  BY <1>1, <1>2, <1>3, <1>4, NullAssumption, BoundsStay DEF AuthInv, TypeOK, Grown, BindPhoneWrite
<1>6. SessionsOK'
  <2>1. KeepsQrs  BY <1>4 DEF KeepsQrs
  <2>2. ASSUME NEW x \in PhoneSessions PROVE PhoneOK(x)'
    <3>1. CASE x = s
      <4>1. phone'[x] = row /\ PhoneOK(s)  BY <1>1, <1>2, <1>4, <3>1 DEF AuthInv, SessionsOK
      <4>2. PICK p : p = phone[s].phone  OBVIOUS
      <4>3. phone[s].status = "VERIFIED" => Answered(s, p)'
        BY <1>1, <1>5, <4>1, <4>2, ScannedStays DEF PhoneOK
      <4>4. user'[row.user] # Null  BY <1>1, <1>3, <1>4, <4>1 DEF PhoneOK
      <4>. QED  BY <1>3, <1>4, <3>1, <4>1, <4>2, <4>3, <4>4 DEF PhoneOK
    <3>2. CASE x # s
      BY <1>2, <1>4, <1>5, <3>2, PhoneStays
    <3>. QED  BY <3>1, <3>2
  <2>. QED  BY <1>5, <2>1, <2>2, QrsStay DEF SessionsOK, KeepsQrs
<1>. QED  BY <1>4, <1>5, <1>6, SignedStays, AuthReturn, HandlerStep DEF BindPhoneWrite

\* The pending sessions of the user are cancelled.
LEMMA ReplacePendingStep ==
  ASSUME AuthInv, NEW r \in Requests, ReplacePending(r)
  PROVE  AuthInv'
<1>1. HandlerHasRows(r) /\ HandlerKnows(r) /\ call[r].pc = "replace"
  BY HandlerRows DEF ReplacePending, Step, At
<1>2. phone \in [PhoneSessions -> PhoneRows \cup {Null}]  BY DEF AuthInv, TypeOK
<1>3. UNCHANGED <<user, qr, contact, opened, sent, identified, signedIn>>
  BY DEF ReplacePending, history
<1>4. ASSUME NEW s \in PhoneSessions
      PROVE  /\ phone'[s] \in PhoneRows \cup {Null} /\ (phone[s] # Null <=> phone'[s] # Null)
             /\ phone[s] # Null =>
                  /\ phone'[s].account = phone[s].account /\ phone'[s].user = phone[s].user
                  /\ phone'[s].phone = phone[s].phone
                  /\ phone'[s].status = "VERIFIED" => phone[s].status = "VERIFIED"
  <2> DEFINE row == [phone[s] EXCEPT !.status = "CANCELLED"]
  <2>1. phone[s] # Null => /\ row \in PhoneRows /\ row.account = phone[s].account /\ row.user = phone[s].user
                           /\ row.phone = phone[s].phone /\ row.status = "CANCELLED"
    BY <1>2 DEF PhoneRows
  <2>2. /\ phone'[s] = row \/ phone'[s] = phone[s]
        /\ phone[s] = Null => phone'[s] = phone[s]
    BY DEF ReplacePending
  <2> HIDE DEF row
  <2>. QED  BY <1>2, <2>1, <2>2, NullAssumption
<1>5. phone' \in [PhoneSessions -> PhoneRows \cup {Null}]
  <2>1. phone' = [s \in PhoneSessions |-> phone'[s]]  BY DEF ReplacePending
  <2>. QED  BY <1>4, <2>1
<1>6. Grown
  BY <1>3, <1>4, <1>5, BoundsStay DEF AuthInv, TypeOK, Grown, ReplacePending
<1>7. KeepsQrs /\ KeepsPhones
  BY <1>3, <1>4 DEF KeepsQrs, KeepsPhones
<1>8. OnlyHandler(r) /\ KeepsRecord(r) /\ call'[r].pc = "openPhone"
  BY AuthGoto DEF ReplacePending, AuthPcs
<1>9. HandlerHasRows(r)'
  BY <1>1, <1>3, <1>8
  DEF HandlerHasRows, KeepsRecord, QrPcs, PhonePcs, AccountPcs, NumberPcs, UserPcs
<1>10. HandlerKnows(r)'
  BY <1>1, <1>3, <1>8 DEF HandlerKnows, KeepsRecord, BotPcs, MatchedPcs
<1>. QED  BY <1>3, <1>6, <1>7, <1>8, <1>9, <1>10, SessionsStay, SignedStays, HandlerStep

\* The new session is later than every other.
LEMMA OpenPhoneStep ==
  ASSUME AuthInv, NEW r \in Requests, NEW s \in PhoneSessions, OpenPhone(r, s)
  PROVE  AuthInv'
<1> DEFINE row == [user |-> call[r].u, phone |-> call[r].p, provider |-> call[r].via,
                   account |-> Null, status |-> "PENDING", expired |-> FALSE]
<1>1. call[r].u \in Users /\ user[call[r].u] # Null /\ call[r].p \in Phones /\ call[r].via \in Providers
  BY HandlerRows DEF HandlerHasRows, NumberPcs, UserPcs, OpenPhone, Step, At
<1>2. row \in PhoneRows /\ row.user = call[r].u /\ row.account = Null /\ row.status = "PENDING"
  BY <1>1 DEF PhoneRows
<1>3. phone[s] = Null
  <2>1. ~(s < s)  BY SessionsAssumption
  <2>. QED  BY <2>1 DEF OpenPhone
<1>4. /\ phone' = [phone EXCEPT ![s] = row]
      /\ UNCHANGED <<user, qr, contact, opened, sent, identified, signedIn>>
  BY DEF OpenPhone, history
<1>5. phone \in [PhoneSessions -> PhoneRows \cup {Null}]  BY DEF AuthInv, TypeOK
<1> HIDE DEF row
<1>6. Grown
  BY <1>2, <1>3, <1>4, <1>5, BoundsStay DEF AuthInv, TypeOK, Grown, OpenPhone
<1>7. SessionsOK'
  <2>1. KeepsQrs  BY <1>4 DEF KeepsQrs
  <2>2. ASSUME NEW x \in PhoneSessions PROVE PhoneOK(x)'
    <3>1. CASE x = s
      <4>1. phone'[x] = row  BY <1>4, <1>5, <3>1
      <4>2. user'[row.user] # Null  BY <1>1, <1>2, <1>4
      <4>. QED  BY <1>2, <4>1, <4>2 DEF PhoneOK
    <3>2. CASE x # s
      BY <1>4, <1>5, <1>6, <3>2, PhoneStays
    <3>. QED  BY <3>1, <3>2
  <2>. QED  BY <1>6, <2>1, <2>2, QrsStay DEF SessionsOK, KeepsQrs
<1>. QED  BY <1>4, <1>6, <1>7, SignedStays, AuthReturn, HandlerStep DEF OpenPhone

LEMMA PhoneExpiresStep ==
  ASSUME AuthInv, NEW s \in PhoneSessions, PhoneExpires(s)
  PROVE  AuthInv'
<1> DEFINE row == [phone[s] EXCEPT !.expired = TRUE]
<1>1. /\ phone \in [PhoneSessions -> PhoneRows \cup {Null}]
      /\ phone[s] \in PhoneRows /\ phone[s] # Null
  BY DEF AuthInv, TypeOK, PhoneExpires
<1>2. /\ row \in PhoneRows /\ row.account = phone[s].account /\ row.user = phone[s].user
      /\ row.phone = phone[s].phone /\ row.status = phone[s].status
  BY <1>1 DEF PhoneRows
<1>3. /\ phone' = [phone EXCEPT ![s] = row] /\ budget' \in Nat /\ faults' \in Nat
      /\ UNCHANGED <<user, qr, contact, opened, sent, identified, signedIn>> /\ call' = call
  BY DEF PhoneExpires, AuthInv, TypeOK, history
<1> HIDE DEF row
<1>4. row # Null  BY <1>2, NullAssumption
<1>5. Grown
  BY <1>1, <1>2, <1>3, <1>4 DEF AuthInv, TypeOK, Grown
<1>6. KeepsQrs /\ KeepsPhones
  BY <1>1, <1>2, <1>3 DEF KeepsQrs, KeepsPhones
<1>. QED  BY <1>3, <1>5, <1>6, SessionsStay, SignedStays, NoHandlerStep

-----------------------------------------------------------------------------
(* The user a contact stands for.                                            *)

\* The users' rows change, the sessions do not.
LEMMA UsersGrow ==
  ASSUME AuthInv, user' \in [Users -> UserRows \cup {Null}], \A u \in Users : user[u] # Null => user'[u] # Null,
         budget' \in Nat, faults' \in Nat, identified \subseteq identified', identified' \subseteq Accounts \X Users,
         UNCHANGED <<qr, phone, contact, opened, sent, signedIn>>
  PROVE  Grown /\ SessionsOK' /\ SignedInByScanner'
<1>1. Grown
  BY DEF AuthInv, TypeOK, Grown
<1>2. KeepsQrs /\ KeepsPhones
  BY DEF KeepsQrs, KeepsPhones
<1>. QED  BY <1>1, <1>2, SessionsStay, SignedStays

\* One row changes.
LEMMA UserRewritten ==
  ASSUME AuthInv, NEW u \in Users, NEW row \in UserRows, user' = [user EXCEPT ![u] = row]
  PROVE  /\ user' \in [Users -> UserRows \cup {Null}] /\ user'[u] # Null
         /\ \A x \in Users : user[x] # Null => user'[x] # Null
BY NullAssumption DEF AuthInv, TypeOK

\* A handler goes on with another user.
Moved(r, u, pc) ==
  [pc |-> pc, bot |-> call[r].bot, q |-> call[r].q, s |-> call[r].s, a |-> call[r].a, p |-> call[r].p,
   u |-> u, o |-> call[r].o, via |-> call[r].via]

GoesOn(r, u, pc) == call' = [call EXCEPT ![r].u = u, ![r].pc = pc]

LEMMA MovedIs ==
  ASSUME AuthInv, NEW r \in Requests, NEW u, NEW pc, GoesOn(r, u, pc)
  PROVE  call' = [call EXCEPT ![r] = Moved(r, u, pc)]
<1>1. call[r] \in CallRecords
  BY DEF AuthInv, TypeOK
<1>2. [call[r] EXCEPT !.u = u] = Moved(r, u, call[r].pc)
  BY <1>1 DEF CallRecords, Moved
<1>3. [Moved(r, u, call[r].pc) EXCEPT !.pc = pc] = Moved(r, u, pc)
  BY DEF Moved
<1>4. [call[r] EXCEPT !.u = u, !.pc = pc] = [[call[r] EXCEPT !.u = u] EXCEPT !.pc = pc]
  OBVIOUS
<1>5. [call[r] EXCEPT !.u = u, !.pc = pc] = Moved(r, u, pc)
  BY <1>2, <1>3, <1>4, Zenon
<1>6. call' = [call EXCEPT ![r] = [call[r] EXCEPT !.u = u, !.pc = pc]]
  BY DEF GoesOn
<1>. QED  BY <1>5, <1>6, Zenon

LEMMA HandlerMoves ==
  ASSUME AuthInv, NEW r \in Requests, NEW u \in Users \cup {Null}, NEW pc \in AuthPcs,
         call' = [call EXCEPT ![r] = Moved(r, u, pc)]
  PROVE  /\ OnlyHandler(r) /\ call'[r].u = u /\ call'[r].pc = pc /\ call'[r].bot = call[r].bot
         /\ call'[r].a = call[r].a /\ call'[r].p = call[r].p /\ call'[r].o = call[r].o
<1>1. call \in [Requests -> CallRecords] /\ call[r] \in CallRecords
  BY DEF AuthInv, TypeOK
<1>2. Moved(r, u, pc) \in CallRecords
  BY <1>1 DEF CallRecords, AuthPcs, Moved
<1>3. OnlyHandler(r) /\ call'[r] = Moved(r, u, pc)
  BY <1>1, <1>2 DEF OnlyHandler
<1>. QED  BY <1>3 DEF Moved

\* The handler has a user: a bot goes on with the QR session, a mini-app answers.
LEMMA ReadyOK ==
  ASSUME AuthInv, Grown, NEW r \in Requests, NEW u \in Users, user'[u] # Null,
         call[r].a \in Accounts, call[r].o = Null, Ready(r, u)
  PROVE  OnlyHandler(r) /\ HandlerHasRows(r)' /\ HandlerKnows(r)'
<1>1. HandlerHasRows(r) /\ HandlerKnows(r) /\ call[r] \in CallRecords  BY HandlerRows
<1>2. CASE ~call[r].bot
  BY <1>2, AuthReturn DEF Ready
<1>3. CASE call[r].bot
  <2>1. /\ OnlyHandler(r) /\ call'[r].u = u /\ call'[r].pc = "markVerified" /\ call'[r].bot = call[r].bot
        /\ call'[r].a = call[r].a /\ call'[r].p = call[r].p /\ call'[r].o = Null
    <3>1. call' = [call EXCEPT ![r] = Moved(r, u, "markVerified")]  BY <1>3, MovedIs DEF Ready, GoesOn
    <3>2. "markVerified" \in AuthPcs  BY DEF AuthPcs
    <3>. QED  BY <3>1, <3>2, HandlerMoves
  <2>2. <<call[r].a, u>> \in identified' /\ sent' = sent
    BY DEF Ready
  <2>3. call[r].p \in Phones /\ <<call[r].a, call[r].p>> \in sent
    BY <1>1, <1>3 DEF HandlerKnows
  <2>4. OnlyHandler(r)  BY <2>1
  <2>5. HandlerHasRows(r)'
    BY <2>1 DEF HandlerHasRows, QrPcs, PhonePcs, AccountPcs, NumberPcs, UserPcs
  <2>6. HandlerKnows(r)'
    BY <1>3, <2>1, <2>2, <2>3 DEF HandlerKnows, BotPcs, MatchedPcs
  <2>. QED  BY <2>4, <2>5, <2>6
<1>. QED  BY <1>2, <1>3

LEMMA NotReadyOK ==
  ASSUME AuthInv, Grown, NEW r \in Requests, call[r].pc # "commitPhone", NotReady(r)
  PROVE  OnlyHandler(r) /\ HandlerHasRows(r)' /\ HandlerKnows(r)'
<1>1. CASE ~call[r].bot
  BY <1>1, AuthReturn DEF NotReady
<1>2. CASE call[r].bot
  BY <1>2, BotGoesOn DEF NotReady
<1>. QED  BY <1>1, <1>2

\* The steps of the resolution: what they keep in the handler's record.
ResolvePcs == {"byLink", "ownerOfPhone", "setPhone", "byPhone", "attach", "create"}

LEMMA ResolveMoves ==
  ASSUME AuthInv, Grown, NEW r \in Requests, call[r].pc \in ResolvePcs, NEW pc \in ResolvePcs,
         NEW u \in Users \cup {Null}, call' = [call EXCEPT ![r] = Moved(r, u, pc)],
         pc \in NumberPcs => call[r].p \in Phones,
         pc \in UserPcs => u \in Users /\ user'[u] # Null
  PROVE  OnlyHandler(r) /\ HandlerHasRows(r)' /\ HandlerKnows(r)'
<1>1. HandlerHasRows(r) /\ HandlerKnows(r)  BY HandlerRows
<1>2. call[r].o = Null /\ call[r].a \in Accounts
  BY <1>1 DEF HandlerKnows, HandlerHasRows, ResolvePcs, AccountPcs
<1>3. /\ OnlyHandler(r) /\ call'[r].u = u /\ call'[r].pc = pc /\ call'[r].bot = call[r].bot
      /\ call'[r].a = call[r].a /\ call'[r].p = call[r].p /\ call'[r].o = Null
  <2>1. pc \in AuthPcs  BY DEF AuthPcs, ResolvePcs
  <2>. QED  BY ZenonT(30), <1>2, <2>1, HandlerMoves
<1>4. HandlerHasRows(r)'
  <2>1. pc \notin QrPcs /\ pc \notin PhonePcs /\ pc \notin {"replace", "openPhone"}
    BY DEF ResolvePcs, QrPcs, PhonePcs
  <2>. QED  BY <1>2, <1>3, <2>1 DEF HandlerHasRows
<1>5. HandlerKnows(r)'
  BY <1>1, <1>3 DEF HandlerKnows, BotPcs, MatchedPcs, ResolvePcs, Grown
<1>. QED  BY <1>3, <1>4, <1>5

\* What a handler of the resolution has.
LEMMA ResolveRows ==
  ASSUME AuthInv, NEW r \in Requests, call[r].pc \in ResolvePcs
  PROVE  /\ call[r].a \in Accounts /\ call[r].o = Null /\ call[r].pc # "commitPhone"
         /\ call[r].p \in Phones \cup {Null} /\ call[r].u \in Users \cup {Null}
         /\ call[r].pc \in NumberPcs => call[r].p \in Phones
         /\ call[r].pc \in UserPcs => call[r].u \in Users /\ user[call[r].u] # Null
<1>1. HandlerHasRows(r) /\ HandlerKnows(r) /\ call[r] \in CallRecords  BY HandlerRows
<1>. QED  BY <1>1 DEF HandlerHasRows, HandlerKnows, ResolvePcs, AccountPcs, CallRecords

\* The same user is resolved further.
LEMMA ResolveGoto ==
  ASSUME AuthInv, NEW r \in Requests, NEW pc, Goto(r, pc)
  PROVE  call' = [call EXCEPT ![r] = Moved(r, call[r].u, pc)]
<1>1. call[r] \in CallRecords  BY DEF AuthInv, TypeOK
<1>2. [call[r] EXCEPT !.pc = pc] = Moved(r, call[r].u, pc)
  BY <1>1 DEF CallRecords, Moved
<1>3. call' = [call EXCEPT ![r] = [call[r] EXCEPT !.pc = pc]]
  BY DEF Goto
<1>. QED  BY <1>2, <1>3, Zenon

LEMMA FindActiveStep ==
  ASSUME AuthInv, NEW r \in Requests, FindActive(r)
  PROVE  AuthInv'
<1>1. HandlerHasRows(r) /\ HandlerKnows(r) /\ call[r].pc = "active" /\ call[r].bot
  BY HandlerRows DEF FindActive, Step, At, HandlerKnows, BotPcs
<1>2. Grown /\ SessionsOK' /\ SignedInByScanner'
  BY OnlyReads, BoundsStay DEF FindActive
<1>3. CASE Goto(r, "phoneSession")
  BY <1>1, <1>2, <1>3, BotGoesOn, HandlerStep
<1>4. CASE Goto(r, "byLink")
  <2>1. OnlyHandler(r) /\ KeepsRecord(r) /\ call'[r].pc = "byLink"
    BY <1>4, AuthGoto DEF AuthPcs
  <2>2. call'[r].o = Null /\ sent' = sent /\ call[r].a \in Accounts
    BY <1>1, <2>1 DEF HandlerKnows, KeepsRecord, FindActive, history
  <2>3. HandlerHasRows(r)'
    BY <2>1, <2>2 DEF HandlerHasRows, KeepsRecord, QrPcs, PhonePcs, AccountPcs, NumberPcs, UserPcs
  <2>4. HandlerKnows(r)'
    BY <1>1, <2>1, <2>2 DEF HandlerKnows, KeepsRecord, BotPcs, MatchedPcs
  <2>. QED  BY <1>2, <2>1, <2>3, <2>4, HandlerStep
<1>. QED  BY <1>3, <1>4 DEF FindActive

LEMMA ByLinkStep ==
  ASSUME AuthInv, NEW r \in Requests, ByLink(r)
  PROVE  AuthInv'
<1>1. call[r].pc = "byLink" /\ user' = user
  BY DEF ByLink, Step, At, tables
<1>2. call[r].a \in Accounts /\ call[r].o = Null /\ call[r].p \in Phones \cup {Null}
  BY <1>1, ResolveRows DEF ResolvePcs
<1>3. budget' \in Nat /\ faults' \in Nat  BY BoundsStay DEF ByLink
<1>4. ASSUME NEW u \in LinkedTo(call[r].a), Ready(r, u)
      PROVE  AuthInv'
  <2>1. u \in Users /\ user[u] # Null  BY DEF LinkedTo
  <2>2. Grown /\ SessionsOK' /\ SignedInByScanner'
    BY <1>2, <1>3, <1>4, <2>1, UsersGrow DEF ByLink, tables, Ready, AuthInv, TypeOK
  <2>. QED  BY <1>1, <1>2, <1>4, <2>1, <2>2, ReadyOK, HandlerStep
<1>5. ASSUME UNCHANGED history
      PROVE  Grown /\ SessionsOK' /\ SignedInByScanner'
  BY <1>3, <1>5, OnlyReads DEF ByLink
<1>6. ASSUME NEW u \in LinkedTo(call[r].a), call[r].p # Null, UNCHANGED history,
             call' = [call EXCEPT ![r].u = u, ![r].pc = "ownerOfPhone"]
      PROVE  AuthInv'
  <2>1. u \in Users /\ user[u] # Null  BY DEF LinkedTo
  <2>2. call' = [call EXCEPT ![r] = Moved(r, u, "ownerOfPhone")]
    <3>1. GoesOn(r, u, "ownerOfPhone")  BY <1>6 DEF GoesOn
    <3>. QED  BY <3>1, MovedIs
  <2>. QED  BY <1>1, <1>2, <1>5, <1>6, <2>1, <2>2, ResolveMoves, HandlerStep DEF ResolvePcs
<1>7. ASSUME NotReady(r)
      PROVE  AuthInv'
  BY <1>1, <1>5, <1>7, NotReadyOK, HandlerStep DEF NotReady
<1>8. ASSUME call[r].p # Null, Goto(r, "byPhone"), UNCHANGED history
      PROVE  AuthInv'
  <2>1. call[r].u \in Users \cup {Null}  BY <1>1, ResolveRows DEF ResolvePcs
  <2>2. call' = [call EXCEPT ![r] = Moved(r, call[r].u, "byPhone")]  BY <1>8, ResolveGoto
  <2>3. "byPhone" \notin UserPcs  BY DEF UserPcs
  <2>. QED  BY <1>1, <1>2, <1>5, <1>8, <2>1, <2>2, <2>3, ResolveMoves, HandlerStep DEF ResolvePcs
<1>. QED  BY <1>4, <1>6, <1>7, <1>8 DEF ByLink

LEMMA OwnerOfPhoneStep ==
  ASSUME AuthInv, NEW r \in Requests, OwnerOfPhone(r)
  PROVE  AuthInv'
<1>1. call[r].pc = "ownerOfPhone" /\ user' = user
  BY DEF OwnerOfPhone, Step, At, tables
<1>2. /\ call[r].a \in Accounts /\ call[r].o = Null /\ call[r].p \in Phones
      /\ call[r].u \in Users /\ user[call[r].u] # Null
  BY <1>1, ResolveRows DEF ResolvePcs, NumberPcs, UserPcs
<1>3. budget' \in Nat /\ faults' \in Nat  BY BoundsStay DEF OwnerOfPhone
<1>4. CASE Ready(r, call[r].u)
  <2>1. Grown /\ SessionsOK' /\ SignedInByScanner'
    BY <1>2, <1>3, <1>4, UsersGrow DEF OwnerOfPhone, tables, Ready, AuthInv, TypeOK
  <2>. QED  BY <1>1, <1>2, <1>4, <2>1, ReadyOK, HandlerStep
<1>5. CASE Goto(r, "setPhone") /\ UNCHANGED history
  <2>1. Grown /\ SessionsOK' /\ SignedInByScanner'
    BY <1>3, <1>5, OnlyReads DEF OwnerOfPhone
  <2>2. call' = [call EXCEPT ![r] = Moved(r, call[r].u, "setPhone")]  BY <1>5, ResolveGoto
  <2>. QED  BY <1>1, <1>2, <2>1, <2>2, ResolveMoves, HandlerStep DEF ResolvePcs
<1>. QED  BY <1>4, <1>5 DEF OwnerOfPhone

LEMMA ByPhoneStep ==
  ASSUME AuthInv, NEW r \in Requests, ByPhone(r)
  PROVE  AuthInv'
<1>1. call[r].pc = "byPhone" /\ user' = user
  BY DEF ByPhone, Step, At, tables
<1>2. call[r].p \in Phones /\ call[r].u \in Users \cup {Null}
  BY <1>1, ResolveRows DEF ResolvePcs, NumberPcs
<1>3. UNCHANGED history  BY DEF ByPhone, NotReady
<1>4. Grown /\ SessionsOK' /\ SignedInByScanner'
  BY <1>3, OnlyReads, BoundsStay DEF ByPhone
<1>5. ASSUME NEW u \in OwnersOf(call[r].p), call' = [call EXCEPT ![r].u = u, ![r].pc = "attach"]
      PROVE  AuthInv'
  <2>1. u \in Users /\ user[u] # Null  BY DEF OwnersOf
  <2>2. call' = [call EXCEPT ![r] = Moved(r, u, "attach")]
    <3>1. GoesOn(r, u, "attach")  BY <1>5 DEF GoesOn
    <3>. QED  BY <3>1, MovedIs
  <2>. QED  BY <1>1, <1>2, <1>4, <2>1, <2>2, ResolveMoves, HandlerStep DEF ResolvePcs
<1>6. ASSUME NotReady(r)
      PROVE  AuthInv'
  BY <1>1, <1>4, <1>6, NotReadyOK, HandlerStep
<1>7. ASSUME Goto(r, "create")
      PROVE  AuthInv'
  <2>1. call' = [call EXCEPT ![r] = Moved(r, call[r].u, "create")]  BY <1>7, ResolveGoto
  <2>2. "create" \notin UserPcs  BY DEF UserPcs
  <2>. QED  BY <1>1, <1>2, <1>4, <2>1, <2>2, ResolveMoves, HandlerStep DEF ResolvePcs
<1>. QED  BY <1>5, <1>6, <1>7 DEF ByPhone

\* The three writes of the resolution: a row of the user, then READY, or the
\* unique index refuses.
LEMMA ResolveWrites ==
  ASSUME AuthInv, NEW r \in Requests, call[r].pc \in ResolvePcs, NEW u \in Users, NEW row \in UserRows,
         \/ user' = [user EXCEPT ![u] = row] /\ Ready(r, u)
         \/ user' = user /\ NotReady(r),
         UNCHANGED <<qr, phone, contact>>, budget' \in Nat, faults' \in Nat
  PROVE  AuthInv'
<1>1. call[r].a \in Accounts /\ call[r].o = Null /\ call[r].pc # "commitPhone"
  BY ResolveRows
<1>2. CASE user' = [user EXCEPT ![u] = row] /\ Ready(r, u)
  <2>1. /\ user' \in [Users -> UserRows \cup {Null}] /\ user'[u] # Null
        /\ \A x \in Users : user[x] # Null => user'[x] # Null
    BY <1>2, UserRewritten
  <2>2. /\ identified \subseteq identified' /\ identified' \subseteq Accounts \X Users
        /\ UNCHANGED <<opened, sent, signedIn>>
    BY <1>1, <1>2 DEF Ready, AuthInv, TypeOK
  <2>3. Grown /\ SessionsOK' /\ SignedInByScanner'
    BY <2>1, <2>2, UsersGrow
  <2>. QED  BY <1>1, <1>2, <2>1, <2>3, ReadyOK, HandlerStep
<1>3. CASE user' = user /\ NotReady(r)
  <2>1. Grown /\ SessionsOK' /\ SignedInByScanner'
    BY <1>3, OnlyReads DEF NotReady, tables
  <2>. QED  BY <1>1, <1>3, <2>1, NotReadyOK, HandlerStep
<1>. QED  BY <1>2, <1>3

LEMMA SetPhoneStep ==
  ASSUME AuthInv, NEW r \in Requests, SetPhone(r)
  PROVE  AuthInv'
<1>1. call[r].pc = "setPhone"
  BY DEF SetPhone, Step, At
<1>2. call[r].p \in Phones /\ call[r].u \in Users /\ user[call[r].u] # Null
  BY <1>1, ResolveRows DEF ResolvePcs, NumberPcs, UserPcs
<1>3. user[call[r].u] \in UserRows
  BY <1>2 DEF AuthInv, TypeOK
<1> DEFINE row == [user[call[r].u] EXCEPT !.phone = call[r].p]
<1>4. row \in UserRows  BY <1>2, <1>3 DEF UserRows
<1>5. \/ user' = [user EXCEPT ![call[r].u] = row] /\ Ready(r, call[r].u)
      \/ user' = user /\ NotReady(r)
  BY DEF SetPhone
<1> HIDE DEF row
<1>. QED  BY <1>1, <1>2, <1>4, <1>5, ResolveWrites, BoundsStay DEF SetPhone, ResolvePcs

LEMMA AttachStep ==
  ASSUME AuthInv, NEW r \in Requests, Attach(r)
  PROVE  AuthInv'
<1>1. call[r].pc = "attach"
  BY DEF Attach, Step, At
<1>2. call[r].a \in Accounts /\ call[r].u \in Users /\ user[call[r].u] # Null
  BY <1>1, ResolveRows DEF ResolvePcs, UserPcs
<1>3. user[call[r].u] \in UserRows
  BY <1>2 DEF AuthInv, TypeOK
<1> DEFINE row == [user[call[r].u] EXCEPT !.link[ProviderOf[call[r].a]] = call[r].a]
<1>4. row \in UserRows  BY <1>2, <1>3, ProviderAssumption DEF UserRows
<1>5. \/ user' = [user EXCEPT ![call[r].u] = row] /\ Ready(r, call[r].u)
      \/ user' = user /\ NotReady(r)
  BY DEF Attach
<1> HIDE DEF row
<1>. QED  BY <1>1, <1>2, <1>4, <1>5, ResolveWrites, BoundsStay DEF Attach, ResolvePcs

LEMMA CreateStep ==
  ASSUME AuthInv, NEW r \in Requests, NEW u \in Users, Create(r, u)
  PROVE  AuthInv'
<1>1. call[r].pc = "create"
  BY DEF Create, Step, At
<1>2. call[r].a \in Accounts /\ call[r].p \in Phones
  BY <1>1, ResolveRows DEF ResolvePcs, NumberPcs
<1> DEFINE row == [phone |-> call[r].p,
                   link |-> [v \in Providers |-> IF v = ProviderOf[call[r].a] THEN call[r].a ELSE Null]]
<1>4. row \in UserRows  BY <1>2 DEF UserRows
<1>5. \/ user' = [user EXCEPT ![u] = row] /\ Ready(r, u)
      \/ user' = user /\ NotReady(r)
  BY DEF Create
<1> HIDE DEF row
<1>. QED  BY <1>1, <1>4, <1>5, ResolveWrites, BoundsStay DEF Create, ResolvePcs

-----------------------------------------------------------------------------
(* The sessions a contact answers.                                           *)

\* A handler has found a QR session of its account.
LEMMA FoundIs ==
  ASSUME AuthInv, NEW r \in Requests, NEW q \in QrSessions, NEW pc \in AuthPcs,
         call' = [call EXCEPT ![r] = [[call[r] EXCEPT !.q = q] EXCEPT !.pc = pc]]
  PROVE  /\ OnlyHandler(r) /\ call'[r].q = q /\ call'[r].pc = pc /\ call'[r].bot = call[r].bot
         /\ call'[r].a = call[r].a /\ call'[r].p = call[r].p /\ call'[r].u = call[r].u /\ call'[r].o = call[r].o
<1>1. call \in [Requests -> CallRecords] /\ call[r] \in CallRecords
  BY DEF AuthInv, TypeOK
<1>2. PICK x : x = [call[r] EXCEPT !.q = q]  OBVIOUS
<1>3. /\ x \in CallRecords /\ x.q = q /\ x.bot = call[r].bot
      /\ x.a = call[r].a /\ x.p = call[r].p /\ x.u = call[r].u /\ x.o = call[r].o
  BY <1>1, <1>2 DEF CallRecords
<1>4. PICK c : c = [x EXCEPT !.pc = pc]  OBVIOUS
<1>5. /\ c \in CallRecords /\ c.pc = pc /\ c.q = x.q /\ c.bot = x.bot
      /\ c.a = x.a /\ c.p = x.p /\ c.u = x.u /\ c.o = x.o
  BY <1>3, <1>4 DEF CallRecords, AuthPcs
<1>6. call' = [call EXCEPT ![r] = c]  BY <1>2, <1>4, Zenon
<1>7. OnlyHandler(r) /\ call'[r] = c
  <2>1. c \in CallRecords  BY <1>5
  <2>. QED  BY <1>1, <1>6, <2>1 DEF OnlyHandler
<1>. QED  BY <1>3, <1>5, <1>7

LEMMA MarkQrStep ==
  ASSUME AuthInv, NEW r \in Requests, MarkQr(r)
  PROVE  AuthInv'
<1>1. HandlerHasRows(r) /\ HandlerKnows(r) /\ call[r].pc \in {"markVerified", "markFailed"} /\ call[r].bot
  BY HandlerRows DEF MarkQr, HandlerKnows, BotPcs
<1>2. budget' \in Nat /\ faults' \in Nat  BY DEF MarkQr, AuthInv, TypeOK
<1>3. Grown /\ SessionsOK' /\ SignedInByScanner'
  BY <1>2, OnlyReads DEF MarkQr
<1>4. CASE Goto(r, "phoneSession")
  BY <1>1, <1>3, <1>4, BotGoesOn, HandlerStep
<1>5. ASSUME NEW q \in ActiveSessions(call[r].a),
             call' = [call EXCEPT ![r].q = q, ![r].pc = IF @ = "markVerified" THEN "verifyQr" ELSE "failQr"]
      PROVE  AuthInv'
  <2> PICK pc : pc = IF call[r].pc = "markVerified" THEN "verifyQr" ELSE "failQr"  OBVIOUS
  <2>1. pc \in {"verifyQr", "failQr"} /\ (pc = "verifyQr" => call[r].pc = "markVerified")
    OBVIOUS
  <2>2. /\ q \in QrSessions /\ qr[q] # Null /\ qr[q].account = call[r].a /\ QrOK(q)
        /\ call[r].a \in Accounts /\ call[r].a # Null
    BY <1>1, NullAssumption DEF ActiveSessions, AuthInv, SessionsOK, HandlerKnows
  <2>3. <<q, call[r].a>> \in opened  BY <2>2 DEF QrOK
  <2>4. call' = [call EXCEPT ![r] = [[call[r] EXCEPT !.q = q] EXCEPT !.pc = pc]]
    <3>1. call[r] \in CallRecords  BY DEF AuthInv, TypeOK
    <3>2. call' = [call EXCEPT ![r] = [call[r] EXCEPT !.q = q,
                     !.pc = IF call[r].pc = "markVerified" THEN "verifyQr" ELSE "failQr"]]
      BY <1>5, <3>1 DEF CallRecords
    <3>. QED  BY <3>2
  <2>5. /\ OnlyHandler(r) /\ call'[r].q = q /\ call'[r].pc = pc /\ call'[r].bot = call[r].bot
        /\ call'[r].a = call[r].a /\ call'[r].p = call[r].p /\ call'[r].u = call[r].u /\ call'[r].o = call[r].o
    <3>1. pc \in AuthPcs  BY <2>1 DEF AuthPcs
    <3>. QED  BY <2>2, <2>4, <3>1, FoundIs
  <2>6. call[r].o = Null /\ UNCHANGED <<user, qr, sent, identified, opened>>
    BY <1>1 DEF HandlerKnows, MarkQr, tables, history
  <2>7. HandlerHasRows(r)'
    BY <1>1, <2>1, <2>2, <2>5, <2>6
    DEF HandlerHasRows, QrPcs, PhonePcs, AccountPcs, NumberPcs, UserPcs
  <2>8. HandlerKnows(r)'
    BY <1>1, <2>1, <2>3, <2>5, <2>6 DEF HandlerKnows, BotPcs, MatchedPcs
  <2>. QED  BY <1>3, <2>5, <2>7, <2>8, HandlerStep
<1>. QED  BY <1>4, <1>5 DEF MarkQr

\* A handler has found a phone session of its account.
FoundPhone(r, s, u, pc) ==
  call' = [call EXCEPT ![r] = [[[call[r] EXCEPT !.s = s] EXCEPT !.u = u] EXCEPT !.pc = pc]]

LEMMA FoundPhoneIs ==
  ASSUME AuthInv, NEW r \in Requests, NEW s \in PhoneSessions, NEW u \in Users, NEW pc \in AuthPcs,
         FoundPhone(r, s, u, pc)
  PROVE  /\ OnlyHandler(r) /\ call'[r].s = s /\ call'[r].pc = pc /\ call'[r].bot = call[r].bot
         /\ call'[r].a = call[r].a /\ call'[r].p = call[r].p /\ call'[r].u = u /\ call'[r].o = call[r].o
<1>1. call \in [Requests -> CallRecords] /\ call[r] \in CallRecords
  BY DEF AuthInv, TypeOK
<1>2. PICK y : y = [call[r] EXCEPT !.s = s]  OBVIOUS
<1>3. /\ y \in CallRecords /\ y.s = s /\ y.bot = call[r].bot
      /\ y.a = call[r].a /\ y.p = call[r].p /\ y.o = call[r].o
  BY <1>1, <1>2 DEF CallRecords
<1>4. PICK x : x = [y EXCEPT !.u = u]  OBVIOUS
<1>5. /\ x \in CallRecords /\ x.u = u /\ x.s = y.s /\ x.bot = y.bot
      /\ x.a = y.a /\ x.p = y.p /\ x.o = y.o
  BY <1>3, <1>4 DEF CallRecords
<1>6. PICK c : c = [x EXCEPT !.pc = pc]  OBVIOUS
<1>7. /\ c \in CallRecords /\ c.pc = pc /\ c.s = x.s /\ c.bot = x.bot
      /\ c.a = x.a /\ c.p = x.p /\ c.u = x.u /\ c.o = x.o
  BY <1>5, <1>6 DEF CallRecords, AuthPcs
<1>8. call' = [call EXCEPT ![r] = c]  BY <1>2, <1>4, <1>6, Zenon DEF FoundPhone
<1>9. OnlyHandler(r) /\ call'[r] = c
  <2>1. c \in CallRecords  BY <1>7
  <2>. QED  BY <1>1, <1>8, <2>1 DEF OnlyHandler
<1>. QED  BY <1>3, <1>5, <1>7, <1>9

LEMMA FindPhoneSessionStep ==
  ASSUME AuthInv, NEW r \in Requests, FindPhoneSession(r)
  PROVE  AuthInv'
<1>1. HandlerHasRows(r) /\ HandlerKnows(r) /\ call[r].pc = "phoneSession" /\ call[r].bot
  BY HandlerRows DEF FindPhoneSession, Step, At, HandlerKnows, BotPcs
<1>2. Grown /\ SessionsOK' /\ SignedInByScanner'
  BY OnlyReads, BoundsStay DEF FindPhoneSession
<1>3. CASE Return(r)
  BY <1>2, <1>3, AuthReturn, HandlerStep
<1>4. ASSUME NEW s \in PendingSessions(call[r].a),
             call' = [call EXCEPT ![r].s = s, ![r].u = phone[s].user, ![r].pc =
                        IF phone[s].expired THEN "expirePhone"
                        ELSE IF ~PhoneMatches(s, call[r].p) THEN "failPhone" ELSE "phoneOwner"]
      PROVE  AuthInv'
  <2> PICK u, pc : u = phone[s].user
                     /\ pc = IF phone[s].expired THEN "expirePhone"
                             ELSE IF ~PhoneMatches(s, call[r].p) THEN "failPhone" ELSE "phoneOwner"
    OBVIOUS
  <2>1. /\ pc \in {"expirePhone", "failPhone", "phoneOwner"}
        /\ pc = "phoneOwner" => phone[s].phone = call[r].p
    BY DEF PhoneMatches
  <2>2. /\ s \in PhoneSessions /\ phone[s] # Null /\ phone[s].account = call[r].a /\ PhoneOK(s)
        /\ call[r].a \in Accounts /\ call[r].a # Null
    BY <1>1, NullAssumption DEF PendingSessions, AuthInv, SessionsOK, HandlerKnows
  <2>3. u \in Users
    BY <2>2 DEF AuthInv, TypeOK, PhoneRows
  <2>4. <<s, call[r].a>> \in opened /\ user[u] # Null  BY <2>2 DEF PhoneOK
  <2>5. FoundPhone(r, s, u, pc)
    BY <1>4 DEF FoundPhone
  <2>6. /\ OnlyHandler(r) /\ call'[r].s = s /\ call'[r].pc = pc /\ call'[r].bot = call[r].bot
        /\ call'[r].a = call[r].a /\ call'[r].p = call[r].p /\ call'[r].u = u /\ call'[r].o = call[r].o
    <3>1. pc \in AuthPcs  BY <2>1 DEF AuthPcs
    <3>. QED  BY <2>2, <2>3, <2>5, <3>1, FoundPhoneIs
  <2>7. call[r].o = Null /\ UNCHANGED <<user, phone, sent, opened>>
    BY <1>1 DEF HandlerKnows, FindPhoneSession, tables, history
  <2>8. HandlerHasRows(r)'
    BY <2>1, <2>2, <2>3, <2>4, <2>6, <2>7
    DEF HandlerHasRows, QrPcs, PhonePcs, AccountPcs, NumberPcs, UserPcs
  <2>9. HandlerKnows(r)'
    BY <1>1, <2>1, <2>4, <2>6, <2>7 DEF HandlerKnows, BotPcs, MatchedPcs
  <2>. QED  BY <1>2, <2>6, <2>8, <2>9, HandlerStep
<1>. QED  BY <1>3, <1>4 DEF FindPhoneSession

LEMMA PhoneOwnerStep ==
  ASSUME AuthInv, NEW r \in Requests, PhoneOwner(r)
  PROVE  AuthInv'
<1>1. HandlerHasRows(r) /\ HandlerKnows(r) /\ call[r].pc = "phoneOwner"
  BY HandlerRows DEF PhoneOwner, Step, At
<1>2. Grown /\ SessionsOK' /\ SignedInByScanner'
  BY OnlyReads, BoundsStay DEF PhoneOwner
<1>3. PICK pc \in {"accountOwner", "failPhone"} : Goto(r, pc)  BY DEF PhoneOwner
<1>4. OnlyHandler(r) /\ KeepsRecord(r) /\ call'[r].pc = pc
  BY <1>3, AuthGoto DEF AuthPcs
<1>5. UNCHANGED <<user, phone, sent, opened>>
  BY DEF PhoneOwner, tables, history
<1>6. HandlerHasRows(r)'
  BY <1>1, <1>4, <1>5 DEF HandlerHasRows, KeepsRecord, QrPcs, PhonePcs, AccountPcs, NumberPcs, UserPcs
<1>7. HandlerKnows(r)'
  BY <1>1, <1>4, <1>5 DEF HandlerKnows, KeepsRecord, BotPcs, MatchedPcs
<1>. QED  BY <1>2, <1>4, <1>6, <1>7, HandlerStep

\* Telegram's handler remembers the owner it will take the account from.
TakesFrom(r, o) == call' = [call EXCEPT ![r] = [[call[r] EXCEPT !.o = o] EXCEPT !.pc = "commitPhone"]]

LEMMA TakesFromIs ==
  ASSUME AuthInv, NEW r \in Requests, NEW o \in Users, TakesFrom(r, o)
  PROVE  /\ OnlyHandler(r) /\ call'[r].o = o /\ call'[r].pc = "commitPhone" /\ call'[r].bot = call[r].bot
         /\ call'[r].a = call[r].a /\ call'[r].p = call[r].p /\ call'[r].u = call[r].u /\ call'[r].s = call[r].s
<1>1. call \in [Requests -> CallRecords] /\ call[r] \in CallRecords
  BY DEF AuthInv, TypeOK
<1>2. PICK x : x = [call[r] EXCEPT !.o = o]  OBVIOUS
<1>3. /\ x \in CallRecords /\ x.o = o /\ x.bot = call[r].bot
      /\ x.a = call[r].a /\ x.p = call[r].p /\ x.u = call[r].u /\ x.s = call[r].s
  BY <1>1, <1>2 DEF CallRecords
<1>4. PICK c : c = [x EXCEPT !.pc = "commitPhone"]  OBVIOUS
<1>5. /\ c \in CallRecords /\ c.pc = "commitPhone" /\ c.o = x.o /\ c.bot = x.bot
      /\ c.a = x.a /\ c.p = x.p /\ c.u = x.u /\ c.s = x.s
  BY <1>3, <1>4 DEF CallRecords
<1>6. call' = [call EXCEPT ![r] = c]  BY <1>2, <1>4, Zenon DEF TakesFrom
<1>7. OnlyHandler(r) /\ call'[r] = c
  <2>1. c \in CallRecords  BY <1>5
  <2>. QED  BY <1>1, <1>6, <2>1 DEF OnlyHandler
<1>. QED  BY <1>3, <1>5, <1>7

LEMMA AccountOwnerStep ==
  ASSUME AuthInv, NEW r \in Requests, AccountOwner(r)
  PROVE  AuthInv'
<1>1. HandlerHasRows(r) /\ HandlerKnows(r) /\ call[r].pc = "accountOwner"
  BY HandlerRows DEF AccountOwner, Step, At
<1>2. Grown /\ SessionsOK' /\ SignedInByScanner'
  BY OnlyReads, BoundsStay DEF AccountOwner
<1>3. UNCHANGED <<user, phone, sent, opened>>
  BY DEF AccountOwner, tables, history
<1>4. ASSUME NEW pc \in {"commitPhone", "failPhone"}, Goto(r, pc)
      PROVE  AuthInv'
  <2>1. OnlyHandler(r) /\ KeepsRecord(r) /\ call'[r].pc = pc
    BY <1>4, AuthGoto DEF AuthPcs
  <2>2. HandlerHasRows(r)'
    BY <1>1, <1>3, <2>1 DEF HandlerHasRows, KeepsRecord, QrPcs, PhonePcs, AccountPcs, NumberPcs, UserPcs
  <2>3. HandlerKnows(r)'
    BY <1>1, <1>3, <2>1 DEF HandlerKnows, KeepsRecord, BotPcs, MatchedPcs
  <2>. QED  BY <1>2, <2>1, <2>2, <2>3, HandlerStep
<1>5. ASSUME NEW o \in LinkedTo(call[r].a), ~Refuses(call[r].a),
             call' = [call EXCEPT ![r].o = o, ![r].pc = "commitPhone"]
      PROVE  AuthInv'
  <2>1. o \in Users /\ user[o] # Null /\ ProviderOf[call[r].a] # "MAX"
    BY <1>5 DEF LinkedTo, Refuses
  <2>2. TakesFrom(r, o)  BY <1>5 DEF TakesFrom
  <2>3. /\ OnlyHandler(r) /\ call'[r].o = o /\ call'[r].pc = "commitPhone" /\ call'[r].bot = call[r].bot
        /\ call'[r].a = call[r].a /\ call'[r].p = call[r].p /\ call'[r].u = call[r].u /\ call'[r].s = call[r].s
    BY <2>1, <2>2, TakesFromIs
  <2>4. HandlerHasRows(r)'
    BY <1>1, <1>3, <2>1, <2>3 DEF HandlerHasRows, QrPcs, PhonePcs, AccountPcs, NumberPcs, UserPcs
  <2>5. HandlerKnows(r)'
    BY <1>1, <1>3, <2>1, <2>3 DEF HandlerKnows, BotPcs, MatchedPcs
  <2>. QED  BY <1>2, <2>3, <2>4, <2>5, HandlerStep
<1>. QED  BY <1>4, <1>5 DEF AccountOwner

\* The transaction writes the user, takes the account from its owner and
\* verifies the session: the account sent the session's number.
LEMMA CommitPhoneStep ==
  ASSUME AuthInv, NEW r \in Requests, CommitPhone(r)
  PROVE  AuthInv'
<1> PICK s, a, p, u, o : s = call[r].s /\ a = call[r].a /\ p = call[r].p /\ u = call[r].u /\ o = call[r].o
  OBVIOUS
<1>1. HandlerHasRows(r) /\ HandlerKnows(r) /\ call[r].pc = "commitPhone"
  BY HandlerRows DEF CommitPhone, Step, At
<1>2. /\ s \in PhoneSessions /\ phone[s] # Null /\ u \in Users /\ user[u] # Null
      /\ a \in Accounts /\ p \in Phones /\ (o # Null => o \in Users /\ user[o] # Null)
  BY <1>1 DEF HandlerHasRows, HandlerKnows, PhonePcs, UserPcs, BotPcs
<1>3. <<s, a>> \in opened /\ <<a, p>> \in sent /\ phone[s].phone = p
  BY <1>1 DEF HandlerKnows, BotPcs, MatchedPcs
<1>4. /\ user \in [Users -> UserRows \cup {Null}] /\ user[u] \in UserRows
      /\ phone \in [PhoneSessions -> PhoneRows \cup {Null}] /\ phone[s] \in PhoneRows
  BY <1>2 DEF AuthInv, TypeOK
<1>5. UNCHANGED <<qr, contact, opened, sent, identified, signedIn>> /\ budget' \in Nat /\ faults' \in Nat
  BY BoundsStay DEF CommitPhone, history
<1>6. CASE UNCHANGED <<user, phone>>
  <2>1. Grown /\ SessionsOK' /\ SignedInByScanner'
    BY <1>5, <1>6, OnlyReads DEF tables, history
  <2>. QED  BY <2>1, AuthReturn, HandlerStep DEF CommitPhone
<1>7. CASE PhoneFree(p, u) /\ LinkedTo(a) \subseteq {u, o}
  <2>1. PICK row : row = [user[u] EXCEPT !.phone = p, !.link[ProviderOf[a]] = a]  OBVIOUS
  <2>2. row \in UserRows  BY <1>2, <1>4, <2>1, ProviderAssumption DEF UserRows
  <2>3. PICK given : given = [user EXCEPT ![u] = row]  OBVIOUS
  <2>4. /\ given \in [Users -> UserRows \cup {Null}]
        /\ \A x \in Users : user[x] # Null => given[x] # Null
    BY <1>2, <1>4, <2>2, <2>3, NullAssumption
  <2>5. user' = IF o = Null THEN given ELSE [given EXCEPT ![o].link[ProviderOf[a]] = Null]
    <3>1. PICK g : g = [user EXCEPT ![u].phone = p, ![u].link[ProviderOf[a]] = a]  OBVIOUS
    <3>2. g = given  BY <1>2, <1>4, <2>1, <2>3, <3>1 DEF UserRows
    <3>3. user' = IF o = Null THEN g ELSE [g EXCEPT ![o].link[ProviderOf[a]] = Null]
      BY <1>7, <3>1 DEF CommitPhone
    <3>. QED  BY <3>2, <3>3
  <2>6. /\ user' \in [Users -> UserRows \cup {Null}]
        /\ \A x \in Users : user[x] # Null => user'[x] # Null
    <3>1. CASE o = Null  BY <2>4, <2>5, <3>1
    <3>2. CASE o # Null
      <4>1. given[o] \in UserRows  BY <1>2, <2>4, <3>2
      <4>2. PICK taken : taken = [given[o] EXCEPT !.link[ProviderOf[a]] = Null]  OBVIOUS
      <4>3. taken \in UserRows  BY <1>2, <4>1, <4>2, ProviderAssumption DEF UserRows
      <4>4. user' = [given EXCEPT ![o] = taken]  BY <2>5, <3>2, <4>2
      <4>. QED  BY <1>2, <2>4, <3>2, <4>3, <4>4, NullAssumption
    <3>. QED  BY <3>1, <3>2
  <2>7. PICK kept : kept = [phone[s] EXCEPT !.status = "VERIFIED"]  OBVIOUS
  <2>8. /\ kept \in PhoneRows /\ kept.user = phone[s].user /\ kept.account = phone[s].account
        /\ kept.phone = phone[s].phone
    BY <1>4, <2>7 DEF PhoneRows
  <2>9. phone' = [phone EXCEPT ![s] = kept]
    BY <1>7, <2>7 DEF CommitPhone, SetPhoneSession
  <2>10. Grown
    BY <1>2, <1>4, <1>5, <2>6, <2>8, <2>9, NullAssumption DEF Grown, AuthInv, TypeOK
  <2>11. SessionsOK'
    <3>1. KeepsQrs  BY <1>5 DEF KeepsQrs
    <3>2. ASSUME NEW x \in PhoneSessions PROVE PhoneOK(x)'
      <4>1. CASE x = s
        <5>1. phone'[x] = kept /\ PhoneOK(s)  BY <1>2, <1>4, <2>9, <4>1 DEF AuthInv, SessionsOK
        <5>2. user'[kept.user] # Null
          BY <1>2, <1>4, <2>6, <2>8, <5>1 DEF PhoneOK, PhoneRows
        <5>3. kept.account # Null => <<s, kept.account>> \in opened'
          BY <1>2, <1>5, <2>8, <5>1 DEF PhoneOK
        <5>4. Answered(s, p)'  BY <1>2, <1>3, <1>5 DEF Answered
        <5>. QED  BY <1>3, <2>8, <4>1, <5>1, <5>2, <5>3, <5>4 DEF PhoneOK
      <4>2. CASE x # s
        BY <1>4, <2>9, <2>10, <4>2, PhoneStays
      <4>. QED  BY <4>1, <4>2
    <3>. QED  BY <2>10, <3>1, <3>2, QrsStay DEF SessionsOK, KeepsQrs
  <2>. QED  BY <1>5, <2>10, <2>11, SignedStays, AuthReturn, HandlerStep DEF CommitPhone
<1>. QED  BY <1>6, <1>7 DEF CommitPhone

LEMMA LinkWriteStep ==
  ASSUME AuthInv, NEW r \in Requests, LinkWrite(r)
  PROVE  AuthInv'
<1>1. call[r].a \in Accounts /\ call[r].u \in Users /\ user[call[r].u] # Null
  BY HandlerRows DEF HandlerHasRows, AccountPcs, UserPcs, LinkWrite, Step, At
<1>2. user[call[r].u] \in UserRows  BY <1>1 DEF AuthInv, TypeOK
<1>3. PICK row : row = [user[call[r].u] EXCEPT !.link[ProviderOf[call[r].a]] = call[r].a]  OBVIOUS
<1>4. row \in UserRows  BY <1>1, <1>2, <1>3, ProviderAssumption DEF UserRows
<1>5. user' = user \/ user' = [user EXCEPT ![call[r].u] = row]
  BY <1>3 DEF LinkWrite
<1>6. /\ user' \in [Users -> UserRows \cup {Null}]
      /\ \A x \in Users : user[x] # Null => user'[x] # Null
  BY <1>1, <1>4, <1>5, UserRewritten DEF AuthInv, TypeOK
<1>7. /\ UNCHANGED <<qr, phone, contact, opened, sent, identified, signedIn>>
      /\ identified' \subseteq Accounts \X Users /\ budget' \in Nat /\ faults' \in Nat
  BY BoundsStay DEF LinkWrite, history, AuthInv, TypeOK
<1>8. Grown /\ SessionsOK' /\ SignedInByScanner'
  BY <1>6, <1>7, UsersGrow
<1>. QED  BY <1>8, AuthReturn, HandlerStep DEF LinkWrite

LEMMA FailStep ==
  ASSUME AuthInv, NEW r \in Requests, Fail(r)
  PROVE  AuthInv'
<1>1. budget' \in Nat /\ faults' \in Nat  BY DEF Fail, AuthInv, TypeOK
<1>2. Grown /\ SessionsOK' /\ SignedInByScanner'
  BY <1>1, OnlyReads DEF Fail
<1>3. CASE call[r].bot /\ call[r].pc \in Caught
  <2>1. call[r].pc # "commitPhone" /\ Goto(r, "markFailed")  BY <1>3 DEF Caught, Fail
  <2>. QED  BY <1>2, <1>3, <2>1, BotGoesOn, HandlerStep
<1>4. CASE ~(call[r].bot /\ call[r].pc \in Caught)
  BY <1>2, <1>4, AuthReturn, HandlerStep DEF Fail
<1>. QED  BY <1>3, <1>4

-----------------------------------------------------------------------------
(* Every step, and the theorems.                                             *)

LEMMA AuthStarts ==
  ASSUME Init
  PROVE  AuthInv
<1>1. TypeOK
  BY IdleCallOK, InitialUsersAssumption, BoundsAssumption DEF Init, TypeOK
<1>2. SessionsOK /\ SignedInByScanner
  BY DEF Init, SessionsOK, QrOK, PhoneOK, SignedInByScanner
<1>3. ASSUME NEW r \in Requests PROVE HandlerHasRows(r) /\ HandlerKnows(r)
  <2>1. call[r] = IdleCall  BY DEF Init
  <2>2. HandlerHasRows(r)
    BY <2>1, IdleCallOK DEF HandlerHasRows, QrPcs, PhonePcs, AccountPcs, NumberPcs, UserPcs
  <2>3. HandlerKnows(r)
    BY <2>1, IdleCallOK DEF HandlerKnows, BotPcs, MatchedPcs
  <2>. QED  BY <2>2, <2>3
<1>. QED  BY <1>1, <1>2, <1>3 DEF AuthInv, HandlersOK

LEMMA AuthNext ==
  ASSUME AuthInv, [Next]_vars
  PROVE  AuthInv'
<1>1. ASSUME NEW r \in Requests, Request(r) PROVE AuthInv'
  BY <1>1, StartQrStep, CancelQrStep, BindQrStep, CancelPhoneStep, BindPhoneStep, AppStatusStep,
     BotContactStep, AppContactStep, LinkStep, StartPhoneStep
  DEF Request
<1>2. ASSUME NEW r \in Requests, Serve(r) PROVE AuthInv'
  BY <1>2, ExpireQrStep, CancelQrWriteStep, IssueStep, ConsumeStep, BindQrWriteStep, BindPhoneWriteStep,
     FindActiveStep, ByLinkStep, OwnerOfPhoneStep, SetPhoneStep, ByPhoneStep, AttachStep, CreateStep,
     MarkQrStep, VerifyQrStep, FailQrStep, FindPhoneSessionStep, PhoneOwnerStep, AccountOwnerStep,
     CommitPhoneStep, ExpirePhoneStep, FailPhoneStep, ReplacePendingStep, OpenPhoneStep, LinkWriteStep
  DEF Serve
<1>3. CASE UNCHANGED vars
  <2>1. Grown /\ SessionsOK' /\ SignedInByScanner'
    BY <1>3, OnlyReads DEF vars, tables, history, AuthInv, TypeOK
  <2>. QED  BY <1>3, <2>1, NoHandlerStep DEF vars
<1>. QED
  BY <1>1, <1>2, <1>3, FailStep, PollQrStep, PollPhoneStep, QrExpiresStep, PhoneExpiresStep DEF Next

\* A browser is signed in only as a user for whom an account was taken that
\* opened this browser's code: what handleQrAuthStatus issues tokens for was
\* written by markLatestMessengerQrAuthSessionVerified for such an account,
\* however many handlers run at the same time.
THEOREM SignedInAsScanner == Spec => []SignedInByScanner
<1>1. AuthInv => SignedInByScanner  BY DEF AuthInv
<1>. QED  BY <1>1, AuthStarts, AuthNext, PTL DEF Spec

\* A phone is verified only by an account that opened the link of its session
\* and sent that very number (verifyPhoneByTelegramContact and its MAX twin),
\* although the session, the users and the accounts may change hands between
\* the statements of a handler.
THEOREM PhonesVerifiedByContact == Spec => []PhoneVerifiedByContact
<1>1. AuthInv => PhoneVerifiedByContact
  BY DEF AuthInv, SessionsOK, PhoneOK, Answered, PhoneVerifiedByContact
<1>. QED  BY <1>1, AuthStarts, AuthNext, PTL DEF Spec

\* Every handler finds the rows it writes, whatever else is served meanwhile.
THEOREM MessengerTypes == Spec => [](TypeOK /\ HandlersOK)
<1>1. AuthInv => TypeOK /\ HandlersOK  BY DEF AuthInv
<1>. QED  BY <1>1, AuthStarts, AuthNext, PTL DEF Spec

-----------------------------------------------------------------------------
(* Whose account it is.                                                      *)

LinksUnique == \A a \in Accounts : \A u, v \in LinkedTo(a) : u = v

\* A MAX account has the same user before and after a step.
LinksStep ==
  /\ LinksUnique'
  /\ \A a \in Accounts : ProviderOf[a] = "MAX" => \A u \in LinkedTo(a) : \A v \in LinkedTo(a)' : u = v

\* A step that links nothing.
LEMMA NothingLinked ==
  ASSUME LinksUnique, \A a \in Accounts : LinkedTo(a)' \subseteq LinkedTo(a)
  PROVE  LinksStep
BY DEF LinksUnique, LinksStep

\* A step that links an account no other user has.
LEMMA FreeLinked ==
  ASSUME LinksUnique, NEW b \in Accounts, NEW w \in Users, LinkedTo(b) \subseteq {w},
         \A a \in Accounts : \A x \in LinkedTo(a)' : x \in LinkedTo(a) \/ (x = w /\ a = b)
  PROVE  LinksStep
<1>1. ASSUME NEW a \in Accounts, NEW u \in LinkedTo(a), NEW v \in LinkedTo(a)' PROVE u = v
  BY <1>1 DEF LinksUnique
<1>2. ASSUME NEW a \in Accounts, NEW u \in LinkedTo(a)', NEW v \in LinkedTo(a)' PROVE u = v
  BY <1>2 DEF LinksUnique
<1>. QED  BY <1>1, <1>2 DEF LinksUnique, LinksStep

\* What a row gains when b is written in it.
LEMMA RowLinked ==
  ASSUME AuthInv, NEW b \in Accounts, NEW w \in Users, NEW row \in UserRows, user' = [user EXCEPT ![w] = row],
         row.link[ProviderOf[b]] = b,
         \A m \in Providers \ {ProviderOf[b]} :
           row.link[m] = Null \/ (user[w] # Null /\ row.link[m] = user[w].link[m])
  PROVE  \A a \in Accounts : \A x \in LinkedTo(a)' : x \in LinkedTo(a) \/ (x = w /\ a = b)
<1> SUFFICES ASSUME NEW a \in Accounts, NEW x \in LinkedTo(a)', ~(x = w /\ a = b)
             PROVE  x \in LinkedTo(a)
  OBVIOUS
<1>1. x \in Users /\ user'[x] # Null /\ user'[x].link[ProviderOf[a]] = a  BY DEF LinkedTo
<1>2. user \in [Users -> UserRows \cup {Null}] /\ ProviderOf[a] \in Providers /\ a # Null
  BY ProviderAssumption, NullAssumption DEF AuthInv, TypeOK
<1>3. CASE x # w
  BY <1>1, <1>2, <1>3 DEF LinkedTo
<1>4. CASE x = w
  <2>1. row.link[ProviderOf[a]] = a  BY <1>1, <1>2, <1>4
  <2>2. ProviderOf[a] # ProviderOf[b]  BY <1>4, <2>1
  <2>3. user[w] # Null /\ user[w].link[ProviderOf[a]] = a  BY <1>2, <2>1, <2>2
  <2>. QED  BY <1>4, <2>3 DEF LinkedTo
<1>. QED  BY <1>3, <1>4

LEMMA UsersStay ==
  ASSUME LinksUnique, user' = user
  PROVE  LinksStep
<1>1. \A a \in Accounts : LinkedTo(a)' = LinkedTo(a)  BY DEF LinkedTo
<1>. QED  BY <1>1, NothingLinked

LEMMA SetPhoneLinks ==
  ASSUME AuthInv, LinksUnique, NEW r \in Requests, SetPhone(r)
  PROVE  LinksStep
<1>1. CASE user' = user  BY <1>1, UsersStay
<1>2. CASE user' # user
  <2> PICK u, p : u = call[r].u /\ p = call[r].p  OBVIOUS
  <2>1. user' = [user EXCEPT ![u].phone = p]  BY <1>2 DEF SetPhone
  <2>2. u \in Users /\ user[u] # Null
    BY ResolveRows DEF SetPhone, Step, At, ResolvePcs, UserPcs
  <2>3. user \in [Users -> UserRows \cup {Null}] /\ user[u] \in UserRows  BY <2>2 DEF AuthInv, TypeOK
  <2>4. PICK row : row = [user[u] EXCEPT !.phone = p]  OBVIOUS
  <2>5. row.link = user[u].link  BY <2>3, <2>4 DEF UserRows
  <2>6. user' = [user EXCEPT ![u] = row]  BY <2>1, <2>4
  <2>7. ASSUME NEW a \in Accounts PROVE LinkedTo(a)' \subseteq LinkedTo(a)
    BY <2>2, <2>3, <2>5, <2>6 DEF LinkedTo
  <2>. QED  BY <2>7, NothingLinked
<1>. QED  BY <1>1, <1>2

\* The user's row with the account written in it.
WithAccount(row, u, a) == row = [user[u] EXCEPT !.link[ProviderOf[a]] = a]

LEMMA LinkedRow ==
  ASSUME AuthInv, NEW u \in Users, user[u] # Null, NEW a \in Accounts, NEW row, WithAccount(row, u, a)
  PROVE  /\ row \in UserRows /\ row.link[ProviderOf[a]] = a
         /\ \A m \in Providers \ {ProviderOf[a]} :
              row.link[m] = Null \/ (user[u] # Null /\ row.link[m] = user[u].link[m])
<1>1. user[u] \in UserRows /\ ProviderOf[a] \in Providers  BY ProviderAssumption DEF AuthInv, TypeOK
<1>2. row \in UserRows  BY <1>1 DEF UserRows, WithAccount
<1>3. row.link = [user[u].link EXCEPT ![ProviderOf[a]] = a]
  BY <1>1 DEF UserRows, WithAccount
<1>4. user[u].link \in [Providers -> Accounts \cup {Null}]  BY <1>1 DEF UserRows
<1>. QED  BY <1>1, <1>2, <1>3, <1>4

LEMMA AttachLinks ==
  ASSUME AuthInv, LinksUnique, NEW r \in Requests, Attach(r)
  PROVE  LinksStep
<1>1. CASE user' = user  BY <1>1, UsersStay
<1>2. CASE user' # user
  <2> PICK u, a : u = call[r].u /\ a = call[r].a  OBVIOUS
  <2>1. user' = [user EXCEPT ![u].link[ProviderOf[a]] = a] /\ LinkedTo(a) \subseteq {u}
    BY <1>2 DEF Attach, AccountFree
  <2>2. u \in Users /\ user[u] # Null /\ a \in Accounts
    BY ResolveRows DEF Attach, Step, At, ResolvePcs, UserPcs
  <2>3. PICK row : row = [user[u] EXCEPT !.link[ProviderOf[a]] = a]  OBVIOUS
  <2>4. user' = [user EXCEPT ![u] = row]  BY <2>1, <2>3
  <2>5. /\ row \in UserRows /\ row.link[ProviderOf[a]] = a
        /\ \A m \in Providers \ {ProviderOf[a]} :
             row.link[m] = Null \/ (user[u] # Null /\ row.link[m] = user[u].link[m])
    <3>1. WithAccount(row, u, a)  BY <2>3 DEF WithAccount
    <3>. QED  BY <2>2, <3>1, LinkedRow
  <2>6. \A b \in Accounts : \A x \in LinkedTo(b)' : x \in LinkedTo(b) \/ (x = u /\ b = a)
    BY <2>2, <2>4, <2>5, RowLinked
  <2>. QED  BY <2>1, <2>2, <2>6, FreeLinked
<1>. QED  BY <1>1, <1>2

LEMMA LinkWriteLinks ==
  ASSUME AuthInv, LinksUnique, NEW r \in Requests, LinkWrite(r)
  PROVE  LinksStep
<1>1. CASE user' = user  BY <1>1, UsersStay
<1>2. CASE user' # user
  <2> PICK u, a : u = call[r].u /\ a = call[r].a  OBVIOUS
  <2>1. user' = [user EXCEPT ![u].link[ProviderOf[a]] = a] /\ LinkedTo(a) \subseteq {u}
    BY <1>2 DEF LinkWrite, AccountFree
  <2>2. u \in Users /\ user[u] # Null /\ a \in Accounts
    BY HandlerRows DEF HandlerHasRows, AccountPcs, UserPcs, LinkWrite, Step, At
  <2>3. PICK row : row = [user[u] EXCEPT !.link[ProviderOf[a]] = a]  OBVIOUS
  <2>4. user' = [user EXCEPT ![u] = row]  BY <2>1, <2>3
  <2>5. /\ row \in UserRows /\ row.link[ProviderOf[a]] = a
        /\ \A m \in Providers \ {ProviderOf[a]} :
             row.link[m] = Null \/ (user[u] # Null /\ row.link[m] = user[u].link[m])
    <3>1. WithAccount(row, u, a)  BY <2>3 DEF WithAccount
    <3>. QED  BY <2>2, <3>1, LinkedRow
  <2>6. \A b \in Accounts : \A x \in LinkedTo(b)' : x \in LinkedTo(b) \/ (x = u /\ b = a)
    BY <2>2, <2>4, <2>5, RowLinked
  <2>. QED  BY <2>1, <2>2, <2>6, FreeLinked
<1>. QED  BY <1>1, <1>2

LEMMA CreateLinks ==
  ASSUME AuthInv, LinksUnique, NEW r \in Requests, NEW u \in Users, Create(r, u)
  PROVE  LinksStep
<1>1. CASE user' = user  BY <1>1, UsersStay
<1>2. CASE user' # user
  <2> PICK a, p : a = call[r].a /\ p = call[r].p  OBVIOUS
  <2>1. PICK row : row = [phone |-> p, link |-> [v \in Providers |-> IF v = ProviderOf[a] THEN a ELSE Null]]
    OBVIOUS
  <2>2. user' = [user EXCEPT ![u] = row] /\ LinkedTo(a) \subseteq {u}
    BY <1>2, <2>1 DEF Create, AccountFree
  <2>3. p \in Phones /\ a \in Accounts
    BY ResolveRows DEF Create, Step, At, ResolvePcs, NumberPcs
  <2>4. /\ row \in UserRows /\ row.link[ProviderOf[a]] = a
        /\ \A m \in Providers \ {ProviderOf[a]} : row.link[m] = Null
    BY <2>1, <2>3, ProviderAssumption DEF UserRows
  <2>5. \A b \in Accounts : \A x \in LinkedTo(b)' : x \in LinkedTo(b) \/ (x = u /\ b = a)
    BY <2>2, <2>3, <2>4, RowLinked
  <2>. QED  BY <2>2, <2>3, <2>5, FreeLinked
<1>. QED  BY <1>1, <1>2

\* The transaction of a phone verification: MAX has refused an account of
\* another user, Telegram has taken it from the user it found.
LEMMA CommitPhoneLinks ==
  ASSUME AuthInv, LinksUnique, NEW r \in Requests, CommitPhone(r)
  PROVE  LinksStep
<1>1. CASE user' = user  BY <1>1, UsersStay
<1>2. CASE user' # user
  <2> PICK a, p, u, o : a = call[r].a /\ p = call[r].p /\ u = call[r].u /\ o = call[r].o  OBVIOUS
  <2>1. HandlerHasRows(r) /\ HandlerKnows(r) /\ call[r].pc = "commitPhone"
    BY HandlerRows DEF CommitPhone, Step, At
  <2>2. /\ u \in Users /\ user[u] # Null /\ a \in Accounts /\ p \in Phones
        /\ o # Null => o \in Users /\ user[o] # Null /\ ProviderOf[a] # "MAX"
    BY <2>1 DEF HandlerHasRows, HandlerKnows, PhonePcs, UserPcs, BotPcs
  <2>3. /\ user \in [Users -> UserRows \cup {Null}] /\ user[u] \in UserRows /\ ProviderOf[a] \in Providers
        /\ \A b \in Accounts : ProviderOf[b] \in Providers /\ b # Null
        /\ u # Null
    BY <2>2, ProviderAssumption, NullAssumption DEF AuthInv, TypeOK
  <2>4. PICK row : row = [user[u] EXCEPT !.phone = p, !.link[ProviderOf[a]] = a]  OBVIOUS
  <2>5. /\ row \in UserRows /\ row.link[ProviderOf[a]] = a
        /\ \A m \in Providers \ {ProviderOf[a]} :
             row.link[m] = Null \/ (user[u] # Null /\ row.link[m] = user[u].link[m])
    <3>1. row \in UserRows  BY <2>2, <2>3, <2>4 DEF UserRows
    <3>2. row.link = [user[u].link EXCEPT ![ProviderOf[a]] = a]  BY <2>3, <2>4 DEF UserRows
    <3>3. user[u].link \in [Providers -> Accounts \cup {Null}]  BY <2>3 DEF UserRows
    <3>. QED  BY <2>2, <2>3, <3>1, <3>2, <3>3
  <2>6. PICK given : given = [user EXCEPT ![u] = row]  OBVIOUS
  <2>7. user' = IF o = Null THEN given ELSE [given EXCEPT ![o].link[ProviderOf[a]] = Null]
    <3>1. PICK g : g = [user EXCEPT ![u].phone = p, ![u].link[ProviderOf[a]] = a]  OBVIOUS
    <3>2. g = given  BY <2>2, <2>3, <2>4, <2>6, <3>1 DEF UserRows
    <3>3. user' = IF o = Null THEN g ELSE [g EXCEPT ![o].link[ProviderOf[a]] = Null]
      BY <1>2, <3>1 DEF CommitPhone
    <3>. QED  BY <3>2, <3>3
  <2>8. LinkedTo(a) \subseteq {u, o}  BY <1>2 DEF CommitPhone
  <2>9. CASE o = Null
    <3>1. LinkedTo(a) \subseteq {u}  BY <2>8, <2>9, NullAssumption DEF LinkedTo
    <3>2. user' = [user EXCEPT ![u] = row]  BY <2>6, <2>7, <2>9
    <3>3. \A b \in Accounts : \A x \in LinkedTo(b)' : x \in LinkedTo(b) \/ (x = u /\ b = a)
      BY <2>2, <2>5, <3>2, RowLinked
    <3>. QED  BY <2>2, <3>1, <3>3, FreeLinked
  <2>10. CASE o # Null
    <3>1. given \in [Users -> UserRows \cup {Null}] /\ given[o] \in UserRows
      BY <2>2, <2>3, <2>5, <2>6, <2>10
    <3>2. PICK taken : taken = [given[o] EXCEPT !.link[ProviderOf[a]] = Null]  OBVIOUS
    <3>3. /\ taken.link[ProviderOf[a]] = Null
          /\ \A m \in Providers \ {ProviderOf[a]} : taken.link[m] = given[o].link[m]
      <4>1. taken.link = [given[o].link EXCEPT ![ProviderOf[a]] = Null]  BY <3>1, <3>2 DEF UserRows
      <4>2. given[o].link \in [Providers -> Accounts \cup {Null}]  BY <3>1 DEF UserRows
      <4>. QED  BY <2>3, <4>1, <4>2
    <3>4. user' = [given EXCEPT ![o] = taken]  BY <2>7, <2>10, <3>2
    <3>5. ASSUME NEW b \in Accounts, NEW x \in LinkedTo(b)'
          PROVE  /\ x \in Users /\ (b = a => x = u)
                 /\ b # a => x \in LinkedTo(b)
      <4>1. x \in Users /\ user'[x] # Null /\ user'[x].link[ProviderOf[b]] = b  BY <3>5 DEF LinkedTo
      <4>2. given[x] # Null /\ given[x].link[ProviderOf[b]] = b
        <5>1. CASE x = o  BY <2>2, <2>3, <2>10, <3>1, <3>3, <3>4, <4>1, <5>1, NullAssumption
        <5>2. CASE x # o  BY <2>2, <2>10, <3>1, <3>4, <4>1, <5>2
        <5>. QED  BY <5>1, <5>2
      <4>3. x = o => ProviderOf[b] # ProviderOf[a]
        BY <2>2, <2>3, <2>10, <3>1, <3>3, <3>4, <4>1
      <4>4. x # u => user[x] # Null /\ user[x].link[ProviderOf[b]] = b
        BY <2>2, <2>3, <2>6, <4>1, <4>2
      <4>5. x = u => row.link[ProviderOf[b]] = b
        BY <2>2, <2>3, <2>6, <4>2
      <4>6. b = a => x = u
        BY <2>8, <4>1, <4>3, <4>4 DEF LinkedTo
      <4>7. b # a /\ x = u => ProviderOf[b] # ProviderOf[a]  BY <2>5, <4>5
      <4>8. b # a => user[x] # Null /\ user[x].link[ProviderOf[b]] = b
        BY <2>2, <2>3, <2>5, <4>4, <4>5, <4>7
      <4>. QED  BY <4>1, <4>6, <4>8 DEF LinkedTo
    <3>6. LinksUnique'
      <4>1. ASSUME NEW b \in Accounts, NEW x \in LinkedTo(b)', NEW y \in LinkedTo(b)' PROVE x = y
        BY <3>5, <4>1 DEF LinksUnique
      <4>. QED  BY <4>1 DEF LinksUnique
    <3>7. ASSUME NEW b \in Accounts, ProviderOf[b] = "MAX", NEW x \in LinkedTo(b), NEW y \in LinkedTo(b)'
          PROVE  x = y
      <4>1. b # a  BY <2>2, <2>10, <3>7
      <4>2. y \in LinkedTo(b)  BY <3>5, <3>7, <4>1
      <4>. QED  BY <4>2 DEF LinksUnique
    <3>. QED  BY <3>6, <3>7 DEF LinksStep
  <2>. QED  BY <2>9, <2>10
<1>. QED  BY <1>1, <1>2

LEMMA LinksNext ==
  ASSUME AuthInv, LinksUnique, [Next]_vars
  PROVE  LinksStep
<1>1. ASSUME NEW r \in Requests, Request(r) PROVE user' = user
  BY <1>1 DEF Request, StartQr, CancelQr, BindQr, CancelPhone, BindPhone, AppStatus, BotContact, AppContact,
     Link, StartPhone, tables
<1>2. ASSUME NEW r \in Requests, Serve(r) PROVE LinksStep
  <2>1. CASE \/ ExpireQr(r) \/ CancelQrWrite(r) \/ Issue(r) \/ Consume(r) \/ BindQrWrite(r) \/ BindPhoneWrite(r)
             \/ FindActive(r) \/ ByLink(r) \/ OwnerOfPhone(r) \/ ByPhone(r)
             \/ MarkQr(r) \/ VerifyQr(r) \/ FailQr(r)
             \/ FindPhoneSession(r) \/ PhoneOwner(r) \/ AccountOwner(r) \/ ExpirePhone(r) \/ FailPhone(r)
             \/ ReplacePending(r) \/ \E s \in PhoneSessions : OpenPhone(r, s)
    <3>1. user' = user
      BY <2>1 DEF ExpireQr, CancelQrWrite, Issue, Consume, BindQrWrite, BindPhoneWrite, FindActive, ByLink,
         OwnerOfPhone, ByPhone, MarkQr, VerifyQr, FailQr, FindPhoneSession, PhoneOwner, AccountOwner,
         ExpirePhone, FailPhone, ReplacePending, OpenPhone, tables
    <3>. QED  BY <3>1, UsersStay
  <2>. QED
    BY <1>2, <2>1, SetPhoneLinks, AttachLinks, CreateLinks, CommitPhoneLinks, LinkWriteLinks DEF Serve
<1>3. ASSUME NEW r \in Requests, Fail(r) PROVE user' = user
  BY <1>3 DEF Fail, tables
<1>4. ASSUME NEW r \in Requests, NEW q \in QrSessions, PollQr(r, q) PROVE user' = user
  BY <1>4 DEF PollQr, tables
<1>5. ASSUME NEW r \in Requests, NEW s \in PhoneSessions, PollPhone(r, s) PROVE user' = user
  BY <1>5 DEF PollPhone, tables
<1>6. ASSUME NEW q \in QrSessions, QrExpires(q) PROVE user' = user
  BY <1>6 DEF QrExpires
<1>7. ASSUME NEW s \in PhoneSessions, PhoneExpires(s) PROVE user' = user
  BY <1>7 DEF PhoneExpires
<1>8. CASE UNCHANGED vars
  BY <1>8, UsersStay DEF vars
<1>. QED  BY <1>1, <1>2, <1>3, <1>4, <1>5, <1>6, <1>7, <1>8, UsersStay DEF Next

\* A MAX account that has a user is never given to another one, by whichever
\* of the handlers that link accounts (verifyPhoneByMaxContact,
\* resolveMaxUserState, /max/link), although each decides on rows read in an
\* earlier statement; Telegram's verification takes accounts over by design.
THEOREM MaxAccountsKept == Spec => MaxAccountsKeepTheirUser
<1>1. Init => LinksUnique
  <2> SUFFICES ASSUME Init, NEW a \in Accounts, NEW u \in LinkedTo(a), NEW v \in LinkedTo(a), u # v
               PROVE  FALSE
    BY DEF LinksUnique
  <2>1. Unique(user)  BY InitialUsersAssumption DEF Init
  <2>2. ProviderOf[a] \in Providers /\ a # Null  BY ProviderAssumption, NullAssumption
  <2>. QED  BY <2>1, <2>2 DEF Unique, LinkedTo
<1>2. LinksStep => LinksUnique'  BY DEF LinksStep
<1>3. LinksStep =>
        \A a \in Accounts : ProviderOf[a] = "MAX" =>
          \A u \in LinkedTo(a) : \A v \in Users \ {u} : user'[v] # Null => user'[v].link["MAX"] # a
  BY DEF LinksStep, LinkedTo
<1>. QED  BY <1>1, <1>2, <1>3, AuthStarts, AuthNext, LinksNext, PTL DEF Spec, MaxAccountsKeepTheirUser

-----------------------------------------------------------------------------
(* Profiles: the references of a client profile.                             *)

TermsFit(x) ==
  /\ x.contract # None /\ (x.agreement = None \/ AgreementOf[x.agreement].contract # x.contract) =>
       x.counterparty = ContractOwner[x.contract]
  /\ x.address # None /\ AddressOwner[x.address] # None => x.counterparty = AddressOwner[x.address]
  /\ x.agreement # None =>
       \A f \in {"counterparty", "contract", "warehouse"} :
         AgreementOf[x.agreement][f] # None => x[f] = AgreementOf[x.agreement][f]

\* A set of at most one element.
LEMMA AtMostOne ==
  ASSUME NEW S, IsFiniteSet(S), ~(Cardinality(S) > 1), NEW x \in S, NEW y \in S
  PROVE  x = y
<1> SUFFICES ASSUME x # y PROVE FALSE  OBVIOUS
<1>1. IsFiniteSet({x}) /\ Cardinality({x}) = 1  BY FS_Singleton
<1>2. IsFiniteSet({x} \cup {y}) /\ Cardinality({x} \cup {y}) = 2
  <2>1. /\ IsFiniteSet({x} \cup {y})
        /\ Cardinality({x} \cup {y}) = IF y \in {x} THEN Cardinality({x}) ELSE Cardinality({x}) + 1
    BY <1>1, FS_AddElement, Zenon
  <2>2. y \notin {x}  OBVIOUS
  <2>. QED  BY <1>1, <2>1, <2>2
<1>3. Cardinality({x} \cup {y}) <= Cardinality(S)
  <2>1. {x} \cup {y} \subseteq S  OBVIOUS
  <2>. QED  BY <2>1, FS_Subset
<1>4. Cardinality(S) \in Nat  BY FS_CardinalityType
<1>. QED  BY <1>2, <1>3, <1>4

LEMMA OwnersFinite ==
  ASSUME NEW q
  PROVE  IsFiniteSet(NamedOwners(q))
<1> DEFINE a == q.counterparty
           b == AgreementTerms(q).counterparty
           c == IF q.contract = None THEN None ELSE ContractOwner[q.contract]
           d == IF q.address = None THEN None ELSE AddressOwner[q.address]
<1>1. NamedOwners(q) = {a, b, c, d} \ {None}  BY DEF NamedOwners
<1> HIDE DEF a, b, c, d
<1>2. IsFiniteSet({a, b, c, d})
  <2>1. IsFiniteSet({a})  BY FS_Singleton
  <2>2. IsFiniteSet({a} \cup {b})  BY <2>1, FS_AddElement
  <2>3. IsFiniteSet(({a} \cup {b}) \cup {c})  BY <2>2, FS_AddElement
  <2>4. IsFiniteSet((({a} \cup {b}) \cup {c}) \cup {d})  BY <2>3, FS_AddElement
  <2>5. (({a} \cup {b}) \cup {c}) \cup {d} = {a, b, c, d}  OBVIOUS
  <2>. QED  BY <2>4, <2>5
<1>3. {a, b, c, d} \ {None} \subseteq {a, b, c, d}  OBVIOUS
<1>. QED  BY <1>1, <1>2, <1>3, FS_Subset

\* What the checks of POST /profiles/client let through fits together.
LEMMA AcceptedTermsFit ==
  ASSUME NEW q \in Terms, ~TermsRefused(q)
  PROVE  ResolvedTerms(q) \in Terms /\ TermsFit(ResolvedTerms(q))
<1> PICK owner : owner = IF NamedOwners(q) = {} THEN None ELSE CHOOSE o \in NamedOwners(q) : TRUE  OBVIOUS
<1> PICK agreed : agreed = AgreementTerms(q)  OBVIOUS
<1>1. /\ q.counterparty \in Maybe(Counterparties) /\ q.agreement \in Maybe(Agreements)
      /\ q.contract \in Maybe(Contracts) /\ q.warehouse \in Maybe(Warehouses) /\ q.address \in Maybe(Addresses)
  BY DEF Terms
<1>2. /\ agreed.counterparty \in Maybe(Counterparties) /\ agreed.contract \in Maybe(Contracts)
      /\ agreed.warehouse \in Maybe(Warehouses)
  <2>1. CASE q.agreement = None
    BY <2>1 DEF AgreementTerms, Maybe
  <2>2. CASE q.agreement # None
    <3>1. AgreementOf[q.agreement] \in [counterparty: Maybe(Counterparties), contract: Maybe(Contracts),
                                        warehouse: Maybe(Warehouses)]
      BY <1>1, <2>2, ReferencesAssumption DEF Maybe
    <3>. QED  BY <2>2, <3>1 DEF AgreementTerms
  <2>. QED  BY <2>1, <2>2
<1>3. \A o \in NamedOwners(q) : o \in Counterparties
  BY <1>1, <1>2, ReferencesAssumption DEF NamedOwners, Maybe
<1>4. NamedOwners(q) # {} => owner \in NamedOwners(q)
  OBVIOUS
<1>5. \A o \in NamedOwners(q) : o = owner
  <2>1. ~(Cardinality(NamedOwners(q)) > 1)  BY DEF TermsRefused
  <2>. QED  BY <1>4, <2>1, OwnersFinite, AtMostOne
<1>6. owner \in Maybe(Counterparties)  BY <1>3, <1>4 DEF Maybe
<1>7. PICK x : x = ResolvedTerms(q)  OBVIOUS
<1>8. /\ x = [counterparty |-> owner, agreement |-> q.agreement, contract |-> Else(q.contract, agreed.contract),
              warehouse |-> Else(q.warehouse, agreed.warehouse), address |-> q.address]
  <2>1. q = [counterparty |-> q.counterparty, agreement |-> q.agreement, contract |-> q.contract,
             warehouse |-> q.warehouse, address |-> q.address]
    BY DEF Terms
  <2>2. PICK y : y = [q EXCEPT !.counterparty = owner]  OBVIOUS
  <2>3. y = [counterparty |-> owner, agreement |-> q.agreement, contract |-> q.contract,
             warehouse |-> q.warehouse, address |-> q.address]
    BY <2>2 DEF Terms
  <2>4. PICK z : z = [y EXCEPT !.contract = Else(@, agreed.contract)]  OBVIOUS
  <2>5. z = [counterparty |-> owner, agreement |-> q.agreement, contract |-> Else(q.contract, agreed.contract),
             warehouse |-> q.warehouse, address |-> q.address]
    BY <2>3, <2>4
  <2>6. x = [z EXCEPT !.warehouse = Else(@, agreed.warehouse)]
    BY <1>7, <2>2, <2>4 DEF ResolvedTerms
  <2>. QED  BY <2>5, <2>6
<1>9. /\ x.counterparty = owner /\ x.agreement = q.agreement /\ x.contract = Else(q.contract, agreed.contract)
      /\ x.warehouse = Else(q.warehouse, agreed.warehouse) /\ x.address = q.address
  BY <1>8
<1>10. x \in Terms
  BY <1>1, <1>2, <1>6, <1>8 DEF Terms, Else
<1>11. q.agreement # None => agreed = AgreementOf[q.agreement]
  BY DEF AgreementTerms
<1>12. TermsFit(x)
  <2>1. ASSUME x.contract # None, x.agreement = None \/ AgreementOf[x.agreement].contract # x.contract
        PROVE  x.counterparty = ContractOwner[x.contract]
    <3>1. q.contract # None
      <4>1. CASE q.agreement = None
        BY <1>9, <2>1, <4>1 DEF Else, AgreementTerms
      <4>2. CASE q.agreement # None
        BY <1>9, <1>11, <2>1, <4>2 DEF Else
      <4>. QED  BY <4>1, <4>2
    <3>2. x.contract = q.contract /\ ContractOwner[q.contract] # None
      BY <1>1, <1>9, <3>1, ReferencesAssumption, NoneAssumption DEF Else, Maybe
    <3>3. ContractOwner[q.contract] \in NamedOwners(q)
      BY <3>1, <3>2 DEF NamedOwners
    <3>. QED  BY <1>5, <1>9, <3>2, <3>3
  <2>2. ASSUME x.address # None, AddressOwner[x.address] # None
        PROVE  x.counterparty = AddressOwner[x.address]
    <3>1. AddressOwner[q.address] \in NamedOwners(q)
      BY <1>9, <2>2 DEF NamedOwners
    <3>. QED  BY <1>5, <1>9, <3>1
  <2>3. ASSUME x.agreement # None
        PROVE  /\ AgreementOf[x.agreement].counterparty # None => x.counterparty = AgreementOf[x.agreement].counterparty
               /\ AgreementOf[x.agreement].contract # None => x.contract = AgreementOf[x.agreement].contract
               /\ AgreementOf[x.agreement].warehouse # None => x.warehouse = AgreementOf[x.agreement].warehouse
    <3>1. agreed = AgreementOf[x.agreement]  BY <1>9, <1>11, <2>3
    <3>2. Fits(q.contract, agreed.contract) /\ Fits(q.warehouse, agreed.warehouse)  BY DEF TermsRefused
    <3>3. agreed.counterparty # None => agreed.counterparty \in NamedOwners(q)  BY DEF NamedOwners
    <3>. QED  BY <1>5, <1>9, <3>1, <3>2, <3>3 DEF Fits, Else
  <2>. QED  BY <2>1, <2>2, <2>3 DEF TermsFit
<1>. QED  BY <1>7, <1>10, <1>12

-----------------------------------------------------------------------------
(* Profiles: what a handler in progress may rely on.                         *)

RoleNames == {"user", "employee", "admin"}
Verdicts == {"APPROVE", "REJECT"}

\* Every row has its type.
ProfilesTypeOK ==
  /\ profile \in [People -> [ProfileTypes -> Maybe(Statuses)]]
  /\ working \in [People -> Maybe(ProfileTypes)] /\ roleOf \in [People -> RoleNames]
  /\ primary \in [People -> Maybe(Departments)] /\ active \in [People -> Maybe(Departments)]
  /\ manager \subseteq People \X Departments /\ terms \in [People -> Terms]
  /\ decided \in [People -> Maybe(Verdicts)] /\ overlapped \in BOOLEAN

CreateCalls ==
  [pc: {"create", "created"}, u: People, t: ProfileTypes, q: Terms, d: Maybe(Departments), addressed: BOOLEAN]
DeleteCalls == [pc: {"primary", "active"}, d: Departments]

\* What was read allows what will be written: the department was allowed by
\* the rows read, the role read is the one of the rows read, nobody worked in
\* the department a deletion has cleared, and a created profile stays.
HandlingOK(c) ==
  LET x == handling[c] IN
  /\ x.pc \in {"create", "created"} => x \in CreateCalls
  /\ x.pc \in {"primary", "active"} => x \in DeleteCalls
  /\ x.pc = "created" => profile[x.u][x.t] # None
  /\ x.pc = "activate" =>
       /\ x.u \in People /\ x.d \in Maybe(Departments)
       /\ x.d # None => x.rows[4] = x.d \/ x.d \in x.rows[6]
  /\ x.pc = "managers" => x.d \in Departments /\ \A u \in People : x.rows[u] # x.d
  /\ x.pc = "moderate" => x.u \in People /\ x.verdict \in Verdicts /\ x.role = x.rows[3]

ProfilesInv ==
  /\ ProfilesTypeOK /\ handling = [c \in Handlers |-> handling[c]]
  /\ \A c \in Handlers : HandlingOK(c)
  /\ CurrentProfileExists /\ WorksWhereAllowed /\ ModerationDecides
  /\ \A u \in People : TermsFit(terms[u])

\* A profile is never deleted.
ProfilesGrow == \A u \in People, t \in ProfileTypes : profile[u][t] # None => profile'[u][t] # None

LEMMA HandlingStays ==
  ASSUME ProfilesInv, ProfilesGrow, NEW c \in Handlers, handling'[c] = handling[c]
  PROVE  HandlingOK(c)'
<1>1. HandlingOK(c)  BY DEF ProfilesInv
<1>2. handling[c].pc = "created" => handling[c].u \in People /\ handling[c].t \in ProfileTypes
  BY <1>1 DEF HandlingOK, CreateCalls
<1>3. handling'[c].pc = "created" => profile'[handling'[c].u][handling'[c].t] # None
  BY <1>1, <1>2 DEF HandlingOK, ProfilesGrow
<1>. QED  BY <1>1, <1>3 DEF HandlingOK

\* What is left to show of a step of handler c.
LEMMA HandlingStep ==
  ASSUME ProfilesInv, ProfilesGrow, NEW c \in Handlers, NEW record, handling' = [handling EXCEPT ![c] = record],
         HandlingOK(c)', ProfilesTypeOK', CurrentProfileExists', WorksWhereAllowed', ModerationDecides',
         (\A u \in People : TermsFit(terms[u]))'
  PROVE  ProfilesInv'
<1>1. handling' = [x \in Handlers |-> handling'[x]]
  BY DEF ProfilesInv
<1>2. ASSUME NEW x \in Handlers PROVE HandlingOK(x)'
  <2>1. CASE x = c  BY <2>1
  <2>2. CASE x # c
    <3>1. handling'[x] = handling[x]  BY <2>2 DEF ProfilesInv
    <3>. QED  BY <3>1, HandlingStays
  <2>. QED  BY <2>1, <2>2
<1>. QED  BY <1>1, <1>2 DEF ProfilesInv

\* A handler that has ended relies on nothing.
LEMMA EndOK ==
  ASSUME ProfilesInv, NEW c \in Handlers, End(c)
  PROVE  handling' = [handling EXCEPT ![c] = Free] /\ HandlingOK(c)'
<1>1. handling'[c] = Free  BY DEF ProfilesInv, End
<1>2. Free.pc = "idle"  BY DEF Free
<1>3. HandlingOK(c)'
  BY <1>1, <1>2 DEF HandlingOK
<1>. QED  BY <1>3 DEF End

\* A step in which no handler moves.
LEMMA DirectStep ==
  ASSUME ProfilesInv, ProfilesGrow, handling' = handling,
         ProfilesTypeOK', CurrentProfileExists', WorksWhereAllowed', ModerationDecides',
         (\A u \in People : TermsFit(terms[u]))'
  PROVE  ProfilesInv'
<1>1. \A c \in Handlers : HandlingOK(c)'  BY HandlingStays
<1>. QED  BY <1>1 DEF ProfilesInv

\* The parts of a user's rows that each property is about.
LEMMA CurrentStays ==
  ASSUME ProfilesInv, ProfilesGrow, UNCHANGED working
  PROVE  CurrentProfileExists'
<1> SUFFICES ASSUME NEW u \in People, working'[u] # None PROVE profile'[u][working'[u]] # None
  BY DEF CurrentProfileExists
<1>1. working[u] \in ProfileTypes  BY DEF ProfilesInv, ProfilesTypeOK, Maybe
<1>. QED  BY <1>1 DEF ProfilesInv, CurrentProfileExists, ProfilesGrow

LEMMA DepartmentsStay ==
  ASSUME ProfilesInv, UNCHANGED <<primary, active, manager>>, overlapped => overlapped'
  PROVE  WorksWhereAllowed'
BY DEF ProfilesInv, WorksWhereAllowed, CanUseDepartmentAsActive

LEMMA ModerationStays ==
  ASSUME ProfilesInv, UNCHANGED <<roleOf, decided>>, overlapped => overlapped',
         \A u \in People : decided[u] # None => profile'[u]["EMPLOYEE"] = profile[u]["EMPLOYEE"]
  PROVE  ModerationDecides'
<1>1. None # "REJECT" /\ None # "APPROVE"  BY NoneAssumption
<1>. QED  BY <1>1 DEF ProfilesInv, ModerationDecides

LEMMA TermsStay ==
  ASSUME ProfilesInv, UNCHANGED terms
  PROVE  (\A u \in People : TermsFit(terms[u]))'
BY DEF ProfilesInv, TermsFit

ProfileData == <<profile, working, roleOf, primary, active, manager, terms, decided, overlapped>>

LEMMA DataStays ==
  ASSUME ProfilesInv, UNCHANGED ProfileData
  PROVE  /\ ProfilesGrow /\ ProfilesTypeOK' /\ CurrentProfileExists' /\ WorksWhereAllowed' /\ ModerationDecides'
         /\ (\A u \in People : TermsFit(terms[u]))'
<1>1. ProfilesGrow  BY DEF ProfilesGrow, ProfileData
<1>2. ProfilesTypeOK'  BY DEF ProfilesInv, ProfilesTypeOK, ProfileData
<1>. QED
  BY <1>1, <1>2, CurrentStays, DepartmentsStay, ModerationStays, TermsStay DEF ProfileData

\* A request arrives: only its record is new.
LEMMA HandleStep ==
  ASSUME ProfilesInv, NEW c \in Handlers, NEW record, Handle(c, record), UNCHANGED ProfileData, HandlingOK(c)'
  PROVE  ProfilesInv'
BY DataStays, HandlingStep DEF Handle

LEMMA HandleIs ==
  ASSUME ProfilesInv, NEW c \in Handlers, NEW record, Handle(c, record)
  PROVE  handling'[c] = record
BY DEF ProfilesInv, Handle

-----------------------------------------------------------------------------
(* Profiles: the requests.                                                   *)

LEMMA BeginProfileStep ==
  ASSUME ProfilesInv, NEW c \in Handlers, NEW u \in People, NEW t \in ProfileTypes, NEW q \in Terms,
         NEW a \in BOOLEAN, BeginProfile(c, u, t, q, a)
  PROVE  ProfilesInv'
<1> PICK x : x = [pc |-> "create", u |-> u, t |-> t, q |-> q, d |-> None, addressed |-> a]  OBVIOUS
<1>1. Handle(c, x) /\ UNCHANGED ProfileData  BY DEF BeginProfile, ProfileData
<1>2. x \in CreateCalls /\ x.pc = "create"  BY DEF CreateCalls, Maybe
<1>3. handling'[c] = x  BY <1>1, HandleIs
<1>4. HandlingOK(c)'  BY <1>2, <1>3 DEF HandlingOK
<1>. QED  BY <1>1, <1>4, HandleStep

LEMMA BeginEmployeeStep ==
  ASSUME ProfilesInv, NEW c \in Handlers, NEW u \in People, NEW d \in Departments, BeginEmployee(c, u, d)
  PROVE  ProfilesInv'
<1> PICK x : x = [pc |-> "create", u |-> u, t |-> "EMPLOYEE", q |-> NoTerms, d |-> d, addressed |-> FALSE]
  OBVIOUS
<1>1. Handle(c, x) /\ UNCHANGED ProfileData  BY DEF BeginEmployee, ProfileData
<1>2. x \in CreateCalls /\ x.pc = "create"
  BY DEF CreateCalls, Maybe, ProfileTypes, NoTerms, Terms
<1>3. handling'[c] = x  BY <1>1, HandleIs
<1>4. HandlingOK(c)'  BY <1>2, <1>3 DEF HandlingOK
<1>. QED  BY <1>1, <1>4, HandleStep

LEMMA ReadActiveDepartmentStep ==
  ASSUME ProfilesInv, NEW c \in Handlers, NEW u \in People, NEW d \in Maybe(Departments),
         ReadActiveDepartment(c, u, d)
  PROVE  ProfilesInv'
<1> PICK rows : rows = ProfileRows(u)  OBVIOUS
<1> PICK x : x = [pc |-> "activate", u |-> u, d |-> d, rows |-> rows]  OBVIOUS
<1>1. Handle(c, x) /\ UNCHANGED ProfileData  BY DEF ReadActiveDepartment, ProfileData
<1>2. rows[4] = primary[u] /\ rows[6] = {e \in Departments : <<u, e>> \in manager}
  BY DEF ProfileRows
<1>3. d # None => rows[4] = d \/ d \in rows[6]
  BY <1>2 DEF ReadActiveDepartment, CanUseDepartmentAsActive, Maybe
<1>4. x.pc = "activate" /\ x.u = u /\ x.d = d /\ x.rows = rows  OBVIOUS
<1>5. handling'[c] = x  BY <1>1, HandleIs
<1>6. HandlingOK(c)'  BY <1>3, <1>4, <1>5 DEF HandlingOK
<1>. QED  BY <1>1, <1>6, HandleStep

LEMMA ReadModerationStep ==
  ASSUME ProfilesInv, NEW c \in Handlers, NEW u \in People, NEW v \in Verdicts, ReadModeration(c, u, v)
  PROVE  ProfilesInv'
<1> PICK rows : rows = ProfileRows(u)  OBVIOUS
<1> PICK x : x = [pc |-> "moderate", u |-> u, verdict |-> v, rows |-> rows,
                  role |-> roleOf[u], working |-> working[u]]
  OBVIOUS
<1>1. Handle(c, x) /\ UNCHANGED ProfileData  BY DEF ReadModeration, ProfileData
<1>2. rows[3] = roleOf[u]  BY DEF ProfileRows
<1>3. x.pc = "moderate" /\ x.u = u /\ x.verdict = v /\ x.rows = rows /\ x.role = roleOf[u]  OBVIOUS
<1>4. handling'[c] = x  BY <1>1, HandleIs
<1>5. HandlingOK(c)'  BY <1>2, <1>3, <1>4 DEF HandlingOK
<1>. QED  BY <1>1, <1>5, HandleStep

LEMMA BeginDeleteStep ==
  ASSUME ProfilesInv, NEW c \in Handlers, NEW d \in Departments, BeginDelete(c, d)
  PROVE  ProfilesInv'
<1> PICK x : x = [pc |-> "primary", d |-> d]  OBVIOUS
<1>1. Handle(c, x) /\ UNCHANGED ProfileData  BY DEF BeginDelete, ProfileData
<1>2. x \in DeleteCalls /\ x.pc = "primary"  BY DEF DeleteCalls
<1>3. handling'[c] = x  BY <1>1, HandleIs
<1>4. HandlingOK(c)'  BY <1>2, <1>3 DEF HandlingOK
<1>. QED  BY <1>1, <1>4, HandleStep

LEMMA FailCallStep ==
  ASSUME ProfilesInv, NEW c \in Handlers, FailCall(c)
  PROVE  ProfilesInv'
<1>1. UNCHANGED ProfileData /\ End(c)  BY DEF FailCall, ProfileData
<1>. QED  BY <1>1, DataStays, EndOK, HandlingStep

LEMMA ChooseProfileStep ==
  ASSUME ProfilesInv, NEW u \in People, NEW t \in Maybe(ProfileTypes), ChooseProfile(u, t)
  PROVE  ProfilesInv'
<1>1. /\ handling' = handling /\ working' = [working EXCEPT ![u] = t] /\ (t # None => profile[u][t] # None)
      /\ UNCHANGED <<profile, roleOf, primary, active, manager, terms, decided, overlapped>>
  BY DEF ChooseProfile, Direct
<1>2. ProfilesGrow  BY <1>1 DEF ProfilesGrow
<1>3. ProfilesTypeOK'  BY <1>1 DEF ProfilesInv, ProfilesTypeOK
<1>4. CurrentProfileExists'
  BY <1>1 DEF ProfilesInv, ProfilesTypeOK, CurrentProfileExists
<1>. QED  BY <1>1, <1>2, <1>3, <1>4, DepartmentsStay, ModerationStays, TermsStay, DirectStep

LEMMA SetDepartmentStep ==
  ASSUME ProfilesInv, NEW u \in People, NEW d \in Maybe(Departments), SetDepartment(u, d)
  PROVE  ProfilesInv'
<1>1. /\ handling' = handling /\ primary' = [primary EXCEPT ![u] = d] /\ active' = [active EXCEPT ![u] = d]
      /\ UNCHANGED <<profile, working, roleOf, manager, terms, decided, overlapped>>
  BY DEF SetDepartment, Direct
<1>2. ProfilesGrow  BY <1>1 DEF ProfilesGrow
<1>3. ProfilesTypeOK'  BY <1>1 DEF ProfilesInv, ProfilesTypeOK
<1>4. WorksWhereAllowed'
  BY <1>1 DEF ProfilesInv, ProfilesTypeOK, WorksWhereAllowed, CanUseDepartmentAsActive
<1>. QED  BY <1>1, <1>2, <1>3, <1>4, CurrentStays, ModerationStays, TermsStay, DirectStep

LEMMA AssignManagerStep ==
  ASSUME ProfilesInv, NEW u \in People, NEW d \in Departments, AssignManager(u, d)
  PROVE  ProfilesInv'
<1>1. /\ handling' = handling /\ manager' = manager \cup {<<u, d>>}
      /\ UNCHANGED <<profile, working, roleOf, primary, active, terms, decided, overlapped>>
  BY DEF AssignManager, Direct
<1>2. ProfilesGrow  BY <1>1 DEF ProfilesGrow
<1>3. ProfilesTypeOK'  BY <1>1 DEF ProfilesInv, ProfilesTypeOK
<1>4. WorksWhereAllowed'
  BY <1>1 DEF ProfilesInv, WorksWhereAllowed, CanUseDepartmentAsActive
<1>. QED  BY <1>1, <1>2, <1>3, <1>4, CurrentStays, ModerationStays, TermsStay, DirectStep

LEMMA EditStatusStep ==
  ASSUME ProfilesInv, NEW u \in People, NEW t \in ProfileTypes, NEW s \in Statuses, EditStatus(u, t, s)
  PROVE  ProfilesInv'
<1>1. /\ handling' = handling /\ profile[u][t] # None /\ profile' = [profile EXCEPT ![u][t] = s]
      /\ decided' = IF t = "EMPLOYEE" THEN [decided EXCEPT ![u] = None] ELSE decided
      /\ UNCHANGED <<working, roleOf, primary, active, manager, terms, overlapped>>
  BY DEF EditStatus, Direct
<1>2. profile \in [People -> [ProfileTypes -> Maybe(Statuses)]] /\ decided \in [People -> Maybe(Verdicts)]
  BY DEF ProfilesInv, ProfilesTypeOK
<1>3. s # None /\ None # "REJECT" /\ None # "APPROVE"  BY NoneAssumption
<1>4. ASSUME NEW x \in People, NEW y \in ProfileTypes
      PROVE  /\ profile'[x][y] = IF x = u /\ y = t THEN s ELSE profile[x][y]
             /\ profile'[x][y] \in Maybe(Statuses)
  BY <1>1, <1>2 DEF Maybe
<1>5. ProfilesGrow  BY <1>3, <1>4 DEF ProfilesGrow
<1>6. profile' \in [People -> [ProfileTypes -> Maybe(Statuses)]]
  BY <1>1, <1>2 DEF Maybe
<1>7. ProfilesTypeOK'  BY <1>1, <1>2, <1>6 DEF ProfilesInv, ProfilesTypeOK, Maybe
<1>8. ModerationDecides'
  <2>1. ASSUME NEW x \in People, decided'[x] # None
        PROVE  decided'[x] = decided[x] /\ profile'[x]["EMPLOYEE"] = profile[x]["EMPLOYEE"]
    BY <1>1, <1>2, <1>4, <2>1 DEF ProfileTypes
  <2>. QED  BY <1>1, <1>3, <2>1 DEF ProfilesInv, ModerationDecides
<1>. QED  BY <1>1, <1>5, <1>7, <1>8, CurrentStays, DepartmentsStay, TermsStay, DirectStep

LEMMA AssignRoleStep ==
  ASSUME ProfilesInv, NEW u \in People, NEW r \in RoleNames, AssignRole(u, r)
  PROVE  ProfilesInv'
<1>1. /\ handling' = handling /\ roleOf' = [roleOf EXCEPT ![u] = r] /\ decided' = [decided EXCEPT ![u] = None]
      /\ UNCHANGED <<profile, working, primary, active, manager, terms, overlapped>>
  BY DEF AssignRole, Direct
<1>2. ProfilesGrow  BY <1>1 DEF ProfilesGrow
<1>3. ProfilesTypeOK'  BY <1>1 DEF ProfilesInv, ProfilesTypeOK, Maybe
<1>4. None # "REJECT" /\ None # "APPROVE"  BY NoneAssumption
<1>5. ModerationDecides'
  <2>1. ASSUME NEW x \in People, decided'[x] # None
        PROVE  decided'[x] = decided[x] /\ roleOf'[x] = roleOf[x]
    BY <1>1, <2>1 DEF ProfilesInv, ProfilesTypeOK
  <2>. QED  BY <1>1, <1>4, <2>1 DEF ProfilesInv, ModerationDecides
<1>. QED  BY <1>1, <1>2, <1>3, <1>5, CurrentStays, DepartmentsStay, TermsStay, DirectStep

\* A handler moves on with the record it has.
LEMMA MoveIs ==
  ASSUME ProfilesInv, NEW c \in Handlers, NEW x, x = handling[c], NEW pc, MoveTo(c, pc)
  PROVE  handling' = [handling EXCEPT ![c] = [x EXCEPT !.pc = pc]] /\ handling'[c] = [x EXCEPT !.pc = pc]
BY DEF ProfilesInv, MoveTo

LEMMA CreateProfileStep ==
  ASSUME ProfilesInv, NEW c \in Handlers, CreateProfile(c)
  PROVE  ProfilesInv'
<1> PICK x : x = handling[c]  OBVIOUS
<1>1. x \in CreateCalls /\ x.pc = "create"
  BY DEF CreateProfile, ProfilesInv, HandlingOK
<1>2. CASE profile[x.u][x.t] # None \/ TermsRefused(x.q)
  <2>1. End(c) /\ UNCHANGED ProfileData  BY <1>2 DEF CreateProfile, ProfileData
  <2>. QED  BY <2>1, DataStays, EndOK, HandlingStep
<1>3. CASE profile[x.u][x.t] = None /\ ~TermsRefused(x.q)
  <2>1. /\ profile' = [profile EXCEPT ![x.u][x.t] = "PENDING"]
        /\ primary' = IF x.t = "EMPLOYEE" THEN [primary EXCEPT ![x.u] = x.d] ELSE primary
        /\ active' = IF x.t = "EMPLOYEE" THEN [active EXCEPT ![x.u] = x.d] ELSE active
        /\ terms' = IF x.t = "CLIENT" THEN [terms EXCEPT ![x.u] = ResolvedTerms(x.q)] ELSE terms
        /\ MoveTo(c, "created")
        /\ UNCHANGED <<working, roleOf, manager, decided, overlapped>>
    BY <1>3 DEF CreateProfile
  <2>2. x.u \in People /\ x.t \in ProfileTypes /\ x.q \in Terms /\ x.d \in Maybe(Departments)
    BY <1>1 DEF CreateCalls
  <2>3. /\ profile \in [People -> [ProfileTypes -> Maybe(Statuses)]] /\ primary \in [People -> Maybe(Departments)]
        /\ active \in [People -> Maybe(Departments)] /\ terms \in [People -> Terms]
    BY DEF ProfilesInv, ProfilesTypeOK
  <2>4. "PENDING" # None /\ "PENDING" \in Maybe(Statuses)  BY NoneAssumption DEF Maybe, Statuses
  <2>5. ASSUME NEW v \in People, NEW s \in ProfileTypes
        PROVE  profile'[v][s] = IF v = x.u /\ s = x.t THEN "PENDING" ELSE profile[v][s]
    BY <2>1, <2>2, <2>3
  <2>6. ProfilesGrow  BY <2>4, <2>5 DEF ProfilesGrow
  <2>7. profile' \in [People -> [ProfileTypes -> Maybe(Statuses)]]  BY <2>1, <2>2, <2>3, <2>4
  <2>8. ResolvedTerms(x.q) \in Terms /\ TermsFit(ResolvedTerms(x.q))
    BY <1>3, <2>2, AcceptedTermsFit
  <2>9. ProfilesTypeOK'
    <3>1. primary' \in [People -> Maybe(Departments)] /\ active' \in [People -> Maybe(Departments)]
      BY <2>1, <2>2, <2>3
    <3>2. terms' \in [People -> Terms]  BY <2>1, <2>2, <2>3, <2>8
    <3>. QED  BY <2>1, <2>7, <3>1, <3>2 DEF ProfilesInv, ProfilesTypeOK
  <2>10. (\A v \in People : TermsFit(terms[v]))'
    <3>1. \A v \in People : terms'[v] = terms[v] \/ terms'[v] = ResolvedTerms(x.q)
      BY <2>1, <2>2, <2>3
    <3>2. \A v \in People : TermsFit(terms'[v])
      BY <2>8, <3>1 DEF ProfilesInv
    <3>. QED  BY <3>2 DEF TermsFit
  <2>11. WorksWhereAllowed'
    BY <2>1, <2>2, <2>3 DEF ProfilesInv, WorksWhereAllowed, CanUseDepartmentAsActive
  <2>12. ModerationDecides'
    <3>1. SUFFICES ASSUME ~overlapped', NEW v \in People
                   PROVE  /\ decided'[v] = "REJECT" => profile'[v]["EMPLOYEE"] = "BLOCKED" /\ roleOf'[v] # "employee"
                          /\ decided'[v] = "APPROVE" => profile'[v]["EMPLOYEE"] = "ACTIVE" /\ roleOf'[v] # "user"
      BY DEF ModerationDecides
    <3>2. /\ decided[v] = "REJECT" => profile[v]["EMPLOYEE"] = "BLOCKED" /\ roleOf[v] # "employee"
          /\ decided[v] = "APPROVE" => profile[v]["EMPLOYEE"] = "ACTIVE" /\ roleOf[v] # "user"
      BY <2>1, <3>1 DEF ProfilesInv, ModerationDecides
    <3>3. "BLOCKED" # None /\ "ACTIVE" # None  BY NoneAssumption DEF Statuses
    <3>4. profile[v]["EMPLOYEE"] # None => profile'[v]["EMPLOYEE"] = profile[v]["EMPLOYEE"]
      BY <1>3, <2>5 DEF ProfileTypes
    <3>. QED  BY <2>1, <3>2, <3>3, <3>4
  <2>13. HandlingOK(c)' /\ handling' = [handling EXCEPT ![c] = [x EXCEPT !.pc = "created"]]
    <3>1. PICK y : y = [x EXCEPT !.pc = "created"]  OBVIOUS
    <3>2. y \in CreateCalls /\ y.pc = "created" /\ y.u = x.u /\ y.t = x.t
      BY <1>1, <3>1 DEF CreateCalls
    <3>3. handling' = [handling EXCEPT ![c] = y] /\ handling'[c] = y
      BY <2>1, <3>1, MoveIs
    <3>4. profile'[y.u][y.t] # None  BY <2>2, <2>4, <2>5, <3>2
    <3>. QED  BY <3>1, <3>2, <3>3, <3>4 DEF HandlingOK
  <2>. QED  BY <2>1, <2>6, <2>9, <2>10, <2>11, <2>12, <2>13, CurrentStays, HandlingStep
<1>. QED  BY <1>2, <1>3

LEMMA EnterProfileStep ==
  ASSUME ProfilesInv, NEW c \in Handlers, EnterProfile(c)
  PROVE  ProfilesInv'
<1> PICK x : x = handling[c]  OBVIOUS
<1>1. /\ working' = [working EXCEPT ![x.u] = x.t] /\ End(c)
      /\ UNCHANGED <<profile, roleOf, primary, active, manager, terms, decided, overlapped>>
  BY DEF EnterProfile
<1>2. x \in CreateCalls /\ profile[x.u][x.t] # None
  BY DEF EnterProfile, ProfilesInv, HandlingOK
<1>3. x.u \in People /\ x.t \in ProfileTypes  BY <1>2 DEF CreateCalls
<1>4. ProfilesGrow  BY <1>1 DEF ProfilesGrow
<1>5. ProfilesTypeOK'  BY <1>1, <1>3 DEF ProfilesInv, ProfilesTypeOK, Maybe
<1>6. CurrentProfileExists'
  BY <1>1, <1>2, <1>3 DEF ProfilesInv, ProfilesTypeOK, CurrentProfileExists
<1>. QED
  BY <1>1, <1>4, <1>5, <1>6, EndOK, DepartmentsStay, ModerationStays, TermsStay, HandlingStep

\* The rows read are still there, or the step is marked as overlapping.
LEMMA WriteActiveDepartmentStep ==
  ASSUME ProfilesInv, NEW c \in Handlers, WriteActiveDepartment(c)
  PROVE  ProfilesInv'
<1> PICK x : x = handling[c]  OBVIOUS
<1>1. /\ active' = [active EXCEPT ![x.u] = x.d] /\ End(c)
      /\ overlapped' = (overlapped \/ ProfileRows(x.u) # x.rows)
      /\ UNCHANGED <<profile, working, roleOf, primary, manager, terms, decided>>
  BY DEF WriteActiveDepartment, Overlaps
<1>2. /\ x.u \in People /\ x.d \in Maybe(Departments)
      /\ x.d # None => x.rows[4] = x.d \/ x.d \in x.rows[6]
  BY DEF WriteActiveDepartment, ProfilesInv, HandlingOK
<1>3. ProfilesGrow  BY <1>1 DEF ProfilesGrow
<1>4. (overlapped => overlapped') /\ overlapped' \in BOOLEAN  BY <1>1
<1>5. ProfilesTypeOK'  BY <1>1, <1>2, <1>4 DEF ProfilesInv, ProfilesTypeOK
<1>6. WorksWhereAllowed'
  <2>1. SUFFICES ASSUME ~overlapped', NEW v \in People, active'[v] # None
                 PROVE  primary'[v] = active'[v] \/ <<v, active'[v]>> \in manager'
    BY DEF WorksWhereAllowed, CanUseDepartmentAsActive
  <2>2. CASE v = x.u
    <3>1. active'[v] = x.d  BY <1>1, <1>2, <2>2 DEF ProfilesInv, ProfilesTypeOK
    <3>2. ProfileRows(x.u) = x.rows  BY <1>1, <2>1
    <3>3. x.rows[4] = primary[x.u] /\ x.rows[6] = {d \in Departments : <<x.u, d>> \in manager}
      BY <3>2 DEF ProfileRows
    <3>. QED  BY <1>1, <1>2, <2>1, <2>2, <3>1, <3>3
  <2>3. CASE v # x.u
    <3>1. active'[v] = active[v]  BY <1>1, <2>3 DEF ProfilesInv, ProfilesTypeOK
    <3>2. ~overlapped  BY <1>4, <2>1
    <3>. QED  BY <1>1, <2>1, <3>1, <3>2 DEF ProfilesInv, WorksWhereAllowed, CanUseDepartmentAsActive
  <2>. QED  BY <2>2, <2>3
<1>. QED
  BY <1>1, <1>3, <1>4, <1>5, <1>6, EndOK, CurrentStays, ModerationStays, TermsStay, HandlingStep

LEMMA ClearPrimaryStep ==
  ASSUME ProfilesInv, NEW c \in Handlers, ClearPrimary(c)
  PROVE  ProfilesInv'
<1> PICK x : x = handling[c]  OBVIOUS
<1>1. /\ primary' = [u \in People |-> IF primary[u] = x.d THEN None ELSE primary[u]]
      /\ active' = [u \in People |-> IF primary[u] = x.d THEN None ELSE active[u]]
      /\ MoveTo(c, "active")
      /\ UNCHANGED <<profile, working, roleOf, manager, terms, decided, overlapped>>
  BY DEF ClearPrimary
<1>2. x \in DeleteCalls /\ x.pc = "primary"
  BY DEF ClearPrimary, ProfilesInv, HandlingOK
<1>3. ProfilesGrow  BY <1>1 DEF ProfilesGrow
<1>4. ProfilesTypeOK'  BY <1>1 DEF ProfilesInv, ProfilesTypeOK, Maybe
<1>5. WorksWhereAllowed'
  BY <1>1 DEF ProfilesInv, WorksWhereAllowed, CanUseDepartmentAsActive
<1>6. PICK y : y = [x EXCEPT !.pc = "active"]  OBVIOUS
<1>7. y \in DeleteCalls /\ y.pc = "active"  BY <1>2, <1>6 DEF DeleteCalls
<1>8. handling' = [handling EXCEPT ![c] = y] /\ handling'[c] = y  BY <1>1, <1>6, MoveIs
<1>9. HandlingOK(c)'  BY <1>7, <1>8 DEF HandlingOK
<1>. QED
  BY <1>1, <1>3, <1>4, <1>5, <1>8, <1>9, CurrentStays, ModerationStays, TermsStay, HandlingStep

\* Nobody works in the department any more, as the handler remembers.
LEMMA ClearActiveStep ==
  ASSUME ProfilesInv, NEW c \in Handlers, ClearActive(c)
  PROVE  ProfilesInv'
<1> PICK x : x = handling[c]  OBVIOUS
<1> PICK rows : rows = [u \in People |-> IF active[u] = x.d THEN None ELSE active[u]]  OBVIOUS
<1>1. /\ active' = rows /\ handling' = [handling EXCEPT ![c] = [pc |-> "managers", d |-> x.d, rows |-> rows]]
      /\ UNCHANGED <<profile, working, roleOf, primary, manager, terms, decided, overlapped>>
  BY DEF ClearActive
<1>2. x.d \in Departments
  BY DEF ClearActive, ProfilesInv, HandlingOK, DeleteCalls
<1>3. ProfilesGrow  BY <1>1 DEF ProfilesGrow
<1>4. ProfilesTypeOK'  BY <1>1 DEF ProfilesInv, ProfilesTypeOK, Maybe
<1>5. WorksWhereAllowed'
  BY <1>1 DEF ProfilesInv, WorksWhereAllowed, CanUseDepartmentAsActive
<1>6. PICK y : y = [pc |-> "managers", d |-> x.d, rows |-> rows]  OBVIOUS
<1>7. y.pc = "managers" /\ y.d = x.d /\ y.rows = rows  BY <1>6
<1>8. \A u \in People : rows[u] # x.d  BY <1>2, NoneAssumption
<1>9. handling' = [handling EXCEPT ![c] = y] /\ handling'[c] = y
  BY <1>1, <1>6 DEF ProfilesInv
<1>10. HandlingOK(c)'  BY <1>2, <1>7, <1>8, <1>9 DEF HandlingOK
<1>. QED
  BY <1>1, <1>3, <1>4, <1>5, <1>9, <1>10, CurrentStays, ModerationStays, TermsStay, HandlingStep

\* The managers of a department may go: nobody works there, unless somebody started to since.
LEMMA ClearManagersStep ==
  ASSUME ProfilesInv, NEW c \in Handlers, ClearManagers(c)
  PROVE  ProfilesInv'
<1> PICK x : x = handling[c]  OBVIOUS
<1>1. /\ manager' = {m \in manager : m[2] # x.d} /\ End(c)
      /\ overlapped' = (overlapped \/ active # x.rows)
      /\ UNCHANGED <<profile, working, roleOf, primary, active, terms, decided>>
  BY DEF ClearManagers
<1>2. \A u \in People : x.rows[u] # x.d
  BY DEF ClearManagers, ProfilesInv, HandlingOK
<1>3. ProfilesGrow  BY <1>1 DEF ProfilesGrow
<1>4. (overlapped => overlapped') /\ overlapped' \in BOOLEAN  BY <1>1
<1>5. ProfilesTypeOK'  BY <1>1, <1>4 DEF ProfilesInv, ProfilesTypeOK
<1>6. WorksWhereAllowed'
  <2>1. SUFFICES ASSUME ~overlapped', NEW v \in People, active'[v] # None
                 PROVE  primary'[v] = active'[v] \/ <<v, active'[v]>> \in manager'
    BY DEF WorksWhereAllowed, CanUseDepartmentAsActive
  <2>2. ~overlapped /\ active = x.rows  BY <1>1, <2>1
  <2>3. active[v] # x.d  BY <1>2, <2>2
  <2>4. primary[v] = active[v] \/ <<v, active[v]>> \in manager
    BY <1>1, <2>1, <2>2 DEF ProfilesInv, WorksWhereAllowed, CanUseDepartmentAsActive
  <2>. QED  BY <1>1, <2>3, <2>4
<1>. QED
  BY <1>1, <1>3, <1>4, <1>5, <1>6, EndOK, CurrentStays, ModerationStays, TermsStay, HandlingStep

LEMMA WriteModerationStep ==
  ASSUME ProfilesInv, NEW c \in Handlers, WriteModeration(c)
  PROVE  ProfilesInv'
<1> PICK x : x = handling[c]  OBVIOUS
<1> PICK s : s = IF x.verdict = "APPROVE" THEN "ACTIVE" ELSE "BLOCKED"  OBVIOUS
<1> PICK r : r = ModeratedRole(roleOf[x.u], x.role, x.verdict)  OBVIOUS
<1>1. /\ x.u \in People /\ x.verdict \in Verdicts /\ x.role = x.rows[3]
  BY DEF WriteModeration, ProfilesInv, HandlingOK
<1>2. /\ profile \in [People -> [ProfileTypes -> Maybe(Statuses)]] /\ roleOf \in [People -> RoleNames]
      /\ working \in [People -> Maybe(ProfileTypes)] /\ decided \in [People -> Maybe(Verdicts)]
  BY DEF ProfilesInv, ProfilesTypeOK
<1>3. /\ profile' = [profile EXCEPT ![x.u]["EMPLOYEE"] = s]
      /\ roleOf' = [roleOf EXCEPT ![x.u] = r]
      /\ working' = IF x.verdict = "REJECT" /\ x.working = "EMPLOYEE"
                    THEN [working EXCEPT ![x.u] = None] ELSE working
      /\ decided' = [decided EXCEPT ![x.u] = x.verdict]
      /\ overlapped' = (overlapped \/ ProfileRows(x.u) # x.rows) /\ End(c)
      /\ UNCHANGED <<primary, active, manager, terms>>
  BY <1>1, <1>2 DEF WriteModeration, Overlaps
<1>4. s # None /\ s \in Maybe(Statuses)  BY NoneAssumption DEF Maybe, Statuses
<1>5. ASSUME NEW v \in People, NEW t \in ProfileTypes
      PROVE  profile'[v][t] = IF v = x.u /\ t = "EMPLOYEE" THEN s ELSE profile[v][t]
  BY <1>1, <1>2, <1>3
<1>6. ProfilesGrow  BY <1>4, <1>5 DEF ProfilesGrow
<1>7. (overlapped => overlapped') /\ overlapped' \in BOOLEAN  BY <1>3
<1>8. r \in RoleNames
  BY <1>1, <1>2 DEF ModeratedRole, RoleNames, Verdicts
<1>9. ProfilesTypeOK'
  <2>1. profile' \in [People -> [ProfileTypes -> Maybe(Statuses)]]  BY <1>1, <1>2, <1>3, <1>4
  <2>2. roleOf' \in [People -> RoleNames]  BY <1>1, <1>2, <1>3, <1>8
  <2>3. working' \in [People -> Maybe(ProfileTypes)]  BY <1>1, <1>2, <1>3 DEF Maybe
  <2>4. decided' \in [People -> Maybe(Verdicts)]  BY <1>1, <1>2, <1>3 DEF Maybe
  <2>. QED  BY <1>3, <1>7, <2>1, <2>2, <2>3, <2>4 DEF ProfilesInv, ProfilesTypeOK
<1>10. CurrentProfileExists'
  <2>1. SUFFICES ASSUME NEW v \in People, working'[v] # None PROVE profile'[v][working'[v]] # None
    BY DEF CurrentProfileExists
  <2>2. working'[v] = working[v]  BY <1>1, <1>2, <1>3, <2>1
  <2>3. working[v] \in ProfileTypes /\ profile[v][working[v]] # None
    BY <1>2, <2>1, <2>2 DEF ProfilesInv, CurrentProfileExists, Maybe
  <2>. QED  BY <1>6, <2>2, <2>3 DEF ProfilesGrow
<1>11. ModerationDecides'
  <2>1. SUFFICES ASSUME ~overlapped', NEW v \in People
                 PROVE  /\ decided'[v] = "REJECT" => profile'[v]["EMPLOYEE"] = "BLOCKED" /\ roleOf'[v] # "employee"
                        /\ decided'[v] = "APPROVE" => profile'[v]["EMPLOYEE"] = "ACTIVE" /\ roleOf'[v] # "user"
    BY DEF ModerationDecides
  <2>2. CASE v = x.u
    <3>1. ProfileRows(x.u) = x.rows  BY <1>3, <2>1
    <3>2. x.role = roleOf[x.u]  BY <1>1, <3>1 DEF ProfileRows
    <3>3. /\ x.verdict = "REJECT" => s = "BLOCKED" /\ r # "employee"
          /\ x.verdict = "APPROVE" => s = "ACTIVE" /\ r # "user"
      BY <3>2 DEF ModeratedRole
    <3>4. decided'[v] = x.verdict /\ roleOf'[v] = r /\ profile'[v]["EMPLOYEE"] = s
      BY <1>1, <1>2, <1>3, <1>5, <2>2 DEF ProfileTypes
    <3>. QED  BY <3>3, <3>4
  <2>3. CASE v # x.u
    <3>1. decided'[v] = decided[v] /\ roleOf'[v] = roleOf[v] /\ profile'[v]["EMPLOYEE"] = profile[v]["EMPLOYEE"]
      BY <1>2, <1>3, <1>5, <2>3 DEF ProfileTypes
    <3>2. ~overlapped  BY <1>7, <2>1
    <3>. QED  BY <3>1, <3>2 DEF ProfilesInv, ModerationDecides
  <2>. QED  BY <2>2, <2>3
<1>. QED
  BY <1>3, <1>6, <1>7, <1>9, <1>10, <1>11, EndOK, DepartmentsStay, TermsStay, HandlingStep

-----------------------------------------------------------------------------
(* Profiles: the invariant and its theorem.                                  *)

LEMMA ProfilesStart ==
  ASSUME ProfilesInit
  PROVE  ProfilesInv
<1>1. NoTerms \in Terms /\ TermsFit(NoTerms)
  BY DEF NoTerms, Terms, Maybe, TermsFit
<1>2. ProfilesTypeOK
  BY <1>1 DEF ProfilesInit, ProfilesTypeOK, Maybe, RoleNames
<1>3. ASSUME NEW c \in Handlers PROVE HandlingOK(c)
  <2>1. handling[c].pc = "idle"  BY DEF ProfilesInit, Free
  <2>. QED  BY <2>1 DEF HandlingOK
<1>4. handling = [c \in Handlers |-> handling[c]]  BY DEF ProfilesInit
<1>5. CurrentProfileExists /\ WorksWhereAllowed
  BY DEF ProfilesInit, CurrentProfileExists, WorksWhereAllowed
<1>6. ModerationDecides
  BY NoneAssumption DEF ProfilesInit, ModerationDecides
<1>7. \A u \in People : TermsFit(terms[u])  BY <1>1 DEF ProfilesInit
<1>. QED  BY <1>2, <1>3, <1>4, <1>5, <1>6, <1>7 DEF ProfilesInv

LEMMA ProfilesKept ==
  ASSUME ProfilesInv, [ProfilesNext]_profiles
  PROVE  ProfilesInv'
<1>1. NoTerms \in Terms  BY DEF NoTerms, Terms, Maybe
<1>2. ClientRequests \subseteq Terms  BY ReferencesAssumption
<1>3. "CLIENT" \in ProfileTypes /\ "SUPPLIER" \in ProfileTypes  BY DEF ProfileTypes
<1>4. CASE UNCHANGED profiles
  <2>1. UNCHANGED ProfileData /\ handling' = handling  BY <1>4 DEF profiles, ProfileData
  <2>. QED  BY <2>1, DataStays, DirectStep
<1>5. ASSUME NEW c \in Handlers, NEW u \in People,
             \/ \E q \in ClientRequests, a \in BOOLEAN : BeginProfile(c, u, "CLIENT", q, a)
             \/ \E a \in BOOLEAN : BeginProfile(c, u, "SUPPLIER", NoTerms, a)
             \/ \E d \in Departments : BeginEmployee(c, u, d)
             \/ \E d \in Departments \cup {None} : ReadActiveDepartment(c, u, d)
             \/ \E v \in {"APPROVE", "REJECT"} : ReadModeration(c, u, v)
      PROVE  ProfilesInv'
  BY <1>1, <1>2, <1>3, <1>5, BeginProfileStep, BeginEmployeeStep, ReadActiveDepartmentStep, ReadModerationStep
     DEF Maybe, Verdicts
<1>6. ASSUME NEW c \in Handlers,
             \/ CreateProfile(c) \/ EnterProfile(c) \/ WriteActiveDepartment(c) \/ WriteModeration(c)
             \/ \E d \in Departments : BeginDelete(c, d)
             \/ ClearPrimary(c) \/ ClearActive(c) \/ ClearManagers(c) \/ FailCall(c)
      PROVE  ProfilesInv'
  BY <1>6, CreateProfileStep, EnterProfileStep, WriteActiveDepartmentStep, WriteModerationStep, BeginDeleteStep,
     ClearPrimaryStep, ClearActiveStep, ClearManagersStep, FailCallStep
<1>7. ASSUME NEW u \in People,
             \/ \E t \in ProfileTypes \cup {None} : ChooseProfile(u, t)
             \/ \E d \in Departments \cup {None} : SetDepartment(u, d)
             \/ \E d \in Departments : AssignManager(u, d)
             \/ \E t \in ProfileTypes, s \in Statuses : EditStatus(u, t, s)
             \/ \E r \in {"user", "employee", "admin"} : AssignRole(u, r)
      PROVE  ProfilesInv'
  BY <1>7, ChooseProfileStep, SetDepartmentStep, AssignManagerStep, EditStatusStep, AssignRoleStep
     DEF Maybe, RoleNames
<1>. QED  BY <1>4, <1>5, <1>6, <1>7 DEF ProfilesNext

\* However the requests of several people overlap, fail half-way or repeat, the rows of a user
\* agree: the current profile exists, an employee works where the rows allow it, the moderation
\* is what status and role say (both unless a request wrote by rows that had changed since it
\* read them) and the references of a client profile belong together (routes/users.ts).
THEOREM ProfileRowsAgree == ProfilesSpec => []ProfilesAgree
<1>1. ProfilesInv => ProfilesAgree
  <2>1. (\A u \in People : TermsFit(terms[u])) => ClientTermsAgree
    BY DEF TermsFit, ClientTermsAgree
  <2>. QED  BY <2>1 DEF ProfilesInv, ProfilesAgree
<1>. QED  BY <1>1, ProfilesStart, ProfilesKept, PTL DEF ProfilesSpec

=============================================================================
