---------------------------- MODULE MessengerAuth ----------------------------
(***************************************************************************)
(* Telegram and MAX as keys to an account:                                 *)
(*                                                                         *)
(*   - QR sign-in (messengerQrAuthSessionService.ts): a browser shows a    *)
(*     code and polls, a phone opens it in a bot and sends its contact;    *)
(*   - phone verification (phoneVerificationService.ts): a signed-in user  *)
(*     asks for a number, opens a link in a bot and sends the contact;     *)
(*   - the user a contact stands for (resolveTelegramUserState and its MAX *)
(*     twin in routes/auth.ts), also for the mini-apps, and their /link.   *)
(*                                                                         *)
(* No handler holds a lock and only one writes in a transaction: every     *)
(* statement is a step, and what a handler has read may be old when it     *)
(* writes.  The tables' unique indexes refuse a second owner of a phone    *)
(* or of a messenger account.  Tokens and codes are the ids of their rows. *)
(***************************************************************************)
EXTENDS Naturals, FiniteSets

CONSTANTS
  Users,
  Accounts,        \* messenger accounts
  ProviderOf,      \* the messenger of an account
  Phones,
  QrSessions,
  PhoneSessions,   \* numbers: a later session has a larger one
  Requests,        \* requests and bot updates served at the same time
  Null,
  InitialUsers,    \* the tables of users a behaviour starts from
  MaxRequests,     \* bound: requests and updates that neither poll nor start a session
  MaxFaults        \* bound: statements that fail

Providers == {"TELEGRAM", "MAX"}

UserRows == [phone: Phones \cup {Null}, link: [Providers -> Accounts \cup {Null}]]

QrStatuses == {"PENDING", "AWAITING_CONTACT", "VERIFIED", "CONSUMED", "EXPIRED", "CANCELLED", "FAILED"}

\* expired: expiresAt is in the past.
QrRows ==
  [provider: Providers, status: QrStatuses, account: Accounts \cup {Null},
   resolved: Users \cup {Null}, expired: BOOLEAN]

PhoneRows ==
  [user: Users, phone: Phones, provider: Providers, account: Accounts \cup {Null},
   status: {"PENDING", "VERIFIED", "FAILED", "EXPIRED", "CANCELLED"}, expired: BOOLEAN]

\* What a handler in progress has read: a QR session q, a phone session s,
\* the account a and phone p of a contact, a user u, the owner o of a, the
\* messenger asked for.
CallRecords ==
  [pc: {"idle", "expireQr", "cancelQr", "issue", "consume", "bindQr",
        "active", "byLink", "ownerOfPhone", "setPhone", "byPhone", "attach", "create",
        "markVerified", "markFailed", "verifyQr", "failQr",
        "phoneSession", "phoneOwner", "accountOwner", "commitPhone", "expirePhone", "failPhone",
        "bindPhone", "replace", "openPhone", "link"},
   bot: BOOLEAN, q: QrSessions \cup {Null}, s: PhoneSessions \cup {Null},
   a: Accounts \cup {Null}, p: Phones \cup {Null},
   u: Users \cup {Null}, o: Users \cup {Null}, via: Providers \cup {Null}]

IdleCall ==
  [pc |-> "idle", bot |-> FALSE, q |-> Null, s |-> Null, a |-> Null, p |-> Null,
   u |-> Null, o |-> Null, via |-> Null]

ASSUME ProviderAssumption == ProviderOf \in [Accounts -> Providers]
ASSUME NullAssumption ==
  /\ Null \notin Users \cup Accounts \cup Phones \cup QrSessions \cup PhoneSessions
  /\ Null \notin UserRows /\ Null \notin QrRows /\ Null \notin PhoneRows
ASSUME SessionsAssumption == PhoneSessions \subseteq Nat
ASSUME BoundsAssumption == MaxRequests \in Nat /\ MaxFaults \in Nat

\* The unique indexes of telegramId, maxId and phone.
Unique(table) ==
  \A u \in Users : \A v \in Users \ {u} : table[u] # Null /\ table[v] # Null =>
    /\ table[u].phone # Null => table[u].phone # table[v].phone
    /\ \A m \in Providers : table[u].link[m] # Null => table[u].link[m] # table[v].link[m]

ASSUME InitialUsersAssumption ==
  \A table \in InitialUsers : table \in [Users -> UserRows \cup {Null}] /\ Unique(table)

VARIABLES
  user, qr, phone,   \* the tables
  contact,           \* the cache of the contacts the bots received
  call,              \* the handlers in progress
  budget, faults,    \* what is left of MaxRequests and MaxFaults
  opened,            \* history: which account opened which QR or phone session
  sent,              \* history: which account sent which phone
  identified,        \* history: which account was taken for which user
  signedIn           \* history: which QR session signed in which user

vars == <<user, qr, phone, contact, call, budget, faults, opened, sent, identified, signedIn>>
tables == <<user, qr, phone, contact>>
history == <<opened, sent, identified, signedIn>>

Init ==
  /\ user \in InitialUsers
  /\ qr = [q \in QrSessions |-> Null]
  /\ phone = [s \in PhoneSessions |-> Null]
  /\ contact = [a \in Accounts |-> Null]
  /\ call = [r \in Requests |-> IdleCall]
  /\ budget = MaxRequests /\ faults = MaxFaults
  /\ opened = {} /\ sent = {} /\ identified = {} /\ signedIn = {}

----------------------------------------------------------------------------
(* Queries on the tables.                                                  *)

At(r, pc) == call[r].pc = pc
Goto(r, pc) == call' = [call EXCEPT ![r].pc = pc]
Return(r) == call' = [call EXCEPT ![r] = IdleCall]
Begin(r, c) == call' = [call EXCEPT ![r] = IF c.pc = "idle" THEN IdleCall ELSE c]

\* A request or an update arrives where none is being served.
Arrives(r) == At(r, "idle") /\ budget > 0 /\ budget' = budget - 1 /\ UNCHANGED faults

Step(r, pc) == At(r, pc) /\ UNCHANGED <<budget, faults>>

LinkedTo(a) == {u \in Users : user[u] # Null /\ user[u].link[ProviderOf[a]] = a}
OwnersOf(p) == {u \in Users : user[u] # Null /\ user[u].phone = p}

ActiveStatuses == {"PENDING", "AWAITING_CONTACT"}
IsActive(q) == qr[q].status \in ActiveStatuses

\* Mutant of ActiveSessions: whose contact it is does not matter.
MutAnyAccount(a) ==
  {q \in QrSessions : qr[q] # Null /\ qr[q].provider = ProviderOf[a] /\ IsActive(q) /\ ~qr[q].expired}

\* The sessions getLatestActive... chooses from; which is the latest is left open.
ActiveSessions(a) ==
  {q \in QrSessions : qr[q] # Null /\ qr[q].provider = ProviderOf[a] /\ qr[q].account = a
                        /\ IsActive(q) /\ ~qr[q].expired}

PendingSessions(a) ==
  {s \in PhoneSessions : phone[s] # Null /\ phone[s].provider = ProviderOf[a]
                           /\ phone[s].account = a /\ phone[s].status = "PENDING"}

SetQr(q, status) == qr' = [qr EXCEPT ![q].status = status]
SetPhoneSession(s, status) == phone' = [phone EXCEPT ![s].status = status]

----------------------------------------------------------------------------
(* The browser: start, poll and cancel.                                    *)

StartQr(r, q, provider) ==
  /\ Step(r, "idle") /\ qr[q] = Null
  /\ qr' = [qr EXCEPT ![q] = [provider |-> provider, status |-> "PENDING", account |-> Null,
                              resolved |-> Null, expired |-> FALSE]]
  /\ UNCHANGED <<user, phone, contact, call, history>>

\* What a handler does with the session it has read: an active session that
\* has expired is marked, an active one goes on, any other is left alone.
Looked(q, next) ==
  IF ~IsActive(q) THEN "idle" ELSE IF qr[q].expired THEN "expireQr" ELSE next

\* getMessengerQrAuthSessionByClientToken and handleQrAuthStatus.
PollQr(r, q) ==
  /\ Step(r, "idle") /\ qr[q] # Null
  /\ Begin(r, [IdleCall EXCEPT !.q = q, !.u = qr[q].resolved,
                 !.pc = IF qr[q].status = "VERIFIED" /\ qr[q].resolved # Null THEN "issue"
                        ELSE Looked(q, "idle")])
  /\ UNCHANGED <<tables, history>>

CancelQr(r, q) ==
  /\ Arrives(r) /\ qr[q] # Null
  /\ Begin(r, [IdleCall EXCEPT !.q = q, !.pc = Looked(q, "cancelQr")])
  /\ UNCHANGED <<tables, history>>

ExpireQr(r) ==
  /\ Step(r, "expireQr") /\ SetQr(call[r].q, "EXPIRED") /\ Return(r)
  /\ UNCHANGED <<user, phone, contact, history>>

CancelQrWrite(r) ==
  /\ Step(r, "cancelQr") /\ SetQr(call[r].q, "CANCELLED") /\ Return(r)
  /\ UNCHANGED <<user, phone, contact, history>>

\* issueAuthTokensForUser, whose tokens are the subject of RefreshTokens.
Issue(r) ==
  /\ Step(r, "issue")
  /\ signedIn' = signedIn \cup {<<call[r].q, call[r].u>>}
  /\ Goto(r, "consume")
  /\ UNCHANGED <<tables, opened, sent, identified>>

Consume(r) ==
  /\ Step(r, "consume")
  /\ qr' = IF qr[call[r].q].status = "VERIFIED" THEN [qr EXCEPT ![call[r].q].status = "CONSUMED"] ELSE qr
  /\ Return(r)
  /\ UNCHANGED <<user, phone, contact, history>>

----------------------------------------------------------------------------
(* A bot is started with the code of a QR session or of a verification.    *)

BindQr(r, a, q) ==
  /\ Arrives(r) /\ qr[q] # Null /\ qr[q].provider = ProviderOf[a]
  /\ Begin(r, [IdleCall EXCEPT !.q = q, !.a = a, !.pc = Looked(q, "bindQr")])
  /\ UNCHANGED <<tables, history>>

BindQrWrite(r) ==
  /\ Step(r, "bindQr")
  /\ qr' = [qr EXCEPT ![call[r].q].account = call[r].a, ![call[r].q].status = "AWAITING_CONTACT"]
  /\ opened' = opened \cup {<<call[r].q, call[r].a>>}
  /\ Return(r)
  /\ UNCHANGED <<user, phone, contact, sent, identified, signedIn>>

BindPhone(r, a, s) ==
  /\ Arrives(r) /\ phone[s] # Null /\ phone[s].provider = ProviderOf[a] /\ phone[s].status = "PENDING"
  /\ Begin(r, [IdleCall EXCEPT !.s = s, !.a = a,
                 !.pc = IF phone[s].expired THEN "expirePhone" ELSE "bindPhone"])
  /\ UNCHANGED <<tables, history>>

BindPhoneWrite(r) ==
  /\ Step(r, "bindPhone")
  /\ phone' = [phone EXCEPT ![call[r].s].account = call[r].a]
  /\ opened' = opened \cup {<<call[r].s, call[r].a>>}
  /\ Return(r)
  /\ UNCHANGED <<user, qr, contact, sent, identified, signedIn>>

----------------------------------------------------------------------------
(* A contact is sent to a bot, or a mini-app asks who its user is.         *)

BotContact(r, a, p) ==
  /\ Arrives(r)
  /\ contact' = [contact EXCEPT ![a] = p] /\ sent' = sent \cup {<<a, p>>}
  /\ Begin(r, [IdleCall EXCEPT !.bot = TRUE, !.a = a, !.p = p, !.pc = "active"])
  /\ UNCHANGED <<user, qr, phone, opened, identified, signedIn>>

AppContact(r, a, p) ==
  /\ Arrives(r)
  /\ contact' = [contact EXCEPT ![a] = p] /\ sent' = sent \cup {<<a, p>>}
  /\ Begin(r, [IdleCall EXCEPT !.a = a, !.p = p, !.pc = "byLink"])
  /\ UNCHANGED <<user, qr, phone, opened, identified, signedIn>>

\* /init and /contact-status; the cache forgets a contact after a while.
AppStatus(r, a) ==
  /\ Arrives(r)
  /\ \E p \in {contact[a], Null} : Begin(r, [IdleCall EXCEPT !.a = a, !.p = p, !.pc = "byLink"])
  /\ UNCHANGED <<tables, history>>

FindActive(r) ==
  /\ Step(r, "active")
  /\ Goto(r, IF ActiveSessions(call[r].a) = {} THEN "phoneSession" ELSE "byLink")
  /\ UNCHANGED <<tables, history>>

----------------------------------------------------------------------------
(* resolveTelegramUserState and resolveMaxUserState.                       *)

\* READY and the other outcomes.  A bot goes on with the QR session.
Ready(r, u) ==
  /\ identified' = identified \cup {<<call[r].a, u>>}
  /\ IF call[r].bot THEN call' = [call EXCEPT ![r].u = u, ![r].pc = "markVerified"] ELSE Return(r)
  /\ UNCHANGED <<opened, sent, signedIn>>

NotReady(r) ==
  /\ IF call[r].bot THEN Goto(r, "markFailed") ELSE Return(r)
  /\ UNCHANGED history

\* The unique indexes.
PhoneFree(p, u) == OwnersOf(p) \subseteq {u}
AccountFree(a, u) == LinkedTo(a) \subseteq {u}

ByLink(r) ==
  LET c == call[r]
  IN  /\ Step(r, "byLink")
      /\ \/ \E u \in LinkedTo(c.a) :
              IF user[u].phone = Null /\ c.p # Null
                THEN call' = [call EXCEPT ![r].u = u, ![r].pc = "ownerOfPhone"] /\ UNCHANGED history
                ELSE Ready(r, u)
         \/ LinkedTo(c.a) = {} /\ c.p = Null /\ NotReady(r)
         \/ LinkedTo(c.a) = {} /\ c.p # Null /\ Goto(r, "byPhone") /\ UNCHANGED history
      /\ UNCHANGED tables

OwnerOfPhone(r) ==
  /\ Step(r, "ownerOfPhone")
  /\ IF PhoneFree(call[r].p, call[r].u) THEN Goto(r, "setPhone") /\ UNCHANGED history
                                        ELSE Ready(r, call[r].u)
  /\ UNCHANGED tables

SetPhone(r) ==
  LET c == call[r]
  IN  /\ Step(r, "setPhone")
      /\ IF PhoneFree(c.p, c.u)
           THEN user' = [user EXCEPT ![c.u].phone = c.p] /\ Ready(r, c.u)
           ELSE UNCHANGED user /\ NotReady(r)
      /\ UNCHANGED <<qr, phone, contact>>

\* A user who has another account of this messenger must link it: NEED_LINK.
ByPhone(r) ==
  LET c == call[r]
  IN  /\ Step(r, "byPhone")
      /\ \/ \E u \in OwnersOf(c.p) :
              IF user[u].link[ProviderOf[c.a]] \in {Null, c.a}
                THEN call' = [call EXCEPT ![r].u = u, ![r].pc = "attach"] /\ UNCHANGED history
                ELSE NotReady(r)
         \/ OwnersOf(c.p) = {} /\ Goto(r, "create") /\ UNCHANGED history
      /\ UNCHANGED tables

Attach(r) ==
  LET c == call[r]
  IN  /\ Step(r, "attach")
      /\ IF AccountFree(c.a, c.u)
           THEN user' = [user EXCEPT ![c.u].link[ProviderOf[c.a]] = c.a] /\ Ready(r, c.u)
           ELSE UNCHANGED user /\ NotReady(r)
      /\ UNCHANGED <<qr, phone, contact>>

Create(r, u) ==
  LET c == call[r]
  IN  /\ Step(r, "create") /\ user[u] = Null
      /\ IF PhoneFree(c.p, u) /\ AccountFree(c.a, u)
           THEN /\ user' = [user EXCEPT ![u] =
                     [phone |-> c.p, link |-> [v \in Providers |-> IF v = ProviderOf[c.a] THEN c.a ELSE Null]]]
                /\ Ready(r, u)
           ELSE UNCHANGED user /\ NotReady(r)
      /\ UNCHANGED <<qr, phone, contact>>

\* markLatestMessengerQrAuthSessionVerified and ...Failed: find, then update.
MarkQr(r) ==
  /\ call[r].pc \in {"markVerified", "markFailed"} /\ UNCHANGED <<budget, faults>>
  /\ \/ \E q \in ActiveSessions(call[r].a) :
          call' = [call EXCEPT ![r].q = q,
                               ![r].pc = IF @ = "markVerified" THEN "verifyQr" ELSE "failQr"]
     \/ ActiveSessions(call[r].a) = {} /\ Goto(r, "phoneSession")
  /\ UNCHANGED <<tables, history>>


VerifyQr(r) ==
  /\ Step(r, "verifyQr")
  /\ qr' = [qr EXCEPT ![call[r].q].status = "VERIFIED", ![call[r].q].resolved = call[r].u]
  /\ Goto(r, "phoneSession")
  /\ UNCHANGED <<user, phone, contact, history>>

FailQr(r) ==
  /\ Step(r, "failQr") /\ SetQr(call[r].q, "FAILED") /\ Goto(r, "phoneSession")
  /\ UNCHANGED <<user, phone, contact, history>>

----------------------------------------------------------------------------
(* The same contact may be the answer to a phone verification.             *)

\* Mutant of PhoneMatches: the contact is not compared with the request.
MutAnyPhone(s, p) == TRUE

PhoneMatches(s, p) == phone[s].phone = p

FindPhoneSession(r) ==
  LET c == call[r]
  IN  /\ Step(r, "phoneSession")
      /\ \/ PendingSessions(c.a) = {} /\ Return(r)
         \/ \E s \in PendingSessions(c.a) :
              /\ \A v \in PendingSessions(c.a) : v <= s
              /\ call' = [call EXCEPT ![r].s = s, ![r].u = phone[s].user, ![r].pc =
                            IF phone[s].expired THEN "expirePhone"
                            ELSE IF ~PhoneMatches(s, c.p) THEN "failPhone" ELSE "phoneOwner"]
      /\ UNCHANGED <<tables, history>>

PhoneOwner(r) ==
  /\ Step(r, "phoneOwner")
  /\ Goto(r, IF PhoneFree(call[r].p, call[r].u) THEN "accountOwner" ELSE "failPhone")
  /\ UNCHANGED <<tables, history>>

\* Mutant of Refuses: MAX takes accounts as Telegram does.
MutMaxTakes(a) == FALSE

\* Telegram takes the account from its owner, MAX refuses.
Refuses(a) == ProviderOf[a] = "MAX"

AccountOwner(r) ==
  LET others == LinkedTo(call[r].a) \ {call[r].u}
  IN  /\ Step(r, "accountOwner")
      /\ \/ others = {} /\ Goto(r, "commitPhone")
         \/ others # {} /\ Refuses(call[r].a) /\ Goto(r, "failPhone")
         \/ \E o \in others : ~Refuses(call[r].a)
                               /\ call' = [call EXCEPT ![r].o = o, ![r].pc = "commitPhone"]
      /\ UNCHANGED <<tables, history>>

\* The transaction; a unique index may roll it back.
CommitPhone(r) ==
  LET c == call[r]
      given == [user EXCEPT ![c.u].phone = c.p, ![c.u].link[ProviderOf[c.a]] = c.a]
  IN  /\ Step(r, "commitPhone")
      /\ IF PhoneFree(c.p, c.u) /\ LinkedTo(c.a) \subseteq {c.u, c.o}
           THEN /\ user' = IF c.o = Null THEN given
                           ELSE [given EXCEPT ![c.o].link[ProviderOf[c.a]] = Null]
                /\ SetPhoneSession(c.s, "VERIFIED")
           ELSE UNCHANGED <<user, phone>>
      /\ Return(r)
      /\ UNCHANGED <<qr, contact, history>>

ExpirePhone(r) ==
  /\ Step(r, "expirePhone") /\ SetPhoneSession(call[r].s, "EXPIRED") /\ Return(r)
  /\ UNCHANGED <<user, qr, contact, history>>

FailPhone(r) ==
  /\ Step(r, "failPhone") /\ SetPhoneSession(call[r].s, "FAILED") /\ Return(r)
  /\ UNCHANGED <<user, qr, contact, history>>

----------------------------------------------------------------------------
(* The signed-in user: phone verification and /link.                       *)

StartPhone(r, u, p, provider) ==
  /\ Step(r, "idle") /\ user[u] # Null /\ PhoneFree(p, u)
  /\ \E s \in PhoneSessions : \A v \in PhoneSessions : phone[v] # Null => v < s
  /\ Begin(r, [IdleCall EXCEPT !.u = u, !.p = p, !.via = provider, !.pc = "replace"])
  /\ UNCHANGED <<tables, history>>

ReplacePending(r) ==
  /\ Step(r, "replace")
  /\ phone' = [s \in PhoneSessions |->
                 IF phone[s] # Null /\ phone[s].user = call[r].u /\ phone[s].status = "PENDING"
                   THEN [phone[s] EXCEPT !.status = "CANCELLED"] ELSE phone[s]]
  /\ Goto(r, "openPhone")
  /\ UNCHANGED <<user, qr, contact, history>>

OpenPhone(r, s) ==
  /\ Step(r, "openPhone") /\ \A v \in PhoneSessions : phone[v] # Null => v < s
  /\ phone' = [phone EXCEPT ![s] =
                 [user |-> call[r].u, phone |-> call[r].p, provider |-> call[r].via,
                  account |-> Null, status |-> "PENDING", expired |-> FALSE]]
  /\ Return(r)
  /\ UNCHANGED <<user, qr, contact, history>>

PollPhone(r, s) ==
  /\ Step(r, "idle") /\ phone[s] # Null /\ phone[s].status = "PENDING" /\ phone[s].expired
  /\ Begin(r, [IdleCall EXCEPT !.s = s, !.pc = "expirePhone"])
  /\ UNCHANGED <<tables, history>>

CancelPhone(r, s) ==
  /\ Arrives(r) /\ phone[s] # Null /\ phone[s].status = "PENDING"
  /\ SetPhoneSession(s, "CANCELLED")
  /\ UNCHANGED <<user, qr, contact, call, history>>

Link(r, u, a) ==
  /\ Arrives(r) /\ user[u] # Null /\ AccountFree(a, u)
  /\ Begin(r, [IdleCall EXCEPT !.u = u, !.a = a, !.pc = "link"])
  /\ UNCHANGED <<tables, history>>

LinkWrite(r) ==
  LET c == call[r]
  IN  /\ Step(r, "link")
      /\ user' = IF AccountFree(c.a, c.u) THEN [user EXCEPT ![c.u].link[ProviderOf[c.a]] = c.a] ELSE user
      /\ Return(r)
      /\ UNCHANGED <<qr, phone, contact, history>>

----------------------------------------------------------------------------
(* Failures and time.                                                      *)

\* The catch of resolve...QrSessionByContact marks the QR session failed.
Caught == {"byLink", "ownerOfPhone", "setPhone", "byPhone", "attach", "create", "markVerified", "verifyQr"}

Fail(r) ==
  /\ ~At(r, "idle") /\ faults > 0 /\ faults' = faults - 1
  /\ IF call[r].bot /\ call[r].pc \in Caught THEN Goto(r, "markFailed") ELSE Return(r)
  /\ UNCHANGED <<tables, budget, history>>

QrExpires(q) ==
  /\ qr[q] # Null /\ ~qr[q].expired
  /\ qr' = [qr EXCEPT ![q].expired = TRUE]
  /\ UNCHANGED <<user, phone, contact, call, budget, faults, history>>

PhoneExpires(s) ==
  /\ phone[s] # Null /\ ~phone[s].expired
  /\ phone' = [phone EXCEPT ![s].expired = TRUE]
  /\ UNCHANGED <<user, qr, contact, call, budget, faults, history>>

----------------------------------------------------------------------------
Request(r) ==
  \/ \E q \in QrSessions :
       \/ \E provider \in Providers : StartQr(r, q, provider)
       \/ CancelQr(r, q)
       \/ \E a \in Accounts : BindQr(r, a, q)
  \/ \E s \in PhoneSessions : CancelPhone(r, s) \/ \E a \in Accounts : BindPhone(r, a, s)
  \/ \E a \in Accounts :
       \/ AppStatus(r, a)
       \/ \E p \in Phones : BotContact(r, a, p) \/ AppContact(r, a, p)
       \/ \E u \in Users : Link(r, u, a)
  \/ \E u \in Users, p \in Phones, provider \in Providers : StartPhone(r, u, p, provider)

Serve(r) ==
  \/ ExpireQr(r) \/ CancelQrWrite(r) \/ Issue(r) \/ Consume(r) \/ BindQrWrite(r) \/ BindPhoneWrite(r)
  \/ FindActive(r) \/ ByLink(r) \/ OwnerOfPhone(r) \/ SetPhone(r) \/ ByPhone(r) \/ Attach(r)
  \/ \E u \in Users : Create(r, u)
  \/ MarkQr(r) \/ VerifyQr(r) \/ FailQr(r)
  \/ FindPhoneSession(r) \/ PhoneOwner(r) \/ AccountOwner(r) \/ CommitPhone(r) \/ ExpirePhone(r) \/ FailPhone(r)
  \/ ReplacePending(r) \/ \E s \in PhoneSessions : OpenPhone(r, s)
  \/ LinkWrite(r)

Next ==
  \/ \E r \in Requests :
       \/ Request(r) \/ Serve(r) \/ Fail(r)
       \/ \E q \in QrSessions : PollQr(r, q)
       \/ \E s \in PhoneSessions : PollPhone(r, s)
  \/ \E q \in QrSessions : QrExpires(q)
  \/ \E s \in PhoneSessions : PhoneExpires(s)

Spec == Init /\ [][Next]_vars

----------------------------------------------------------------------------
(* Properties.                                                             *)

\* Every variable has its type.
TypeOK ==
  /\ user \in [Users -> UserRows \cup {Null}]
  /\ qr \in [QrSessions -> QrRows \cup {Null}]
  /\ phone \in [PhoneSessions -> PhoneRows \cup {Null}]
  /\ contact \in [Accounts -> Phones \cup {Null}]
  /\ call \in [Requests -> CallRecords]
  /\ budget \in Nat /\ faults \in Nat
  /\ opened \subseteq (QrSessions \cup PhoneSessions) \X Accounts
  /\ sent \subseteq Accounts \X Phones
  /\ identified \subseteq Accounts \X Users
  /\ signedIn \subseteq QrSessions \X Users

\* A browser is signed in only as a user for whom a messenger account was
\* taken that opened the code of this very browser, however accounts bind,
\* rebind, send contacts and change owners (handleQrAuthStatus,
\* markLatestMessengerQrAuthSessionVerified).
SignedInByScanner ==
  \A q \in QrSessions, u \in Users : <<q, u>> \in signedIn =>
    \E a \in Accounts : <<q, a>> \in opened /\ <<a, u>> \in identified

\* A phone is verified only by an account that opened the link of the session
\* and sent the very number asked for (verifyPhoneByTelegramContact,
\* verifyPhoneByMaxContact).
PhoneVerifiedByContact ==
  \A s \in PhoneSessions :
    phone[s] # Null /\ phone[s].status = "VERIFIED" =>
      \E a \in Accounts : <<s, a>> \in opened /\ <<a, phone[s].phone>> \in sent

\* A MAX account that belongs to a user is never given to another, whichever
\* handler links it (verifyPhoneByMaxContact, resolveMaxUserState, /max/link).
MaxAccountsKeepTheirUser ==
  [][\A a \in Accounts : ProviderOf[a] = "MAX" =>
       \A u \in LinkedTo(a) : \A v \in Users \ {u} :
         user'[v] # Null => user'[v].link["MAX"] # a]_vars

=============================================================================
