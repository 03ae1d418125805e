---------------------------- MODULE Credentials -----------------------------
(***************************************************************************)
(* Email address, password and activation of one account: registration,    *)
(* login and email verification (routes/auth.ts), password reset           *)
(* (routes/passwordReset.ts) and the change of the address                 *)
(* (services/emailChangeService.ts).                                       *)
(*                                                                         *)
(* Each of the three kinds of codes is a row here: "verify"                *)
(* (EmailVerification), "reset" (PasswordReset) and "change"               *)
(* (EmailChangeSession).  A handler reads the account and a row, and       *)
(* writes both by id in later statements; only the end of an address       *)
(* change is a transaction.  A code can be entered by whoever reads a      *)
(* mailbox it was mailed to.                                               *)
(***************************************************************************)
EXTENDS Naturals, Sequences, FiniteSets

CONSTANTS
  NoEmail,
  Emails,
  MaxTries,        \* MAX_VERIFICATION_ATTEMPTS, EMAIL_CHANGE_MAX_ATTEMPTS
  MaxFailed,       \* MAX_FAILED_LOGIN_ATTEMPTS
  Window,          \* the latest login attempts that are counted
  Clients,         \* requests served at the same time
  MaxTickets, MaxEntries   \* bounds: codes and requests

ASSUME LimitsAssumption == MaxTries \in Nat \ {0} /\ MaxFailed \in Nat \ {0} /\ Window \in Nat
ASSUME NoEmailAssumption == NoEmail \notin Emails

VARIABLES
  account,     \* [exists, email, active, status] of User
  taken,       \* addresses of other accounts
  ticket,      \* the codes, oldest first
  mailed,      \* <<ticket, version, address>>: codes that were mailed
  attempts,    \* LoginAttempt.success, oldest first
  client,      \* the requests in progress
  issuer,      \* the requests for a reset or a change whose code is not created yet
  entries,
  proved,      \* history: addresses whose mailbox a right answer came from
  wrong,       \* history: wrong answers that were judged, for each ticket
  excused,     \* history: requests overlapped, or an administrator edited the address
  reopened     \* history: the block was lifted, or its statement did not run

credentials == <<account, taken, ticket, mailed, attempts, client, issuer, entries, proved, wrong,
                 excused, reopened>>

NotBusy == [pc |-> "idle"]

CredentialsInit ==
  /\ \/ account = [exists |-> FALSE, email |-> NoEmail, active |-> FALSE, status |-> "PENDING"]
     \* an account made by a messenger sign-in
     \/ account = [exists |-> TRUE, email |-> NoEmail, active |-> TRUE, status |-> "ACTIVE"]
  /\ taken = {} /\ ticket = <<>> /\ mailed = {} /\ attempts = <<>>
  /\ client = [c \in Clients |-> NotBusy] /\ issuer = [c \in Clients |-> NotBusy] /\ entries = 0
  /\ proved = {} /\ wrong = <<>> /\ excused = FALSE /\ reopened = FALSE

\* findFirst({used: false}), the newest first.
Newest(kind) ==
  LET S == {i \in 1..Len(ticket) : ticket[i].kind = kind /\ ticket[i].open}
  IN IF S = {} THEN 0 ELSE CHOOSE i \in S : \A j \in S : j <= i

NewTicket(kind, to) ==
  [kind |-> kind, to |-> to, version |-> 0, open |-> TRUE, tries |-> 0, live |-> TRUE, fresh |-> TRUE]
AddTicket(rows, kind, to) == Append(rows, NewTicket(kind, to))
Closed(rows, i) == [rows EXCEPT ![i].open = FALSE]
\* The mail may fail after the row is written.
Mail(i, version, to) == mailed' \in {mailed, mailed \cup {<<i, version, to>>}}

Occupied == \E c \in Clients : client[c] # NotBusy
Counted == entries < MaxEntries /\ entries' = entries + 1
Receive(c, record) == Counted /\ client[c] = NotBusy /\ client' = [client EXCEPT ![c] = record]
Replied(c) == client' = [client EXCEPT ![c] = NotBusy]
\* Two requests overlap from the moment the second one starts.
Joins(c) == excused' = (excused \/ Occupied)

\* POST /register: a new account, or the code of one that was never activated again.
Register(c, e) ==
  /\ e \notin taken /\ Joins(c)
  /\ \/ /\ ~account.exists
        /\ account' = [exists |-> TRUE, email |-> e, active |-> FALSE, status |-> "PENDING"]
     \/ account.exists /\ account.email = e /\ ~account.active /\ UNCHANGED account
  /\ Receive(c, [pc |-> "send", to |-> e])
  /\ UNCHANGED <<issuer, taken, ticket, mailed, attempts, proved, wrong, reopened>>

\* POST /resend
Resend(c) ==
  /\ account.exists /\ account.email # NoEmail /\ ~account.active /\ Joins(c)
  /\ Receive(c, [pc |-> "send", to |-> account.email])
  /\ UNCHANGED <<issuer, account, taken, ticket, mailed, attempts, proved, wrong, reopened>>

\* POST /credentials of a signed-in user; the password is hashed between check and write.
ReadCredentials(c, e) ==
  /\ account.exists /\ account.email \in {NoEmail, e} /\ e \notin taken /\ Joins(c)
  /\ Receive(c, [pc |-> "attach", to |-> e])
  /\ UNCHANGED <<issuer, account, taken, ticket, mailed, attempts, proved, wrong, reopened>>

\* Mutant of WriteCredentials: the account stays active.
MutStaysActive(c) ==
  LET e == client[c].to IN
  /\ client[c].pc = "attach"
  /\ account' = [account EXCEPT !.email = e]
  /\ client' = [client EXCEPT ![c].pc = "send"]
  /\ UNCHANGED <<issuer, taken, ticket, mailed, attempts, entries, proved, wrong, excused, reopened>>

\* A second account with the address is refused by its unique index.
WriteCredentials(c) ==
  LET e == client[c].to IN
  /\ client[c].pc = "attach"
  /\ IF e \in taken THEN Replied(c) /\ UNCHANGED account
     ELSE /\ account' = [account EXCEPT !.email = e, !.active = FALSE]
          /\ client' = [client EXCEPT ![c].pc = "send"]
  /\ UNCHANGED <<issuer, taken, ticket, mailed, attempts, entries, proved, wrong, excused, reopened>>

\* sendVerificationCodeEmail: the old code is sent again while it may still be used, else it is
\* closed and a new one created.
SendCode(c) ==
  LET i == Newest("verify")
      usable == i # 0 /\ ticket[i].tries < MaxTries /\ ticket[i].live
      e == client[c].to
  IN
  /\ client[c].pc = "send"
  /\ \/ usable /\ ticket[i].fresh /\ Replied(c) /\ UNCHANGED <<ticket, mailed>>
     \/ /\ usable /\ ~ticket[i].fresh /\ Replied(c)
        /\ ticket' = [ticket EXCEPT ![i].fresh = TRUE] /\ Mail(i, 0, e)
     \/ /\ ~usable /\ client' = [client EXCEPT ![c].pc = "create"]
        /\ ticket' = (IF i = 0 THEN ticket ELSE Closed(ticket, i)) /\ UNCHANGED mailed
  /\ UNCHANGED <<issuer, account, taken, attempts, entries, proved, wrong, excused, reopened>>

\* A new code, and its mail.
Create(kind, e) ==
  /\ Len(ticket) < MaxTickets
  /\ ticket' = AddTicket(ticket, kind, e) /\ wrong' = Append(wrong, 0) /\ Mail(Len(ticket'), 0, e)

CreateCode(c) ==
  /\ client[c].pc = "create" /\ Create("verify", client[c].to) /\ Replied(c)
  /\ UNCHANGED <<issuer, account, taken, attempts, entries, proved, excused, reopened>>

\* The first statements of a request for a reset or a change close the codes it replaces.
Replaces(c, kind, e) ==
  /\ Counted /\ issuer[c] = NotBusy /\ account.exists
  /\ issuer' = [issuer EXCEPT ![c] = [pc |-> kind, to |-> e]]
  /\ UNCHANGED <<account, taken, mailed, attempts, client, proved, wrong, excused, reopened>>

\* POST /password-reset/request
RequestReset(c, e) ==
  LET i == Newest("reset") IN
  /\ Replaces(c, "reset", e) /\ account.email = e
  /\ ~(i # 0 /\ ticket[i].live /\ ticket[i].fresh)
  /\ ticket' = IF i = 0 THEN ticket ELSE Closed(ticket, i)

\* startEmailChangeSession: sessions in progress are cancelled.
StartChange(c, e) ==
  /\ Replaces(c, "change", e) /\ account.email # e /\ e \notin taken
  /\ ticket' = [i \in 1..Len(ticket) |->
                  IF ticket[i].kind = "change" THEN [ticket[i] EXCEPT !.open = FALSE] ELSE ticket[i]]

Issue(c, kind, e) ==
  /\ issuer[c] = [pc |-> kind, to |-> e] /\ Create(kind, e)
  /\ issuer' = [issuer EXCEPT ![c] = NotBusy]
  /\ UNCHANGED <<account, taken, attempts, client, entries, proved, excused, reopened>>
\* A statement fails: the codes are closed, and there is no new one.
IssueFails(c) ==
  /\ issuer[c] # NotBusy /\ issuer' = [issuer EXCEPT ![c] = NotBusy]
  /\ UNCHANGED <<account, taken, ticket, mailed, attempts, client, entries, proved, wrong, excused,
                 reopened>>

\* resendEmailChangeCode: a new code for the session; its tries go on counting.
ResendChange(i) ==
  /\ ticket[i].kind = "change" /\ ticket[i].open
  /\ \/ ~ticket[i].live /\ ticket' = Closed(ticket, i) /\ UNCHANGED mailed
     \/ /\ ticket[i].live /\ ~ticket[i].fresh /\ ticket[i].version = 0
        /\ ticket' = [ticket EXCEPT ![i].version = 1, ![i].fresh = TRUE]
        /\ Mail(i, 1, ticket[i].to)
  /\ UNCHANGED <<issuer, account, taken, attempts, client, entries, proved, wrong, excused, reopened>>

\* cancelEmailChangeSession; getEmailChangeSessionState closes a session that is past its time.
CloseChange(i) ==
  /\ ticket[i].kind = "change" /\ ticket[i].open /\ ticket' = Closed(ticket, i)
  /\ UNCHANGED <<issuer, account, taken, mailed, attempts, client, entries, proved, wrong, excused, reopened>>

\* The row an answer belongs to: POST /verify, POST /password-reset/change (and /verify, which
\* changes nothing else) and verifyEmailChangeSession.
VerifyRow(i) == i = Newest("verify") /\ account.email # NoEmail /\ ~account.active
ResetRow(i) == i = Newest("reset") /\ account.email # NoEmail
ChangeRow(i) == ticket[i].kind = "change" /\ ticket[i].open

\* box is the mailbox a right answer was read in, NoEmail for a wrong answer.
EnterCode(c, i, box) ==
  /\ account.exists /\ (VerifyRow(i) \/ ResetRow(i) \/ ChangeRow(i))
  /\ box # NoEmail => <<i, ticket[i].version, box>> \in mailed
  /\ Joins(c) /\ Receive(c, [pc |-> ticket[i].kind, i |-> i, box |-> box, row |-> ticket[i]])
  /\ UNCHANGED <<issuer, account, taken, ticket, mailed, attempts, proved, wrong, reopened>>

Entered(c, kind) == client[c].pc = kind

\* The code is too old: the row is closed.
Late(c) ==
  LET x == client[c] IN
  /\ x.pc \in {"verify", "reset", "change"} /\ ~x.row.live
  /\ ticket' = Closed(ticket, x.i) /\ Replied(c)
  /\ UNCHANGED <<issuer, account, taken, mailed, attempts, entries, proved, wrong, excused, reopened>>

\* Mutant of WrongAnswer: the code stays usable after the last try.
MutTriesUncounted(c) ==
  LET x == client[c] IN
  /\ x.pc \in {"verify", "reset", "change"} /\ x.row.live /\ x.box = NoEmail
  /\ ticket' = IF x.pc = "reset" THEN ticket ELSE [ticket EXCEPT ![x.i].tries = x.row.tries + 1]
  /\ wrong' = [wrong EXCEPT ![x.i] = @ + 1]
  /\ Replied(c)
  /\ UNCHANGED <<issuer, account, taken, mailed, attempts, entries, proved, excused, reopened>>

\* A wrong answer is counted from the row read; a change session's status is written with it.
\* Answers to a password reset are not counted.
WrongCode(i, n) == [ticket EXCEPT ![i].tries = n, ![i].open = @ /\ n < MaxTries]
WrongChangeCode(i, n) == [ticket EXCEPT ![i].tries = n, ![i].open = n < MaxTries]
WrongAnswer(c) ==
  LET x == client[c]
      n == x.row.tries + 1
  IN
  /\ x.pc \in {"verify", "reset", "change"} /\ x.row.live /\ x.box = NoEmail
  /\ ticket' = CASE x.pc = "reset" -> ticket
                 [] x.pc = "verify" -> WrongCode(x.i, n)
                 [] x.pc = "change" -> WrongChangeCode(x.i, n)
  /\ wrong' = [wrong EXCEPT ![x.i] = @ + 1]
  /\ Replied(c)
  /\ UNCHANGED <<issuer, account, taken, mailed, attempts, entries, proved, excused, reopened>>

RightAnswer(c, kind) == Entered(c, kind) /\ client[c].row.live /\ client[c].box # NoEmail

\* POST /verify: the code is used, then the account is activated, whatever its status was.
UseCode(c) ==
  /\ RightAnswer(c, "verify")
  /\ ticket' = Closed(ticket, client[c].i)
  /\ client' = [client EXCEPT ![c].pc = "activate"]
  /\ UNCHANGED <<issuer, account, taken, mailed, attempts, entries, proved, wrong, excused, reopened>>
Activate(c) ==
  /\ Entered(c, "activate") /\ Replied(c)
  /\ account' = [account EXCEPT !.active = TRUE, !.status = "ACTIVE"]
  /\ proved' = proved \cup {client[c].box}
  /\ reopened' = (reopened \/ account.status = "BLOCKED")
  /\ UNCHANGED <<issuer, taken, ticket, mailed, attempts, entries, wrong, excused>>

\* POST /password-reset/change: the password is written, then the code is used.
ChangePassword(c) ==
  /\ RightAnswer(c, "reset")
  /\ client' = [client EXCEPT ![c].pc = "useReset"]
  /\ UNCHANGED <<issuer, account, taken, ticket, mailed, attempts, entries, proved, wrong, excused, reopened>>
UseReset(c) ==
  /\ Entered(c, "useReset") /\ Replied(c)
  /\ ticket' = Closed(ticket, client[c].i)
  /\ UNCHANGED <<issuer, account, taken, mailed, attempts, entries, proved, wrong, excused, reopened>>

\* verifyEmailChangeSession: a free address is taken over in one transaction with the sessions.
ChangeEmail(c) ==
  LET e == client[c].row.to IN
  /\ RightAnswer(c, "change") /\ Replied(c)
  /\ IF e \in taken
     THEN ticket' = Closed(ticket, client[c].i) /\ UNCHANGED <<account, proved>>
     ELSE /\ account' = [account EXCEPT !.email = e]
          /\ ticket' = [i \in 1..Len(ticket) |->
                          IF ticket[i].kind = "change" THEN [ticket[i] EXCEPT !.open = FALSE] ELSE ticket[i]]
          /\ proved' = proved \cup {client[c].box}
  /\ UNCHANGED <<issuer, taken, mailed, attempts, entries, wrong, excused, reopened>>

\* POST /login: a try is recorded; too many failures among the latest block the account.
Failures(s, n) == Cardinality({i \in 1..Len(s) : i + n > Len(s) /\ ~s[i]})   \* of the latest n

Login(c, right) ==
  /\ account.exists /\ account.email # NoEmail /\ account.active /\ account.status = "ACTIVE"
  /\ Joins(c) /\ Receive(c, [pc |-> "try", right |-> right, failed |-> Failures(attempts, Window) + 1])
  /\ UNCHANGED <<issuer, account, taken, ticket, mailed, attempts, proved, wrong, reopened>>
RecordAttempt(c) ==
  /\ Entered(c, "try")
  /\ attempts' = Append(attempts, client[c].right)
  /\ IF client[c].right THEN Replied(c) ELSE client' = [client EXCEPT ![c].pc = "count"]
  /\ UNCHANGED <<issuer, account, taken, ticket, mailed, entries, proved, wrong, excused, reopened>>

CountFailures(c) ==
  /\ Entered(c, "count") /\ Replied(c)
  /\ account' = IF client[c].failed >= MaxFailed THEN [account EXCEPT !.status = "BLOCKED"] ELSE account
  /\ UNCHANGED <<issuer, taken, ticket, mailed, attempts, entries, proved, wrong, excused, reopened>>

\* PATCH /users/:userId by an administrator: the block is lifted, or the address replaced.
Unblock ==
  /\ account.status = "BLOCKED" /\ account' = [account EXCEPT !.status = "ACTIVE"]
  /\ reopened' = TRUE
  /\ UNCHANGED <<issuer, taken, ticket, mailed, attempts, client, entries, proved, wrong, excused>>
ReplaceEmail(e) ==
  /\ Counted /\ account.exists /\ e \notin taken /\ account' = [account EXCEPT !.email = e]
  /\ excused' = TRUE
  /\ UNCHANGED <<issuer, taken, ticket, mailed, attempts, client, proved, wrong, reopened>>

\* Another account gets the address.
OtherTakes(e) ==
  /\ Counted /\ e # account.email /\ e \notin taken /\ taken' = taken \cup {e}
  /\ UNCHANGED <<issuer, account, ticket, mailed, attempts, client, proved, wrong, excused, reopened>>

\* Time passes: a code may be sent again, and is worth nothing in the end.
Age(i) ==
  /\ ticket[i].open
  /\ \/ ticket[i].fresh /\ ticket' = [ticket EXCEPT ![i].fresh = FALSE]
     \/ ~ticket[i].fresh /\ ticket[i].live /\ ticket' = [ticket EXCEPT ![i].live = FALSE]
  /\ UNCHANGED <<issuer, account, taken, mailed, attempts, client, entries, proved, wrong, excused, reopened>>

\* A statement fails: the rest of the handler does not run.
Abort(c) ==
  /\ client[c] # NotBusy /\ Replied(c)
  /\ reopened' = (reopened \/ client[c].pc = "count")
  /\ UNCHANGED <<issuer, account, taken, ticket, mailed, attempts, entries, proved, wrong, excused>>

CredentialsNext ==
  \/ \E c \in Clients :
       \/ \E e \in Emails : Register(c, e) \/ ReadCredentials(c, e)
       \/ Resend(c) \/ WriteCredentials(c) \/ SendCode(c) \/ CreateCode(c) \/ IssueFails(c)
       \/ \E e \in Emails : \/ RequestReset(c, e) \/ StartChange(c, e)
                           \/ \E kind \in {"reset", "change"} : Issue(c, kind, e)
       \/ \E i \in 1..Len(ticket), box \in Emails \cup {NoEmail} : EnterCode(c, i, box)
       \/ Late(c) \/ WrongAnswer(c) \/ UseCode(c) \/ Activate(c)
       \/ ChangePassword(c) \/ UseReset(c) \/ ChangeEmail(c)
       \/ \E right \in BOOLEAN : Login(c, right)
       \/ RecordAttempt(c) \/ CountFailures(c) \/ Abort(c)
  \/ \E e \in Emails : ReplaceEmail(e) \/ OtherTakes(e)
  \/ \E i \in 1..Len(ticket) : ResendChange(i) \/ CloseChange(i) \/ Age(i)
  \/ Unblock

CredentialsSpec == CredentialsInit /\ [][CredentialsNext]_credentials

(***************************************************************************)
(* Properties                                                              *)
(***************************************************************************)

\* The address of an active account was proved: somebody entered a code that was mailed to it,
\* however registration, /credentials, resent codes, failed mails and changes of the address
\* follow each other (POST /verify looks for a code of the user, not of the address).
EmailIsProved ==
  excused \/ (account.active /\ account.email # NoEmail => account.email \in proved)

\* A verification or a change code is judged wrong at most MaxTries times, over all the mails
\* that repeat or replace it; overlapping answers are counted from the same row.
TriesAreLimited ==
  excused \/ \A i \in 1..Len(ticket) : ticket[i].kind # "reset" => wrong[i] <= MaxTries

\* The login blocks an account exactly when MaxFailed of the latest attempts failed: it is not
\* blocked with fewer failures, and it is blocked as soon as the counting statement has run.
LockoutIsExact ==
  /\ account.status = "BLOCKED" => Failures(attempts, Len(attempts)) >= MaxFailed
  /\ ~excused /\ ~reopened /\ account.status # "BLOCKED" /\ (\A c \in Clients : client[c].pc # "count") =>
       Failures(attempts, Window) < MaxFailed

\* Nobody guesses a code or a password for long: wrong answers are counted until the limit, in
\* both ways (verificationService.ts, emailChangeService.ts, auth.ts POST /login).
GuessesAreLimited == TriesAreLimited /\ LockoutIsExact
=============================================================================
