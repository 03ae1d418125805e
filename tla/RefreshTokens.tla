--------------------------- MODULE RefreshTokens ---------------------------
(***************************************************************************)
(* Refresh tokens and device sessions (routes/auth.ts,                     *)
(* authRefreshTokenService.ts).  A sign-in stores the first token of a     *)
(* family; /auth/token exchanges a token for the next one of its family in *)
(* a transaction; /auth/logout revokes one token.                          *)
(*                                                                         *)
(* Every statement is a step.  The transaction of /auth/token holds the    *)
(* row it has claimed until it commits, and nobody sees its writes before; *)
(* a statement that writes the same row waits.  An id that randomUUID or   *)
(* the database gives out is fresh.  A family is named after its first     *)
(* token; rows from before the migration have none.                        *)
(***************************************************************************)
CONSTANTS
  Users,
  Installs,   \* installations of the app
  Sessions,   \* ids of device sessions
  Tokens,     \* ids of refresh tokens
  Requests,   \* requests served at the same time
  Null

ASSUME NullAssumption == Null \notin Users \cup Installs \cup Sessions \cup Tokens

\* graceUntil is null, in the future or in the past.
Rows ==
  [user: Users, family: Tokens \cup {Null}, session: Sessions \cup {Null},
   revoked: BOOLEAN, usedAt: BOOLEAN, grace: {"none", "open", "past"}, expired: BOOLEAN,
   replacedBy: Tokens \cup {Null}]

\* revokedAt of a session is never set.
DeviceSessions == [user: Users, install: Installs]

\* t is the token presented; session and install come from the body.
Calls ==
  [pc: {"idle", "found", "claimed", "issue", "persist"}, t: Tokens \cup {Null},
   user: Users \cup {Null}, session: Sessions \cup {Null}, install: Installs \cup {Null}]

ASSUME RowAssumption == Null \notin Rows \cup DeviceSessions

IdleCall == [pc |-> "idle", t |-> Null, user |-> Null, session |-> Null, install |-> Null]

VARIABLES
  row,       \* the RefreshToken table
  device,    \* the DeviceSession table
  call,      \* requests in progress
  denied     \* history: tokens answered with 403

vars == <<row, device, call, denied>>

NewRow(t, u, family, session) ==
  [user |-> u, family |-> IF family = Null THEN t ELSE family, session |-> session,
   revoked |-> FALSE, usedAt |-> FALSE, grace |-> "none", expired |-> FALSE, replacedBy |-> Null]

\* Tokens of users who signed in before families and sessions existed.
Init ==
  /\ \E old \in SUBSET Tokens : \E owner \in [old -> Users] :
       row = [t \in Tokens |->
                IF t \in old THEN [NewRow(t, owner[t], t, Null) EXCEPT !.family = Null] ELSE Null]
  /\ device = [s \in Sessions |-> Null]
  /\ call = [r \in Requests |-> IdleCall]
  /\ denied = {}

At(r, pc) == call[r].pc = pc
Return(r) == call' = [call EXCEPT ![r] = IdleCall]
Fresh(t) == row[t] = Null

\* The row of t is claimed by a transaction that has not ended.
InTransaction(r) == call[r].t # Null /\ call[r].pc \in {"claimed", "persist"}
Locked(t) == \E r \in Requests : InTransaction(r) /\ call[r].t = t

----------------------------------------------------------------------------
(* /auth/login, /auth/verify and the sign-ins of the messengers: the user  *)
(* is known, the tokens are issued.                                        *)

SignIn(r, u, session, install) ==
  /\ At(r, "idle")
  /\ call' = [call EXCEPT ![r] = [pc |-> "issue", t |-> Null, user |-> u,
                                  session |-> session, install |-> install]]
  /\ UNCHANGED <<row, device, denied>>

----------------------------------------------------------------------------
(* /auth/token.                                                            *)

Rejected(t) == row[t].revoked \/ row[t].expired

\* A token in its grace period was rotated by a rival request: 409.
InGrace(t) == row[t].revoked /\ row[t].grace = "open"

Find(r, t, session, install) ==
  /\ At(r, "idle") /\ ~Fresh(t)
  /\ IF Rejected(t)
       THEN denied' = (IF InGrace(t) THEN denied ELSE denied \cup {t}) /\ UNCHANGED call
       ELSE /\ call' = [call EXCEPT ![r] =
                 [pc |-> "found", t |-> t, user |-> row[t].user, install |-> install,
                  session |-> IF session = Null THEN row[t].session ELSE session]]
            /\ UNCHANGED denied
  /\ UNCHANGED <<row, device>>

\* Mutant of Claimable: the second look is left to the first one.
MutSecondLookSkipped(t) == ~row[t].expired

Claimable(t) == ~row[t].revoked /\ ~row[t].expired

\* The transaction begins: it looks again and claims the row, or answers 409.
Claim(r) ==
  /\ At(r, "found") /\ ~Locked(call[r].t)
  /\ IF Claimable(call[r].t) THEN call' = [call EXCEPT ![r].pc = "claimed"] ELSE Return(r)
  /\ UNCHANGED <<row, device, denied>>

\* Mutant of ClaimedRow: the grace period is forgotten.
MutNoGrace(old, t) == [old EXCEPT !.revoked = TRUE, !.usedAt = TRUE, !.replacedBy = t]

\* Mutant of ClaimedRow: the successor is not recorded.
MutNoSuccessor(old, t) == [old EXCEPT !.revoked = TRUE, !.usedAt = TRUE, !.grace = "open"]

ClaimedRow(old, t) ==
  [old EXCEPT !.revoked = TRUE, !.usedAt = TRUE, !.grace = "open", !.replacedBy = t]

----------------------------------------------------------------------------
(* ensureDeviceSession and persistRefreshToken.                            *)

\* Mutant of IsSessionOf: the owner of the session is not looked at.
MutAnySession(s, u) == s # Null /\ device[s] # Null

IsSessionOf(s, u) == s # Null /\ device[s] # Null /\ device[s].user = u

InstallSessions(u, i) == {s \in Sessions : IsSessionOf(s, u) /\ device[s].install = i}


\* The session the token will belong to, and the installId it will have.
\* Sessions of one installation differ only in age.
Resolve(c) ==
  IF IsSessionOf(c.session, c.user)
    THEN {[c EXCEPT !.install = IF @ = Null THEN device[c.session].install ELSE @]}
  ELSE IF c.install = Null THEN {[c EXCEPT !.session = Null]}
  ELSE IF InstallSessions(c.user, c.install) # {}
    THEN {[c EXCEPT !.session = s] : s \in InstallSessions(c.user, c.install)}
  ELSE {[c EXCEPT !.session = s] : s \in {s \in Sessions : device[s] = Null}}

SaveSession(c) ==
  IF c.session = Null THEN device
  ELSE [device EXCEPT ![c.session] = [user |-> c.user, install |-> c.install]]

\* A sign-in writes the session at once, a transaction when it commits.  The
\* id of a new session is not one that another transaction is about to use.
EnsureDeviceSession(r) ==
  /\ call[r].pc \in {"issue", "claimed"}
  /\ \E c \in Resolve(call[r]) :
       /\ \A q \in Requests \ {r} : At(q, "persist") /\ c.session # Null /\ device[c.session] = Null
                                      => call[q].session # c.session
       /\ call' = [call EXCEPT ![r] = [c EXCEPT !.pc = "persist"]]
       /\ device' = IF InTransaction(r) THEN device ELSE SaveSession(c)
  /\ UNCHANGED <<row, denied>>

PersistRefreshToken(r, t) ==
  /\ At(r, "persist") /\ ~InTransaction(r) /\ Fresh(t)
  /\ row' = [row EXCEPT ![t] = NewRow(t, call[r].user, Null, call[r].session)]
  /\ Return(r)
  /\ UNCHANGED <<device, denied>>

\* The next token, the link to it and the commit.
Rotate(r, t) ==
  LET c == call[r]
  IN  /\ At(r, "persist") /\ InTransaction(r) /\ Fresh(t)
      /\ row' = [row EXCEPT ![t] = NewRow(t, c.user, row[c.t].family, c.session),
                            ![c.t] = ClaimedRow(row[c.t], t)]
      /\ device' = SaveSession(c)
      /\ Return(r)
      /\ UNCHANGED denied

\* A statement fails or the process dies: a transaction is rolled back.
Fail(r) ==
  /\ ~At(r, "idle") /\ Return(r)
  /\ UNCHANGED <<row, device, denied>>

----------------------------------------------------------------------------
(* /auth/logout, and time.                                                 *)

\* Mutant of Logout: every token of the user is revoked.
MutLogoutEverywhere(t) ==
  /\ ~Fresh(t) /\ \A v \in Tokens : ~Locked(v)
  /\ row' = [v \in Tokens |-> IF ~Fresh(v) /\ row[v].user = row[t].user
                               THEN [row[v] EXCEPT !.revoked = TRUE] ELSE row[v]]
  /\ UNCHANGED <<device, call, denied>>

Logout(t) ==
  /\ ~Fresh(t) /\ ~Locked(t)
  /\ row' = [row EXCEPT ![t].revoked = TRUE]
  /\ UNCHANGED <<device, call, denied>>

Expire(t) ==
  /\ ~Fresh(t)
  /\ row' = [row EXCEPT ![t].expired = TRUE]
  /\ UNCHANGED <<device, call, denied>>

GracePasses(t) ==
  /\ ~Fresh(t) /\ row[t].grace = "open"
  /\ row' = [row EXCEPT ![t].grace = "past"]
  /\ UNCHANGED <<device, call, denied>>

----------------------------------------------------------------------------
Serve(r) ==
  \/ Claim(r) \/ EnsureDeviceSession(r) \/ Fail(r)
  \/ \E t \in Tokens : PersistRefreshToken(r, t) \/ Rotate(r, t)

Arrive(r) ==
  \E session \in Sessions \cup {Null} : \E install \in Installs \cup {Null} :
    \/ \E u \in Users : SignIn(r, u, session, install)
    \/ \E t \in Tokens : Find(r, t, session, install)

Next ==
  \/ \E r \in Requests : Serve(r) \/ Arrive(r)
  \/ \E t \in Tokens : Logout(t) \/ Expire(t) \/ GracePasses(t)

Spec == Init /\ [][Next]_vars

----------------------------------------------------------------------------
(* Properties.                                                             *)

\* Every variable has its type.
TypeOK ==
  /\ row \in [Tokens -> Rows \cup {Null}] /\ device \in [Sessions -> DeviceSessions \cup {Null}]
  /\ call \in [Requests -> Calls] /\ denied \subseteq Tokens

Live(t) == ~Fresh(t) /\ ~row[t].revoked

\* However many requests present one token at once, whatever fails between
\* the steps, a family has one token that works (/auth/token).
OneLivePerFamily ==
  \A t, u \in Tokens :
    Live(t) /\ Live(u) /\ row[t].family = row[u].family /\ row[t].family # Null => t = u

\* A token is used up only together with the birth of its successor, for the
\* same user and in the same family (the transaction of /auth/token).
UsedHasSuccessor ==
  \A t \in Tokens :
    ~Fresh(t) /\ row[t].usedAt =>
      /\ row[t].replacedBy # Null /\ ~Fresh(row[t].replacedBy)
      /\ row[row[t].replacedBy].user = row[t].user
      /\ row[row[t].replacedBy].family = (IF row[t].family = Null THEN row[t].replacedBy ELSE row[t].family)

\* A token that was logged out before it was used is never used after, also
\* by a request that had found it good (/auth/logout against /auth/token).
LogoutWins ==
  [][\A t \in Tokens :
       ~Fresh(t) /\ row[t].revoked /\ ~row[t].usedAt => ~row'[t].usedAt]_vars

\* A request that loses a race for a token is never told to sign in again:
\* 403 is for tokens that expired, were logged out, or were rotated longer
\* than the grace period ago (/auth/token).
RivalsAreNotDenied ==
  \A t \in denied : row[t].expired \/ ~row[t].usedAt \/ row[t].grace = "past"

\* A token belongs to a device session of its own user, also when a device
\* changes hands and sends the session of its last user (ensureDeviceSession).
SessionOfItsUser ==
  \A t \in Tokens :
    ~Fresh(t) /\ row[t].session # Null =>
      device[row[t].session] # Null /\ device[row[t].session].user = row[t].user

\* The families behind the rows; a row without one is a family of its own.
FamilyOf(t) == IF row[t].family = Null THEN t ELSE row[t].family
LiveOf(f) == {t \in Tokens : Live(t) /\ FamilyOf(t) = f}
Usable == [f \in Tokens |-> LiveOf(f)]
Issued == {t \in Tokens : ~Fresh(t)}

Families == INSTANCE TokenFamilies WITH usable <- Usable, issued <- Issued

\* The rows implement families of tokens: see TokenFamilies (/auth/login,
\* /auth/token, /auth/logout).
FamilySpec == Families!Spec

=============================================================================
