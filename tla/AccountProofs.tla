---------------------------- MODULE AccountProofs ----------------------------
(***************************************************************************)
(* The properties of an account's sign-in, for any sets of users,          *)
(* installations, sessions, tokens, requests and addresses: RefreshTokens, *)
(* then Credentials.                                                       *)
(***************************************************************************)
EXTENDS RefreshTokens, Credentials, FiniteSetTheorems, WellFoundedInduction, TLAPS

\* What a request has found stays: its token, its owner.
CallsKnow ==
  \A r \in Requests :
    /\ call[r].pc # "idle" => call[r].user # Null
    /\ call[r].pc \in {"found", "claimed"} => call[r].t # Null
    /\ call[r].pc = "issue" => call[r].t = Null
    /\ call[r].pc # "idle" /\ call[r].t # Null =>
         row[call[r].t] # Null /\ row[call[r].t].user = call[r].user

\* The session a token is about to belong to is its user's, or will be.
SessionsKnown ==
  \A r \in Requests :
    At(r, "persist") /\ call[r].session # Null =>
      /\ call[r].install # Null
      /\ device[call[r].session] # Null => device[call[r].session].user = call[r].user
      /\ call[r].t = Null => device[call[r].session] # Null
      /\ \A q \in Requests \ {r} :
           At(q, "persist") /\ call[q].session = call[r].session => device[call[r].session] # Null

TypeInv == TypeOK /\ CallsKnow /\ SessionsKnown

----------------------------------------------------------------------------
LEMMA NewRowType ==
  ASSUME NEW t \in Tokens, NEW u \in Users, NEW f \in Tokens \cup {Null}, NEW s \in Sessions \cup {Null}
  PROVE  NewRow(t, u, f, s) \in Rows
BY DEF NewRow, Rows

LEMMA ClaimedRowType ==
  ASSUME NEW old \in Rows, NEW t \in Tokens
  PROVE  ClaimedRow(old, t) \in Rows /\ ClaimedRow(old, t).user = old.user
BY DEF ClaimedRow, Rows

LEMMA TypeInit == Init => TypeInv
<1> SUFFICES ASSUME Init PROVE TypeInv
  OBVIOUS
<1>1. PICK old \in SUBSET Tokens : \E owner \in [old -> Users] :
        row = [t \in Tokens |->
                IF t \in old THEN [NewRow(t, owner[t], t, Null) EXCEPT !.family = Null] ELSE Null]
  BY DEF Init
<1>2. row \in [Tokens -> Rows \cup {Null}]
  <2>1. PICK owner \in [old -> Users] :
          row = [t \in Tokens |->
                IF t \in old THEN [NewRow(t, owner[t], t, Null) EXCEPT !.family = Null] ELSE Null]
    BY <1>1
  <2>2. ASSUME NEW t \in old PROVE [NewRow(t, owner[t], t, Null) EXCEPT !.family = Null] \in Rows
    BY DEF NewRow, Rows
  <2> QED  BY <2>1, <2>2
<1> QED  BY <1>2 DEF Init, TypeInv, TypeOK, CallsKnow, SessionsKnown, IdleCall, Calls, At

\* What Resolve returns: only the session and the installId change, and the
\* session is one of the user's, a new one or none.
LEMMA Resolved ==
  ASSUME TypeOK, NEW r \in Requests, call[r].user # Null, NEW c \in Resolve(call[r])
  PROVE  /\ c \in Calls /\ c.t = call[r].t /\ c.user = call[r].user /\ c.pc = call[r].pc
         /\ c.session # Null =>
              /\ c.install # Null
              /\ device[c.session] # Null => device[c.session].user = c.user
<1>0. call[r] \in Calls /\ call[r].user \in Users
  BY DEF TypeOK, Calls
<1>1. CASE IsSessionOf(call[r].session, call[r].user)
  <2>1. call[r].session \in Sessions /\ device[call[r].session] \in DeviceSessions
    BY <1>0, <1>1 DEF IsSessionOf, TypeOK, Calls
  <2>2. c = [call[r] EXCEPT !.install = IF @ = Null THEN device[call[r].session].install ELSE @]
    BY <1>1 DEF Resolve
  <2> QED  BY <1>0, <1>1, <2>1, <2>2, NullAssumption DEF Calls, DeviceSessions, IsSessionOf
<1>2. CASE ~IsSessionOf(call[r].session, call[r].user) /\ call[r].install = Null
  <2>1. c = [call[r] EXCEPT !.session = Null]
    BY <1>2 DEF Resolve
  <2> QED  BY <1>0, <2>1 DEF Calls
<1>3. CASE /\ ~IsSessionOf(call[r].session, call[r].user) /\ call[r].install # Null
           /\ InstallSessions(call[r].user, call[r].install) # {}
  <2>1. PICK s \in InstallSessions(call[r].user, call[r].install) : c = [call[r] EXCEPT !.session = s]
    BY <1>3 DEF Resolve
  <2> QED  BY <1>0, <1>3, <2>1 DEF Calls, InstallSessions, IsSessionOf
<1>4. CASE /\ ~IsSessionOf(call[r].session, call[r].user) /\ call[r].install # Null
           /\ InstallSessions(call[r].user, call[r].install) = {}
  <2>1. PICK s \in Sessions : device[s] = Null /\ c = [call[r] EXCEPT !.session = s]
    BY <1>4 DEF Resolve
  <2> QED  BY <1>0, <1>4, <2>1 DEF Calls
<1> QED  BY <1>1, <1>2, <1>3, <1>4

\* Saving the session of a call gives it to the user of the call and changes
\* the owner of no other.
LEMMA Saved ==
  ASSUME device \in [Sessions -> DeviceSessions \cup {Null}], NEW c \in Calls, c.user # Null,
         c.session # Null => c.install # Null
  PROVE  /\ SaveSession(c) \in [Sessions -> DeviceSessions \cup {Null}]
         /\ c.session # Null => SaveSession(c)[c.session] # Null /\ SaveSession(c)[c.session].user = c.user
         /\ \A s \in Sessions : s # c.session => SaveSession(c)[s] = device[s]
<1>1. CASE c.session = Null
  BY <1>1, NullAssumption DEF SaveSession
<1>2. CASE c.session # Null
  <2>1. c.session \in Sessions /\ [user |-> c.user, install |-> c.install] \in DeviceSessions
    BY <1>2 DEF Calls, DeviceSessions
  <2> QED  BY <1>2, <2>1, RowAssumption DEF SaveSession
<1> QED  BY <1>1, <1>2

\* A change of the table keeps what the requests know, as long as no row
\* goes away or changes its owner.
LEMMA RowsKept ==
  ASSUME CallsKnow, UNCHANGED call, call \in [Requests -> Calls],
         \A t \in Tokens : row[t] # Null => row'[t] # Null /\ row'[t].user = row[t].user
  PROVE  CallsKnow'
BY DEF CallsKnow, Calls

LEMMA TypeArrive ==
  ASSUME TypeInv, NEW r \in Requests, Arrive(r)
  PROVE  TypeInv'
<1> USE DEF TypeInv, TypeOK
<1>1. PICK session \in Sessions \cup {Null}, install \in Installs \cup {Null} :
        \/ \E u \in Users : SignIn(r, u, session, install)
        \/ \E t \in Tokens : Find(r, t, session, install)
  BY DEF Arrive
<1>2. ASSUME NEW u \in Users, SignIn(r, u, session, install)
      PROVE  TypeInv'
  <2>1. call' \in [Requests -> Calls] /\ call'[r].pc = "issue" /\ call'[r].t = Null /\ call'[r].user = u
    BY <1>2 DEF SignIn, Calls
  <2>2. \A q \in Requests \ {r} : call'[q] = call[q]
    BY <1>2 DEF SignIn
  <2>3. CallsKnow'
    BY <1>2, <2>1, <2>2, NullAssumption DEF SignIn, CallsKnow
  <2>4. SessionsKnown'
    BY <1>2, <2>1, <2>2 DEF SignIn, SessionsKnown, At
  <2> QED  BY <1>2, <2>1, <2>3, <2>4 DEF SignIn
<1>3. ASSUME NEW t \in Tokens, Find(r, t, session, install), Rejected(t)
      PROVE  TypeInv'
  BY <1>3 DEF Find, CallsKnow, SessionsKnown, At
<1>4. ASSUME NEW t \in Tokens, Find(r, t, session, install), ~Rejected(t)
      PROVE  TypeInv'
  <2>0. row[t] \in Rows /\ row[t] # Null
    BY <1>4 DEF Find, Fresh
  <2>1. /\ call' \in [Requests -> Calls] /\ call'[r].pc = "found" /\ call'[r].t = t
        /\ call'[r].user = row[t].user /\ row[t].user \in Users
    BY <1>4, <2>0 DEF Find, Calls, Rows
  <2>2. \A q \in Requests \ {r} : call'[q] = call[q]
    BY <1>4 DEF Find
  <2>3. CallsKnow'
    BY <1>4, <2>0, <2>1, <2>2, NullAssumption DEF Find, CallsKnow
  <2>4. SessionsKnown'
    BY <1>4, <2>1, <2>2 DEF Find, SessionsKnown, At
  <2> QED  BY <1>4, <2>1, <2>3, <2>4 DEF Find
<1> QED  BY <1>1, <1>2, <1>3, <1>4

\* A request that ends, without a change of the tables.
LEMMA TypeReturn ==
  ASSUME TypeInv, NEW r \in Requests, Return(r), UNCHANGED <<row, device, denied>>
  PROVE  TypeInv'
<1>1. call' \in [Requests -> Calls] /\ call'[r].pc = "idle" /\ call'[r].t = Null
  BY DEF TypeInv, TypeOK, Return, IdleCall, Calls
<1>2. \A q \in Requests \ {r} : call'[q] = call[q]
  BY DEF Return, TypeInv, TypeOK
<1>3. CallsKnow'
  BY <1>1, <1>2 DEF CallsKnow, TypeInv
<1>4. SessionsKnown'
  BY <1>1, <1>2 DEF SessionsKnown, TypeInv, At
<1> QED  BY <1>1, <1>3, <1>4 DEF TypeInv, TypeOK

LEMMA TypeServe ==
  ASSUME TypeInv, NEW r \in Requests, Serve(r)
  PROVE  TypeInv'
<1> USE DEF TypeInv, TypeOK
<1>0. call[r] \in Calls
  OBVIOUS
<1>1. CASE Claim(r)
  <2>1. CASE Return(r)
    BY <1>1, <2>1, TypeReturn DEF Claim
  <2>2. CASE call' = [call EXCEPT ![r].pc = "claimed"]
    <3>1. /\ call' \in [Requests -> Calls] /\ call'[r].pc = "claimed" /\ call'[r].t = call[r].t
          /\ call'[r].user = call[r].user
      BY <1>0, <2>2 DEF Calls
    <3>2. \A q \in Requests \ {r} : call'[q] = call[q]
      BY <2>2
    <3>3. CallsKnow'
      BY <1>1, <3>1, <3>2 DEF Claim, At, CallsKnow
    <3>4. SessionsKnown'
      BY <1>1, <3>1, <3>2 DEF Claim, At, SessionsKnown
    <3> QED  BY <1>1, <3>1, <3>3, <3>4 DEF Claim
  <2> QED  BY <1>1, <2>1, <2>2 DEF Claim
<1>2. CASE EnsureDeviceSession(r)
  <2>0. call[r].user # Null
    BY <1>2 DEF EnsureDeviceSession, CallsKnow
  <2>1. PICK c \in Resolve(call[r]) :
          /\ \A q \in Requests \ {r} : At(q, "persist") /\ c.session # Null /\ device[c.session] = Null
                                         => call[q].session # c.session
          /\ call' = [call EXCEPT ![r] = [c EXCEPT !.pc = "persist"]]
          /\ device' = IF InTransaction(r) THEN device ELSE SaveSession(c)
    BY <1>2 DEF EnsureDeviceSession
  <2>2. /\ c \in Calls /\ c.t = call[r].t /\ c.user = call[r].user
        /\ c.session # Null =>
              /\ c.install # Null
              /\ device[c.session] # Null => device[c.session].user = c.user
    BY <2>0, Resolved
  <2>3. /\ SaveSession(c) \in [Sessions -> DeviceSessions \cup {Null}]
        /\ c.session # Null => SaveSession(c)[c.session] # Null /\ SaveSession(c)[c.session].user = c.user
        /\ \A s \in Sessions : s # c.session => SaveSession(c)[s] = device[s]
    BY <2>0, <2>2, Saved
  <2>4. /\ call' \in [Requests -> Calls] /\ call'[r].pc = "persist" /\ call'[r].t = call[r].t
        /\ call'[r].user = call[r].user /\ call'[r].session = c.session /\ call'[r].install = c.install
        /\ \A q \in Requests \ {r} : call'[q] = call[q]
    BY <2>1, <2>2 DEF Calls
  <2>5. CallsKnow'
    BY <1>2, <2>4 DEF CallsKnow, EnsureDeviceSession
  <2>6. SessionsKnown'
    <3>1. call[r].t = Null => device' = SaveSession(c)
      BY <2>1 DEF InTransaction
    <3>2. device' = device \/ device' = SaveSession(c)
      BY <2>1
    <3>3. \A s \in Sessions : device[s] # Null => device'[s] # Null /\ device'[s].user = device[s].user
      <4> SUFFICES ASSUME NEW s \in Sessions, device[s] # Null
                   PROVE  device'[s] # Null /\ device'[s].user = device[s].user
        OBVIOUS
      <4>1. CASE s = c.session
        <5>1. c.session # Null
          BY <4>1, NullAssumption
        <5> QED  BY <2>2, <2>3, <3>2, <4>1, <5>1
      <4>2. CASE s # c.session
        BY <2>3, <3>2, <4>2
      <4> QED  BY <4>1, <4>2
    <3>4. \A s \in Sessions : s # c.session => device'[s] = device[s]
      BY <2>3, <3>2
    <3>5. ASSUME NEW q \in Requests, q # r, At(q, "persist"), call[q].session # Null
          PROVE  /\ call[q].session \in Sessions
                 /\ device'[call[q].session] # Null => device'[call[q].session].user = call[q].user
                 /\ call[q].t = Null => device'[call[q].session] # Null
                 /\ \A p \in Requests \ {q} : call'[p].pc = "persist" /\ call'[p].session = call[q].session
                       => device'[call[q].session] # Null
      <4>1. call[q].session \in Sessions
        BY <3>5 DEF Calls
      <4>2. /\ device[call[q].session] # Null => device[call[q].session].user = call[q].user
            /\ call[q].t = Null => device[call[q].session] # Null
            /\ \A p \in Requests \ {q} : call[p].pc = "persist" /\ call[p].session = call[q].session
                  => device[call[q].session] # Null
        BY <3>5 DEF SessionsKnown, At
      <4>3. call[q].session = c.session => device[call[q].session] # Null
        BY <2>1, <3>5
      <4> QED  BY <2>4, <3>3, <3>4, <4>1, <4>2, <4>3
    <3>6. ASSUME c.session # Null
          PROVE  /\ c.session \in Sessions /\ c.install # Null
                 /\ device'[c.session] # Null => device'[c.session].user = c.user
                 /\ c.t = Null => device'[c.session] # Null
                 /\ \A q \in Requests \ {r} : call'[q].pc = "persist" /\ call'[q].session = c.session
                       => device'[c.session] # Null
      <4>1. c.session \in Sessions
        BY <2>2, <3>6 DEF Calls
      <4> QED  BY <2>1, <2>2, <2>3, <2>4, <3>1, <3>2, <3>3, <3>6, <4>1 DEF At
    <3> QED  BY <2>2, <2>4, <3>5, <3>6 DEF SessionsKnown, At
  <2> QED  BY <1>2, <2>1, <2>3, <2>4, <2>5, <2>6 DEF EnsureDeviceSession
<1>3. CASE Fail(r)
  BY <1>3, TypeReturn DEF Fail
<1>4. ASSUME NEW t \in Tokens, PersistRefreshToken(r, t)
      PROVE  TypeInv'
  <2>1. call[r].user \in Users /\ call[r].session \in Sessions \cup {Null}
    BY <1>0, <1>4 DEF PersistRefreshToken, CallsKnow, At, Calls
  <2>2. NewRow(t, call[r].user, Null, call[r].session) \in Rows
    BY <2>1, NewRowType
  <2>3. row' \in [Tokens -> Rows \cup {Null}]
    BY <1>4, <2>2 DEF PersistRefreshToken
  <2>4. \A u \in Tokens : row[u] # Null => row'[u] = row[u]
    BY <1>4 DEF PersistRefreshToken, Fresh
  <2>5. /\ call' \in [Requests -> Calls] /\ call'[r].pc = "idle" /\ call'[r].t = Null
        /\ \A q \in Requests \ {r} : call'[q] = call[q]
    BY <1>4 DEF PersistRefreshToken, Return, IdleCall, Calls
  <2>6. CallsKnow'
    BY <2>4, <2>5 DEF CallsKnow, Calls
  <2>7. SessionsKnown'
    BY <1>4, <2>5 DEF PersistRefreshToken, SessionsKnown, At
  <2> QED  BY <1>4, <2>3, <2>5, <2>6, <2>7 DEF PersistRefreshToken
<1>5. ASSUME NEW t \in Tokens, Rotate(r, t)
      PROVE  TypeInv'
  <2>0. /\ call[r].t \in Tokens /\ row[call[r].t] \in Rows /\ call[r].user = row[call[r].t].user
        /\ call[r].user \in Users /\ call[r].session \in Sessions \cup {Null} /\ call[r].t # t
        /\ call[r].session # Null => call[r].install # Null
        /\ row[call[r].t] # Null
    BY <1>0, <1>5 DEF Rotate, InTransaction, CallsKnow, SessionsKnown, At, Calls, Fresh
  <2>1. NewRow(t, call[r].user, row[call[r].t].family, call[r].session) \in Rows
    BY <2>0, NewRowType DEF Rows
  <2>2. /\ ClaimedRow(row[call[r].t], t) \in Rows
        /\ ClaimedRow(row[call[r].t], t).user = row[call[r].t].user
    BY <2>0, ClaimedRowType
  <2>3. /\ row' \in [Tokens -> Rows \cup {Null}]
        /\ row'[call[r].t] = ClaimedRow(row[call[r].t], t)
        /\ \A u \in Tokens : u # t /\ u # call[r].t => row'[u] = row[u]
    BY <1>5, <2>0, <2>1, <2>2 DEF Rotate
  <2>4. \A u \in Tokens : row[u] # Null => row'[u] # Null /\ row'[u].user = row[u].user
    BY <1>5, <2>0, <2>2, <2>3, RowAssumption DEF Rotate, Fresh
  <2>5. /\ call' \in [Requests -> Calls] /\ call'[r].pc = "idle" /\ call'[r].t = Null
        /\ \A q \in Requests \ {r} : call'[q] = call[q]
    BY <1>5 DEF Rotate, Return, IdleCall, Calls
  <2>6. CallsKnow'
    BY <2>4, <2>5 DEF CallsKnow, Calls
  <2>7. /\ device' = SaveSession(call[r])
        /\ device' \in [Sessions -> DeviceSessions \cup {Null}]
        /\ call[r].session # Null =>
              device'[call[r].session] # Null /\ device'[call[r].session].user = call[r].user
        /\ \A s \in Sessions : s # call[r].session => device'[s] = device[s]
    BY <1>0, <1>5, <2>0, Saved, NullAssumption DEF Rotate
  <2>8. SessionsKnown'
    <3>1. ASSUME NEW q \in Requests \ {r}, call[q].pc = "persist", call[q].session # Null
          PROVE  /\ call[q].session \in Sessions /\ call[q].install # Null
                 /\ device'[call[q].session] # Null => device'[call[q].session].user = call[q].user
                 /\ call[q].t = Null => device'[call[q].session] # Null
                 /\ \A p \in Requests \ {q, r} : call[p].pc = "persist" /\ call[p].session = call[q].session
                      => device'[call[q].session] # Null
      <4>1. call[q].session \in Sessions
        BY <3>1 DEF Calls
      <4>2. /\ call[q].install # Null
            /\ device[call[q].session] # Null => device[call[q].session].user = call[q].user
            /\ call[q].t = Null => device[call[q].session] # Null
            /\ \A p \in Requests \ {q} : call[p].pc = "persist" /\ call[p].session = call[q].session
                 => device[call[q].session] # Null
        BY <3>1 DEF SessionsKnown, At
      <4>3. call[q].session = call[r].session => device[call[q].session] # Null
        BY <1>5, <4>2 DEF Rotate, At
      <4>4. CASE call[q].session # call[r].session
        BY <2>7, <4>1, <4>2, <4>4
      <4>5. CASE call[q].session = call[r].session
        <5>1. device[call[r].session].user = call[r].user
          BY <1>5, <3>1, <4>3, <4>5 DEF Rotate, SessionsKnown, At
        <5> QED  BY <2>7, <3>1, <4>1, <4>2, <4>3, <4>5, <5>1
      <4> QED  BY <4>4, <4>5
    <3> QED  BY <2>5, <3>1 DEF SessionsKnown, At
  <2> QED  BY <1>5, <2>3, <2>5, <2>6, <2>7, <2>8 DEF Rotate
<1> QED  BY <1>1, <1>2, <1>3, <1>4, <1>5 DEF Serve

LEMMA TypeEnvironment ==
  ASSUME TypeInv, NEW t \in Tokens, Logout(t) \/ Expire(t) \/ GracePasses(t)
  PROVE  TypeInv'
<1>1. row[t] \in Rows /\ row[t] # Null
  BY DEF TypeInv, TypeOK, Logout, Expire, GracePasses, Fresh
<1>2. /\ row'[t] \in Rows /\ row'[t].user = row[t].user
      /\ row' \in [Tokens -> Rows \cup {Null}]
      /\ \A u \in Tokens \ {t} : row'[u] = row[u]
  <2>1. PICK n \in Rows : n.user = row[t].user /\ row' = [row EXCEPT ![t] = n]
    <3>1. CASE Logout(t)
      <4>1. [row[t] EXCEPT !.revoked = TRUE] \in Rows
        BY <1>1 DEF Rows
      <4> QED  BY <1>1, <3>1, <4>1 DEF Logout, Rows
    <3>2. CASE Expire(t)
      <4>1. [row[t] EXCEPT !.expired = TRUE] \in Rows
        BY <1>1 DEF Rows
      <4> QED  BY <1>1, <3>2, <4>1 DEF Expire, Rows
    <3>3. CASE GracePasses(t)
      <4>1. [row[t] EXCEPT !.grace = "past"] \in Rows
        BY <1>1 DEF Rows
      <4> QED  BY <1>1, <3>3, <4>1 DEF GracePasses, Rows
    <3> QED  BY <3>1, <3>2, <3>3
  <2> QED  BY <2>1 DEF TypeInv, TypeOK
<1>3. CallsKnow'
  BY <1>1, <1>2, RowsKept, RowAssumption DEF TypeInv, TypeOK, Logout, Expire, GracePasses
<1>4. SessionsKnown'
  BY DEF TypeInv, SessionsKnown, At, Logout, Expire, GracePasses
<1> QED  BY <1>2, <1>3, <1>4 DEF TypeInv, TypeOK, Logout, Expire, GracePasses

LEMMA TypeNext == TypeInv /\ [Next]_vars => TypeInv'
<1> SUFFICES ASSUME TypeInv, [Next]_vars PROVE TypeInv'
  OBVIOUS
<1>1. CASE UNCHANGED vars
  BY <1>1 DEF vars, TypeInv, TypeOK, CallsKnow, SessionsKnown, At
<1>2. ASSUME NEW r \in Requests, Serve(r) \/ Arrive(r) PROVE TypeInv'
  BY <1>2, TypeServe, TypeArrive
<1>3. ASSUME NEW t \in Tokens, Logout(t) \/ Expire(t) \/ GracePasses(t) PROVE TypeInv'
  BY <1>3, TypeEnvironment
<1> QED  BY <1>1, <1>2, <1>3 DEF Next

\* Every handler writes only well-formed rows, on behalf of users and tokens
\* it found (/auth/login, /auth/token, /auth/logout, ensureDeviceSession).
THEOREM TypeCorrect == Spec => []TypeOK
<1>1. TypeInv => TypeOK
  BY DEF TypeInv
<1> QED  BY <1>1, TypeInit, TypeNext, PTL DEF Spec

----------------------------------------------------------------------------
(* Families.  A transaction keeps the row it claimed from being revoked by *)
(* anybody else, so the row it replaces is still the live one.             *)

ClaimsHold ==
  /\ \A r \in Requests : InTransaction(r) => ~row[call[r].t].revoked
  /\ \A r, q \in Requests : InTransaction(r) /\ InTransaction(q) /\ call[r].t = call[q].t => r = q

\* The token a family is named after belongs to it.
FamiliesNamed ==
  \A t \in Tokens :
    row[t] # Null /\ row[t].family # Null =>
      row[row[t].family] # Null /\ row[row[t].family].family = row[t].family

UsedMarked ==
  \A t \in Tokens :
    row[t] # Null =>
      /\ row[t].usedAt => row[t].revoked
      /\ row[t].usedAt <=> row[t].grace # "none"

DeniedKnown ==
  \A t \in denied :
    /\ row[t] # Null
    /\ row[t].expired \/ (row[t].revoked /\ ~row[t].usedAt) \/ row[t].grace = "past"

FamilyInv ==
  /\ ClaimsHold /\ FamiliesNamed /\ UsedMarked /\ DeniedKnown
  /\ OneLivePerFamily /\ UsedHasSuccessor /\ SessionOfItsUser

Inv == TypeInv /\ FamilyInv

\* Steps that leave the tables alone and start no transaction.
LEMMA QuietStep ==
  ASSUME Inv, UNCHANGED <<row, device, denied>>,
         \A r \in Requests : InTransaction(r)' => InTransaction(r) /\ call'[r].t = call[r].t
  PROVE  FamilyInv'
<1> USE DEF Inv, FamilyInv
<1>1. ClaimsHold'
  BY DEF ClaimsHold
<1>2. FamiliesNamed' /\ UsedMarked' /\ DeniedKnown'
  BY DEF FamiliesNamed, UsedMarked, DeniedKnown
<1>3. OneLivePerFamily' /\ UsedHasSuccessor' /\ SessionOfItsUser'
  BY DEF OneLivePerFamily, Live, UsedHasSuccessor, SessionOfItsUser, Fresh
<1> QED  BY <1>1, <1>2, <1>3

LEMMA FamilyInit == Init => FamilyInv
<1> SUFFICES ASSUME Init PROVE FamilyInv
  OBVIOUS
<1>1. ASSUME NEW t \in Tokens, row[t] # Null
      PROVE  row[t].family = Null /\ ~row[t].usedAt /\ row[t].grace = "none" /\ row[t].session = Null
  <2>1. PICK old \in SUBSET Tokens : \E owner \in [old -> Users] :
          row = [u \in Tokens |->
                  IF u \in old THEN [NewRow(u, owner[u], u, Null) EXCEPT !.family = Null] ELSE Null]
    BY DEF Init
  <2>2. PICK owner \in [old -> Users] :
          row = [u \in Tokens |->
                  IF u \in old THEN [NewRow(u, owner[u], u, Null) EXCEPT !.family = Null] ELSE Null]
    BY <2>1
  <2>3. row[t] = [NewRow(t, owner[t], t, Null) EXCEPT !.family = Null]
    BY <1>1, <2>2
  <2> QED  BY <2>3 DEF NewRow
<1>2. \A r \in Requests : ~InTransaction(r)
  BY DEF Init, InTransaction, IdleCall
<1> QED  BY <1>1, <1>2 DEF FamilyInv, ClaimsHold, FamiliesNamed, UsedMarked, DeniedKnown, Init,
            OneLivePerFamily, UsedHasSuccessor, SessionOfItsUser, Fresh, Live

LEMMA FamilyArrive ==
  ASSUME Inv, NEW r \in Requests, Arrive(r)
  PROVE  FamilyInv'
<1> USE DEF Inv, TypeInv, TypeOK
<1>1. PICK session \in Sessions \cup {Null}, install \in Installs \cup {Null} :
        \/ \E u \in Users : SignIn(r, u, session, install)
        \/ \E t \in Tokens : Find(r, t, session, install)
  BY DEF Arrive
<1>2. ASSUME NEW u \in Users, SignIn(r, u, session, install)
      PROVE  FamilyInv'
  BY <1>2, QuietStep DEF SignIn, InTransaction
<1>3. ASSUME NEW t \in Tokens, Find(r, t, session, install), ~Rejected(t)
      PROVE  FamilyInv'
  BY <1>3, QuietStep DEF Find, InTransaction
<1>4. ASSUME NEW t \in Tokens, Find(r, t, session, install), Rejected(t)
      PROVE  FamilyInv'
  <2>1. row[t] # Null /\ row[t] \in Rows /\ denied' \in {denied, denied \cup {t}}
    BY <1>4 DEF Find, Fresh
  <2>2. denied' = denied \/ row[t].expired \/ (row[t].revoked /\ row[t].grace # "open")
    BY <1>4 DEF Find, Rejected, InGrace
  <2>3. DeniedKnown'
    BY <1>4, <2>1, <2>2 DEF Find, FamilyInv, DeniedKnown, UsedMarked, Rows
  <2>4. ClaimsHold'
    BY <1>4 DEF Find, FamilyInv, ClaimsHold, InTransaction
  <2>5. FamiliesNamed' /\ UsedMarked'
    BY <1>4 DEF Find, FamilyInv, FamiliesNamed, UsedMarked
  <2>6. OneLivePerFamily' /\ UsedHasSuccessor' /\ SessionOfItsUser'
    BY <1>4 DEF Find, FamilyInv, OneLivePerFamily, Live, UsedHasSuccessor, SessionOfItsUser, Fresh
  <2> QED  BY <2>3, <2>4, <2>5, <2>6 DEF FamilyInv
<1> QED  BY <1>1, <1>2, <1>3, <1>4

LEMMA FamilyClaim ==
  ASSUME Inv, NEW r \in Requests, Claim(r)
  PROVE  FamilyInv'
<1> USE DEF Inv, TypeInv, TypeOK
<1>1. CASE Return(r)
  BY <1>1, QuietStep DEF Claim, Return, IdleCall, InTransaction
<1>2. CASE Claimable(call[r].t) /\ call' = [call EXCEPT ![r].pc = "claimed"]
  <2>1. call'[r].pc = "claimed" /\ call'[r].t = call[r].t /\ call[r].t # Null
    BY <1>2 DEF Claim, CallsKnow, At, Calls
  <2>2. \A q \in Requests \ {r} : call'[q] = call[q]
    BY <1>2
  <2>3. \A q \in Requests \ {r} : InTransaction(q) => call[q].t # call[r].t
    BY DEF Claim, Locked
  <2>4. ClaimsHold'
    BY <1>2, <2>1, <2>2, <2>3 DEF Claim, Claimable, ClaimsHold, InTransaction, FamilyInv
  <2>5. FamiliesNamed' /\ UsedMarked' /\ DeniedKnown'
    BY DEF Claim, FamilyInv, FamiliesNamed, UsedMarked, DeniedKnown
  <2>6. OneLivePerFamily' /\ UsedHasSuccessor' /\ SessionOfItsUser'
    BY DEF Claim, FamilyInv, OneLivePerFamily, Live, UsedHasSuccessor, SessionOfItsUser, Fresh
  <2> QED  BY <2>4, <2>5, <2>6 DEF FamilyInv
<1> QED  BY <1>1, <1>2 DEF Claim

\* Sessions keep their owners when the session of a call is saved.
LEMMA OwnersKept ==
  ASSUME Inv, NEW c \in Calls, c.user # Null,
         c.session # Null => /\ c.install # Null
                             /\ device[c.session] # Null => device[c.session].user = c.user,
         NEW s \in Sessions, device[s] # Null
  PROVE  SaveSession(c)[s] # Null /\ SaveSession(c)[s].user = device[s].user
<1>1. /\ c.session # Null => SaveSession(c)[c.session] # Null /\ SaveSession(c)[c.session].user = c.user
      /\ \A x \in Sessions : x # c.session => SaveSession(c)[x] = device[x]
  BY Saved DEF Inv, TypeInv, TypeOK
<1>2. CASE s = c.session
  BY <1>1, <1>2, NullAssumption
<1>3. CASE s # c.session
  BY <1>1, <1>3
<1> QED  BY <1>2, <1>3

LEMMA FamilyEnsure ==
  ASSUME Inv, NEW r \in Requests, EnsureDeviceSession(r)
  PROVE  FamilyInv'
<1> USE DEF Inv, TypeInv, TypeOK
<1>0. call[r].user # Null /\ call[r] \in Calls
  BY DEF EnsureDeviceSession, CallsKnow
<1>1. PICK c \in Resolve(call[r]) :
        /\ call' = [call EXCEPT ![r] = [c EXCEPT !.pc = "persist"]]
        /\ device' = IF InTransaction(r) THEN device ELSE SaveSession(c)
  BY DEF EnsureDeviceSession
<1>2. /\ c \in Calls /\ c.t = call[r].t /\ c.user = call[r].user
      /\ c.session # Null => /\ c.install # Null
                             /\ device[c.session] # Null => device[c.session].user = c.user
  BY <1>0, Resolved
<1>3. /\ call'[r].pc = "persist" /\ call'[r].t = call[r].t
      /\ \A q \in Requests \ {r} : call'[q] = call[q]
  BY <1>1, <1>2 DEF Calls
<1>4. InTransaction(r)' => InTransaction(r)
  BY <1>3 DEF InTransaction, EnsureDeviceSession, CallsKnow
<1>5. ClaimsHold'
  BY <1>3, <1>4 DEF ClaimsHold, InTransaction, FamilyInv, EnsureDeviceSession
<1>6. FamiliesNamed' /\ UsedMarked' /\ DeniedKnown'
  BY DEF EnsureDeviceSession, FamilyInv, FamiliesNamed, UsedMarked, DeniedKnown
<1>7. OneLivePerFamily' /\ UsedHasSuccessor'
  BY DEF EnsureDeviceSession, FamilyInv, OneLivePerFamily, Live, UsedHasSuccessor, Fresh
<1>8. SessionOfItsUser'
  <2>1. \A s \in Sessions : device[s] # Null => device'[s] # Null /\ device'[s].user = device[s].user
    BY <1>0, <1>1, <1>2, OwnersKept
  <2>2. \A t \in Tokens : row[t] # Null /\ row[t].session # Null => row[t].session \in Sessions
    BY DEF Rows
  <2> QED  BY <2>1, <2>2 DEF EnsureDeviceSession, FamilyInv, SessionOfItsUser, Fresh
<1> QED  BY <1>5, <1>6, <1>7, <1>8 DEF FamilyInv

LEMMA FamilyPersist ==
  ASSUME Inv, NEW r \in Requests, NEW t \in Tokens, PersistRefreshToken(r, t)
  PROVE  FamilyInv'
<1> USE DEF Inv, TypeInv, TypeOK
<1>0. call[r].user \in Users /\ call[r].session \in Sessions \cup {Null} /\ call[r].t = Null
  BY DEF PersistRefreshToken, CallsKnow, At, Calls, InTransaction
<1>1. /\ row[t] = Null /\ row'[t].user = call[r].user /\ row'[t].family = t
      /\ row'[t].session = call[r].session
      /\ row'[t].revoked = FALSE /\ row'[t].usedAt = FALSE /\ row'[t].grace = "none"
      /\ \A u \in Tokens \ {t} : row'[u] = row[u]
  BY DEF PersistRefreshToken, Fresh, NewRow
<1>2. row'[t] # Null
  <2>1. NewRow(t, call[r].user, Null, call[r].session) \in Rows
    BY <1>0, NewRowType
  <2> QED  BY <2>1, RowAssumption DEF PersistRefreshToken
<1>3. /\ call'[r].pc = "idle" /\ \A q \in Requests \ {r} : call'[q] = call[q]
  BY DEF PersistRefreshToken, Return, IdleCall
<1>4. \A u \in Tokens : row[u] # Null => row'[u] = row[u]
  BY <1>1
<1>5. ClaimsHold'
  BY <1>3, <1>4 DEF ClaimsHold, InTransaction, FamilyInv, CallsKnow, Calls
<1>6. FamiliesNamed'
  BY <1>1, <1>2, <1>4 DEF FamilyInv, FamiliesNamed, Rows
<1>7. UsedMarked' /\ DeniedKnown'
  BY <1>1, <1>2, <1>4 DEF PersistRefreshToken, FamilyInv, UsedMarked, DeniedKnown
<1>8. OneLivePerFamily'
  BY <1>1, <1>2, <1>4, NullAssumption DEF FamilyInv, OneLivePerFamily, Live, Fresh, FamiliesNamed
<1>9. UsedHasSuccessor'
  BY <1>1, <1>2, <1>4, NullAssumption DEF FamilyInv, UsedHasSuccessor, Fresh, Rows
<1>10. SessionOfItsUser'
  <2>1. call[r].session # Null =>
          device[call[r].session] # Null /\ device[call[r].session].user = call[r].user
    BY <1>0 DEF PersistRefreshToken, SessionsKnown
  <2> QED  BY <1>1, <1>2, <2>1 DEF PersistRefreshToken, FamilyInv, SessionOfItsUser, Fresh
<1> QED  BY <1>5, <1>6, <1>7, <1>8, <1>9, <1>10 DEF FamilyInv

\* What a rotation of o by r to t does to the rows.
Rotated(o, r, t) ==
  /\ o \in Tokens /\ o # t /\ row[o] # Null /\ row[t] = Null /\ row[o] \in Rows
  /\ ~row[o].revoked /\ row[o].user = call[r].user
  /\ row'[t] # Null /\ row'[t].user = call[r].user /\ row'[t].session = call[r].session
  /\ row'[t].family = (IF row[o].family = Null THEN t ELSE row[o].family)
  /\ row'[t].revoked = FALSE /\ row'[t].usedAt = FALSE /\ row'[t].grace = "none"
  /\ row'[o] # Null /\ row'[o].user = row[o].user /\ row'[o].family = row[o].family
  /\ row'[o].session = row[o].session /\ row'[o].expired = row[o].expired
  /\ row'[o].revoked = TRUE /\ row'[o].usedAt = TRUE /\ row'[o].grace = "open"
  /\ row'[o].replacedBy = t
  /\ \A u \in Tokens \ {t, o} : row'[u] = row[u]

LEMMA RotateRows ==
  ASSUME Inv, NEW r \in Requests, NEW t \in Tokens, Rotate(r, t)
  PROVE  Rotated(call[r].t, r, t)
<1> USE DEF Inv, TypeInv, TypeOK
<1> DEFINE o == call[r].t
<1>1. /\ o \in Tokens /\ row[o] # Null /\ row[o] \in Rows /\ row[o].user = call[r].user
      /\ call[r].user \in Users /\ call[r].session \in Sessions \cup {Null}
  BY DEF Rotate, InTransaction, CallsKnow, At, Calls
<1>2. row[t] = Null /\ o # t
  BY <1>1 DEF Rotate, Fresh
<1>3. ~row[o].revoked
  BY DEF Rotate, FamilyInv, ClaimsHold
<1>4. NewRow(t, call[r].user, row[o].family, call[r].session) \in Rows /\ ClaimedRow(row[o], t) \in Rows
  BY <1>1, NewRowType, ClaimedRowType DEF Rows
<1>5. /\ row'[t] = NewRow(t, call[r].user, row[o].family, call[r].session)
      /\ row'[o] = ClaimedRow(row[o], t)
      /\ \A u \in Tokens \ {t, o} : row'[u] = row[u]
  BY <1>1, <1>2 DEF Rotate
<1>6. row'[t] # Null /\ row'[o] # Null
  BY <1>4, <1>5, RowAssumption
<1> QED  BY <1>1, <1>2, <1>3, <1>5, <1>6 DEF NewRow, ClaimedRow, Rows, Rotated

LEMMA FamilyRotate ==
  ASSUME Inv, NEW r \in Requests, NEW t \in Tokens, Rotate(r, t)
  PROVE  FamilyInv'
<1> DEFINE o == call[r].t
<1>1. /\ o \in Tokens /\ o # t /\ row[o] # Null /\ row[t] = Null /\ row[o] \in Rows
      /\ ~row[o].revoked /\ row[o].user = call[r].user
      /\ row'[t] # Null /\ row'[t].user = call[r].user /\ row'[t].session = call[r].session
      /\ row'[t].family = (IF row[o].family = Null THEN t ELSE row[o].family)
      /\ row'[t].revoked = FALSE /\ row'[t].usedAt = FALSE /\ row'[t].grace = "none"
      /\ row'[o] # Null /\ row'[o].user = row[o].user /\ row'[o].family = row[o].family
      /\ row'[o].session = row[o].session /\ row'[o].expired = row[o].expired
      /\ row'[o].revoked = TRUE /\ row'[o].usedAt = TRUE /\ row'[o].grace = "open"
      /\ row'[o].replacedBy = t
      /\ \A u \in Tokens \ {t, o} : row'[u] = row[u]
  <2>1. Rotated(o, r, t)  BY RotateRows, Zenon
  <2>. QED  BY <2>1, Zenon DEF Rotated
<1> USE DEF Inv, TypeInv, TypeOK
<1>2. /\ call'[r].pc = "idle" /\ \A q \in Requests \ {r} : call'[q] = call[q]
  BY DEF Rotate, Return, IdleCall
<1>3. ClaimsHold'
  <2>1. \A q \in Requests \ {r} : InTransaction(q) => call[q].t # o /\ call[q].t # t
    <3>1. \A q \in Requests \ {r} : InTransaction(q) => call[q].t # o
      BY DEF Rotate, FamilyInv, ClaimsHold
    <3>2. \A q \in Requests : InTransaction(q) => row[call[q].t] # Null
      BY DEF InTransaction, CallsKnow
    <3>. QED  BY <1>1, <3>1, <3>2
  <2>2. \A q \in Requests : InTransaction(q)' => q # r /\ InTransaction(q) /\ call'[q].t = call[q].t
    BY <1>2 DEF InTransaction
  <2>3. \A q \in Requests : InTransaction(q) => call[q].t \in Tokens
    BY DEF InTransaction, Calls
  <2> QED  BY <1>1, <2>1, <2>2, <2>3 DEF FamilyInv, ClaimsHold
<1>4. \A u \in Tokens : row[u] # Null =>
        row'[u] # Null /\ row'[u].family = row[u].family /\ row'[u].user = row[u].user
  BY <1>1
<1>5. FamiliesNamed'
  <2>1. row[o].family # Null => row[o].family \in Tokens
    BY <1>1 DEF Rows
  <2>2. \A u \in Tokens : row[u] # Null /\ row[u].family # Null => row[u].family \in Tokens
    BY DEF Rows
  <2> QED  BY <1>1, <1>4, <2>1, <2>2 DEF FamilyInv, FamiliesNamed
<1>6. UsedMarked'
  BY <1>1 DEF FamilyInv, UsedMarked
<1>7. DeniedKnown'
  <2>1. denied' = denied  BY DEF Rotate
  <2>2. ASSUME NEW u \in denied, u # o, u \in Tokens
        PROVE  row'[u] # Null /\ row'[u] = row[u]
    BY <1>1, <2>2 DEF FamilyInv, DeniedKnown
  <2>3. row[o].grace = "none"  BY <1>1 DEF FamilyInv, UsedMarked
  <2>4. o \in denied => row'[o].expired
    <3>1. o \in denied => row[o].expired \/ (row[o].revoked /\ ~row[o].usedAt) \/ row[o].grace = "past"
      BY Zenon DEF FamilyInv, DeniedKnown
    <3>2. row[o].grace # "past"  BY <2>3
    <3>3. ~row[o].revoked /\ row'[o].expired = row[o].expired  BY <1>1, Zenon
    <3>. QED  BY <3>1, <3>2, <3>3, Zenon
  <2>5. row'[o] # Null  BY <1>1, Zenon
  <2>6. ASSUME NEW u \in denied
        PROVE  /\ row'[u] # Null
               /\ row'[u].expired \/ (row'[u].revoked /\ ~row'[u].usedAt) \/ row'[u].grace = "past"
    <3>1. u \in Tokens  OBVIOUS
    <3>2. CASE u = o  BY <2>4, <2>5, <3>2, Zenon
    <3>3. CASE u # o
      <4>1. row'[u] # Null /\ row'[u] = row[u]  BY <2>2, <3>1, <3>3, Zenon
      <4>2. row[u].expired \/ (row[u].revoked /\ ~row[u].usedAt) \/ row[u].grace = "past"
        BY Zenon DEF FamilyInv, DeniedKnown
      <4>. QED  BY <4>1, <4>2, Zenon
    <3>. QED  BY <3>2, <3>3
  <2>. QED  BY <2>1, <2>6, Zenon DEF DeniedKnown
<1>8. OneLivePerFamily'
  <2> SUFFICES ASSUME NEW u \in Tokens, NEW v \in Tokens, Live(u)', Live(v)',
                      row'[u].family = row'[v].family, row'[u].family # Null
               PROVE  u = v
    BY DEF OneLivePerFamily
  <2>1. u # o /\ v # o
    BY <1>1 DEF Live
  <2>2. ASSUME NEW x \in Tokens, Live(x)', x # t, row'[x].family = row'[t].family PROVE FALSE
    <3>1. x # o /\ row'[x] = row[x] /\ Live(x)
      BY <1>1, <2>2 DEF Live, Fresh
    <3>2. CASE row[o].family = Null
      <4>1. row[x].family = t
        BY <1>1, <2>2, <3>1, <3>2
      <4> QED  BY <1>1, <3>1, <4>1, NullAssumption DEF FamilyInv, FamiliesNamed, Live, Fresh
    <3>3. CASE row[o].family # Null
      <4>1. Live(o)
        BY <1>1 DEF Live, Fresh
      <4> QED  BY <1>1, <2>2, <3>1, <3>3, <4>1 DEF FamilyInv, OneLivePerFamily
    <3> QED  BY <3>2, <3>3
  <2>3. CASE u # t /\ v # t
    BY <1>1, <2>1, <2>3 DEF FamilyInv, OneLivePerFamily, Live, Fresh
  <2> QED  BY <2>2, <2>3
<1>9. UsedHasSuccessor'
  <2> SUFFICES ASSUME NEW u \in Tokens, row'[u] # Null, row'[u].usedAt
               PROVE  /\ row'[u].replacedBy # Null /\ row'[row'[u].replacedBy] # Null
                      /\ row'[row'[u].replacedBy].user = row'[u].user
                      /\ row'[row'[u].replacedBy].family =
                           (IF row'[u].family = Null THEN row'[u].replacedBy ELSE row'[u].family)
    BY DEF UsedHasSuccessor, Fresh
  <2>1. CASE u = o
    BY <1>1, <2>1, NullAssumption
  <2>2. CASE u # o
    <3>1. row'[u] = row[u] /\ row[u] # Null /\ row[u].usedAt
      BY <1>1, <2>2
    <3>2. /\ row[u].replacedBy \in Tokens /\ row[row[u].replacedBy] # Null
          /\ row[row[u].replacedBy].user = row[u].user
          /\ row[row[u].replacedBy].family =
               (IF row[u].family = Null THEN row[u].replacedBy ELSE row[u].family)
      BY <3>1 DEF FamilyInv, UsedHasSuccessor, Fresh, Rows
    <3> QED  BY <1>4, <3>1, <3>2, NullAssumption
  <2> QED  BY <2>1, <2>2
<1>10. SessionOfItsUser'
  <2>0. call[r] \in Calls
    OBVIOUS
  <2>1. /\ call[r].user # Null
        /\ call[r].session # Null => /\ call[r].install # Null /\ call[r].session \in Sessions
                                     /\ device[call[r].session] # Null =>
                                          device[call[r].session].user = call[r].user
    BY <2>0 DEF Rotate, CallsKnow, SessionsKnown, At, Calls
  <2>2. \A s \in Sessions : device[s] # Null => device'[s] # Null /\ device'[s].user = device[s].user
    BY <2>1, OwnersKept DEF Rotate
  <2>3. call[r].session # Null =>
          device'[call[r].session] # Null /\ device'[call[r].session].user = call[r].user
    BY <2>1, Saved DEF Rotate
  <2>4. \A u \in Tokens : row[u] # Null /\ row[u].session # Null => row[u].session \in Sessions
    BY DEF Rows
  <2>5. \A u \in Tokens : u # t /\ row'[u] # Null =>
          row[u] # Null /\ row'[u].session = row[u].session /\ row'[u].user = row[u].user
    BY <1>1
  <2> QED  BY <1>1, <2>2, <2>3, <2>4, <2>5 DEF FamilyInv, SessionOfItsUser, Fresh
<1> QED  BY <1>3, <1>5, <1>6, <1>7, <1>8, <1>9, <1>10 DEF FamilyInv

\* What logging out and time do to the row of t.
LEMMA FlagRows ==
  ASSUME Inv, NEW t \in Tokens, Logout(t) \/ Expire(t) \/ GracePasses(t)
  PROVE  /\ row[t] # Null /\ row'[t] # Null /\ row[t] \in Rows
         /\ row'[t].user = row[t].user /\ row'[t].family = row[t].family
         /\ row'[t].session = row[t].session /\ row'[t].usedAt = row[t].usedAt
         /\ row'[t].replacedBy = row[t].replacedBy
         /\ row[t].revoked => row'[t].revoked
         /\ row[t].expired => row'[t].expired
         /\ row'[t].grace = row[t].grace \/ (row[t].grace = "open" /\ row'[t].grace = "past")
         /\ row'[t].revoked = row[t].revoked \/ Logout(t)
         /\ \A u \in Tokens \ {t} : row'[u] = row[u]
<1> USE DEF Inv, TypeInv, TypeOK
<1>1. row[t] # Null /\ row[t] \in Rows
  BY DEF Logout, Expire, GracePasses, Fresh
<1>2. CASE Logout(t)
  <2>1. row'[t] = [row[t] EXCEPT !.revoked = TRUE] /\ \A u \in Tokens \ {t} : row'[u] = row[u]
    BY <1>2 DEF Logout
  <2>2. [row[t] EXCEPT !.revoked = TRUE] \in Rows
    BY <1>1 DEF Rows
  <2> QED  BY ZenonT(30), <1>1, <1>2, <2>1, <2>2, RowAssumption DEF Rows
<1>3. CASE Expire(t)
  <2>1. row'[t] = [row[t] EXCEPT !.expired = TRUE] /\ \A u \in Tokens \ {t} : row'[u] = row[u]
    BY <1>3 DEF Expire
  <2>2. [row[t] EXCEPT !.expired = TRUE] \in Rows
    BY <1>1 DEF Rows
  <2> QED  BY <1>1, <1>3, <2>1, <2>2, RowAssumption DEF Rows
<1>4. CASE GracePasses(t)
  <2>1. row'[t] = [row[t] EXCEPT !.grace = "past"] /\ \A u \in Tokens \ {t} : row'[u] = row[u]
    BY <1>4 DEF GracePasses
  <2>2. [row[t] EXCEPT !.grace = "past"] \in Rows
    BY <1>1 DEF Rows
  <2> QED  BY <1>1, <1>4, <2>1, <2>2, RowAssumption DEF Rows, GracePasses
<1> QED  BY <1>2, <1>3, <1>4

LEMMA FamilyEnvironment ==
  ASSUME Inv, NEW t \in Tokens, Logout(t) \/ Expire(t) \/ GracePasses(t)
  PROVE  FamilyInv'
<1> USE DEF Inv, TypeInv, TypeOK
<1>1. /\ row[t] # Null /\ row'[t] # Null /\ row[t] \in Rows
      /\ row'[t].user = row[t].user /\ row'[t].family = row[t].family
      /\ row'[t].session = row[t].session /\ row'[t].usedAt = row[t].usedAt
      /\ row'[t].replacedBy = row[t].replacedBy
      /\ row[t].revoked => row'[t].revoked
      /\ row[t].expired => row'[t].expired
      /\ row'[t].grace = row[t].grace \/ (row[t].grace = "open" /\ row'[t].grace = "past")
      /\ row'[t].revoked = row[t].revoked \/ Logout(t)
      /\ \A u \in Tokens \ {t} : row'[u] = row[u]
  BY FlagRows
<1>2. UNCHANGED <<device, call, denied>>
  BY DEF Logout, Expire, GracePasses
<1>3. ClaimsHold'
  <2>1. \A q \in Requests : InTransaction(q)' <=> InTransaction(q)
    BY <1>2 DEF InTransaction
  <2>2. \A q \in Requests : InTransaction(q) => call[q].t \in Tokens
    BY DEF InTransaction, Calls
  <2>3. Logout(t) => \A q \in Requests : InTransaction(q) => call[q].t # t
    BY DEF Logout, Locked
  <2> QED  BY <1>1, <1>2, <2>1, <2>2, <2>3 DEF FamilyInv, ClaimsHold
<1>4. \A u \in Tokens :
        /\ row'[u] # Null <=> row[u] # Null
        /\ row[u] # Null => /\ row'[u].user = row[u].user /\ row'[u].family = row[u].family
                            /\ row'[u].session = row[u].session /\ row'[u].usedAt = row[u].usedAt
                            /\ row'[u].replacedBy = row[u].replacedBy
                            /\ row[u].revoked => row'[u].revoked
  BY <1>1
<1>5. FamiliesNamed'
  <2>1. \A u \in Tokens : row[u] # Null /\ row[u].family # Null => row[u].family \in Tokens
    BY DEF Rows
  <2> QED  BY <1>4, <2>1 DEF FamilyInv, FamiliesNamed
<1>6. UsedMarked'
  BY <1>1, <1>4 DEF FamilyInv, UsedMarked
<1>7. DeniedKnown'
  BY <1>1, <1>2 DEF FamilyInv, DeniedKnown
<1>8. OneLivePerFamily'
  BY <1>4 DEF FamilyInv, OneLivePerFamily, Live, Fresh
<1>9. UsedHasSuccessor'
  <2>1. \A u \in Tokens : row[u] # Null /\ row[u].replacedBy # Null => row[u].replacedBy \in Tokens
    BY DEF Rows
  <2> QED  BY <1>4, <2>1 DEF FamilyInv, UsedHasSuccessor, Fresh
<1>10. SessionOfItsUser'
  BY <1>2, <1>4 DEF FamilyInv, SessionOfItsUser, Fresh
<1> QED  BY <1>3, <1>5, <1>6, <1>7, <1>8, <1>9, <1>10 DEF FamilyInv

LEMMA FamilyNext == Inv /\ [Next]_vars => FamilyInv'
<1> SUFFICES ASSUME Inv, [Next]_vars PROVE FamilyInv'
  OBVIOUS
<1>1. CASE UNCHANGED vars
  BY <1>1, QuietStep DEF vars, InTransaction
<1>2. ASSUME NEW r \in Requests, Serve(r) PROVE FamilyInv'
  <2>1. CASE Fail(r)
    <3>1. call'[r].t = Null /\ \A q \in Requests \ {r} : call'[q] = call[q]
      BY <2>1 DEF Fail, Return, IdleCall, Inv, TypeInv, TypeOK
    <3> QED  BY <2>1, <3>1, QuietStep DEF Fail, InTransaction
  <2> QED  BY <1>2, <2>1, FamilyClaim, FamilyEnsure, FamilyPersist, FamilyRotate DEF Serve
<1>3. ASSUME NEW r \in Requests, Arrive(r) PROVE FamilyInv'
  BY <1>3, FamilyArrive
<1>4. ASSUME NEW t \in Tokens, Logout(t) \/ Expire(t) \/ GracePasses(t) PROVE FamilyInv'
  BY <1>4, FamilyEnvironment
<1> QED  BY <1>1, <1>2, <1>3, <1>4 DEF Next

THEOREM InvHolds == Spec => []Inv
<1>1. Init => Inv
  BY TypeInit, FamilyInit DEF Inv
<1>2. Inv /\ [Next]_vars => Inv'
  BY TypeNext, FamilyNext DEF Inv
<1> QED  BY <1>1, <1>2, PTL DEF Spec

\* A family has one token that works, however many requests present one at
\* once and whatever fails between the steps (/auth/token).
THEOREM OneLiveTokenPerFamily == Spec => []OneLivePerFamily
<1>1. Inv => OneLivePerFamily
  BY DEF Inv, FamilyInv
<1> QED  BY <1>1, InvHolds, PTL

\* A token is used up only together with the birth of its successor
\* (the transaction of /auth/token).
THEOREM UsedTokensHaveSuccessors == Spec => []UsedHasSuccessor
<1>1. Inv => UsedHasSuccessor
  BY DEF Inv, FamilyInv
<1> QED  BY <1>1, InvHolds, PTL

\* Losing a race for a token is never answered with 403 (/auth/token).
THEOREM RivalsNotDenied == Spec => []RivalsAreNotDenied
<1>1. Inv => RivalsAreNotDenied
  BY DEF Inv, FamilyInv, DeniedKnown, RivalsAreNotDenied
<1> QED  BY <1>1, InvHolds, PTL

\* A token belongs to a device session of its own user
\* (ensureDeviceSession).
THEOREM SessionsOfTheirUsers == Spec => []SessionOfItsUser
<1>1. Inv => SessionOfItsUser
  BY DEF Inv, FamilyInv
<1> QED  BY <1>1, InvHolds, PTL

LEMMA LogoutStep ==
  ASSUME Inv, [Next]_vars, NEW t \in Tokens, row[t] # Null, row[t].revoked, ~row[t].usedAt
  PROVE  ~row'[t].usedAt
<1> USE DEF Inv, TypeInv, TypeOK
<1>1. CASE UNCHANGED row
  BY <1>1
<1>2. ASSUME NEW r \in Requests, NEW u \in Tokens, PersistRefreshToken(r, u) PROVE ~row'[t].usedAt
  BY <1>2 DEF PersistRefreshToken, Fresh
<1>3. ASSUME NEW r \in Requests, NEW u \in Tokens, Rotate(r, u) PROVE ~row'[t].usedAt
  <2>1. t # call[r].t /\ t # u
    <3>1. ~row[call[r].t].revoked /\ row[u] = Null
      BY <1>3, RotateRows DEF Rotated
    <3> QED  BY <3>1
  <2> QED  BY <1>3, <2>1 DEF Rotate
<1>4. ASSUME NEW u \in Tokens, Logout(u) \/ Expire(u) \/ GracePasses(u) PROVE ~row'[t].usedAt
  BY <1>4, FlagRows
<1> QED
  BY <1>1, <1>2, <1>3, <1>4
     DEF Next, vars, Serve, Arrive, Claim, EnsureDeviceSession, Fail, SignIn, Find

\* A token that was logged out before it was used is never used after
\* (/auth/logout against /auth/token).
THEOREM LogoutsWin == Spec => LogoutWins
<1>1. Inv /\ [Next]_vars =>
        [\A t \in Tokens : ~Fresh(t) /\ row[t].revoked /\ ~row[t].usedAt => ~row'[t].usedAt]_vars
  BY LogoutStep DEF Fresh
<1> QED  BY <1>1, InvHolds, PTL DEF Spec, LogoutWins

----------------------------------------------------------------------------
(* RefreshTokens implements TokenFamilies.                                 *)

\* The live token of a family is the only one, also where the family of an
\* old row is the row itself.
LEMMA LoneLive ==
  ASSUME Inv, NEW t \in Tokens, Live(t)
  PROVE  FamilyOf(t) \in Tokens /\ LiveOf(FamilyOf(t)) = {t}
<1> USE DEF Inv, TypeInv, TypeOK
<1>1. row[t] # Null /\ row[t] \in Rows /\ FamilyOf(t) \in Tokens
  BY DEF Live, Fresh, FamilyOf, Rows
<1>2. ASSUME NEW u \in Tokens, Live(u), FamilyOf(u) = FamilyOf(t) PROVE u = t
  <2>0. row[u] # Null /\ row[u] \in Rows
    BY <1>2 DEF Live, Fresh
  <2>1. CASE row[t].family = Null /\ row[u].family = Null
    BY <1>2, <2>1 DEF FamilyOf
  <2>2. CASE row[t].family # Null /\ row[u].family # Null
    BY <1>2, <2>2 DEF FamilyOf, FamilyInv, OneLivePerFamily
  <2>3. CASE row[t].family = Null /\ row[u].family # Null
    BY <1>1, <1>2, <2>0, <2>3 DEF FamilyOf, FamilyInv, FamiliesNamed
  <2>4. CASE row[t].family # Null /\ row[u].family = Null
    BY <1>1, <1>2, <2>0, <2>4 DEF FamilyOf, FamilyInv, FamiliesNamed
  <2> QED  BY <2>1, <2>2, <2>3, <2>4
<1> QED  BY <1>1, <1>2 DEF LiveOf

\* A token that does not exist names no family.
LEMMA NoFamily ==
  ASSUME Inv, NEW t \in Tokens, row[t] = Null
  PROVE  LiveOf(t) = {}
BY DEF Inv, TypeInv, TypeOK, LiveOf, Live, Fresh, FamilyOf, FamilyInv, FamiliesNamed

LEMMA FamiliesInit == Init => Families!Init
<1> SUFFICES ASSUME Init PROVE Families!Init
  OBVIOUS
<1>1. ASSUME NEW t \in Tokens, row[t] # Null PROVE row[t].family = Null /\ ~row[t].revoked
  <2>1. PICK old \in SUBSET Tokens : \E owner \in [old -> Users] :
          row = [u \in Tokens |->
                  IF u \in old THEN [NewRow(u, owner[u], u, Null) EXCEPT !.family = Null] ELSE Null]
    BY DEF Init
  <2>2. PICK owner \in [old -> Users] :
          row = [u \in Tokens |->
                  IF u \in old THEN [NewRow(u, owner[u], u, Null) EXCEPT !.family = Null] ELSE Null]
    BY <2>1
  <2>3. row[t] = [NewRow(t, owner[t], t, Null) EXCEPT !.family = Null]
    BY <1>1, <2>2
  <2> QED  BY <2>3 DEF NewRow
<1>2. \A f \in Tokens : LiveOf(f) = IF f \in Issued THEN {f} ELSE {}
  BY <1>1 DEF LiveOf, Live, Fresh, FamilyOf, Issued
<1> QED  BY <1>2 DEF Families!Init, Usable, Issued

\* A step that changes no family.
LEMMA FamiliesStutter ==
  ASSUME \A t \in Tokens : /\ Live(t)' <=> Live(t)
                           /\ Fresh(t)' <=> Fresh(t)
                           /\ ~Fresh(t) => row'[t].family = row[t].family
  PROVE  UNCHANGED <<Usable, Issued>>
<1>1. \A f \in Tokens : LiveOf(f)' = LiveOf(f)
  BY DEF LiveOf, FamilyOf, Live
<1>2. Issued' = Issued
  BY DEF Issued
<1> QED  BY <1>1, <1>2 DEF Usable

LEMMA PersistStarts ==
  ASSUME Inv, NEW r \in Requests, NEW t \in Tokens, PersistRefreshToken(r, t)
  PROVE  Families!Start(t)
<1> USE DEF Inv, TypeInv, TypeOK
<1>1. call[r].user \in Users /\ call[r].session \in Sessions \cup {Null}
  BY DEF PersistRefreshToken, CallsKnow, At, Calls
<1>2. NewRow(t, call[r].user, Null, call[r].session) \in Rows
  BY <1>1, NewRowType
<1>3. /\ row[t] = Null /\ row'[t] # Null /\ row'[t].family = t /\ ~row'[t].revoked
      /\ \A u \in Tokens \ {t} : row'[u] = row[u]
  BY <1>2, RowAssumption DEF PersistRefreshToken, Fresh, NewRow
<1>4. LiveOf(t) = {}
  BY <1>3, NoFamily
<1>5. LiveOf(t)' = {t}
  BY <1>3, <1>4, NullAssumption DEF LiveOf, Live, Fresh, FamilyOf
<1>6. \A f \in Tokens \ {t} : LiveOf(f)' = LiveOf(f)
  BY <1>3, NullAssumption DEF LiveOf, Live, Fresh, FamilyOf
<1>7. Issued' = Issued \cup {t} /\ t \notin Issued
  BY <1>3 DEF Issued, Fresh
<1> QED  BY <1>5, <1>6, <1>7 DEF Families!Start, Usable

LEMMA RotateRotates ==
  ASSUME Inv, NEW r \in Requests, NEW t \in Tokens, Rotate(r, t)
  PROVE  Families!Next
<1>0. PICK o \in Tokens : Rotated(o, r, t)
  <2>1. Rotated(call[r].t, r, t)
    BY RotateRows
  <2>2. call[r].t \in Tokens
    BY <2>1 DEF Rotated
  <2> QED  BY <2>1, <2>2
<1>1. /\ o # t /\ row[o] # Null /\ row[t] = Null /\ row[o] \in Rows
      /\ ~row[o].revoked
      /\ row'[t] # Null
      /\ row'[t].family = (IF row[o].family = Null THEN t ELSE row[o].family)
      /\ row'[t].revoked = FALSE
      /\ row'[o] # Null /\ row'[o].family = row[o].family
      /\ row'[o].revoked = TRUE
      /\ \A u \in Tokens \ {t, o} : row'[u] = row[u]
  BY <1>0 DEF Rotated
<1>2. Live(o)
  BY <1>1 DEF Live, Fresh
<1>3. FamilyOf(o) \in Tokens /\ LiveOf(FamilyOf(o)) = {o}
  BY <1>1, <1>2, LoneLive
<1>4. LiveOf(t) = {}
  BY <1>1, NoFamily
<1>5. Issued' = Issued \cup {t} /\ t \notin Issued
  BY <1>1 DEF Issued, Fresh
<1>6. ~Live(o)' /\ ~Live(t) /\ Live(t)' /\ \A u \in Tokens \ {t, o} : (Live(u)' <=> Live(u)) /\ FamilyOf(u)' = FamilyOf(u)
  BY <1>1 DEF Live, Fresh, FamilyOf
<1>7. CASE row[o].family = Null
  <2>1. FamilyOf(o) = o /\ FamilyOf(t)' = t
    BY <1>1, <1>7, NullAssumption DEF FamilyOf
  <2>2. LiveOf(o)' = {} /\ LiveOf(t)' = {t}
    BY <1>1, <1>3, <1>4, <1>6, <2>1 DEF LiveOf
  <2>3. \A f \in Tokens \ {o, t} : LiveOf(f)' = LiveOf(f)
    BY <1>1, <1>6, <2>1 DEF LiveOf
  <2>4. Families!Adopt(o, t)
    <3>1. Usable' = [Usable EXCEPT ![o] = {}, ![t] = {t}]
      BY <1>1, <2>2, <2>3 DEF Usable
    <3>2. Usable[o] = {o}
      BY <1>3, <2>1 DEF Usable
    <3> QED  BY <1>5, <3>1, <3>2 DEF Families!Adopt
  <2> QED  BY <1>1, <2>4 DEF Families!Next
<1>8. CASE row[o].family # Null
  <2>1. PICK f \in Tokens : f = row[o].family
    BY <1>1, <1>8 DEF Rows
  <2>2. FamilyOf(o) = f /\ FamilyOf(t)' = f /\ LiveOf(f) = {o}
    BY <1>1, <1>3, <1>8, <2>1 DEF FamilyOf
  <2>3. LiveOf(f)' = {t}
    BY <1>1, <1>6, <2>2 DEF LiveOf
  <2>4. \A g \in Tokens : g # f => LiveOf(g)' = LiveOf(g)
    BY <1>1, <1>6, <2>2 DEF LiveOf
  <2>5. Families!Rotate(f, t)
    <3>1. Usable' = [Usable EXCEPT ![f] = {t}]
      BY <2>3, <2>4 DEF Usable
    <3>2. Usable[f] # {}
      BY <2>2 DEF Usable
    <3> QED  BY <1>5, <3>1, <3>2 DEF Families!Rotate
  <2> QED  BY <2>5 DEF Families!Next
<1> QED  BY <1>7, <1>8

LEMMA LogoutEnds ==
  ASSUME Inv, NEW t \in Tokens, Logout(t)
  PROVE  [Families!Next]_<<Usable, Issued>>
<1>1. /\ row[t] # Null /\ row'[t] # Null /\ row'[t].family = row[t].family /\ row'[t].revoked
      /\ \A u \in Tokens \ {t} : row'[u] = row[u]
  <2>1. row'[t].revoked
    BY DEF Logout, Inv, TypeInv, TypeOK, Fresh, Rows
  <2> QED  BY <2>1, FlagRows
<1>2. CASE ~Live(t)
  BY <1>1, <1>2, FamiliesStutter DEF Live, Fresh
<1>3. CASE Live(t)
  <2> DEFINE f == FamilyOf(t)
  <2>1. f \in Tokens /\ LiveOf(f) = {t}
    BY <1>3, LoneLive
  <2>2. ~Live(t)' /\ \A u \in Tokens : (u # t => (Live(u)' <=> Live(u))) /\ FamilyOf(u)' = FamilyOf(u)
    BY <1>1 DEF Live, Fresh, FamilyOf
  <2>3. \A g \in Tokens : {u \in Tokens : Live(u)' /\ FamilyOf(u)' = g} = LiveOf(g) \ {t}
    BY <2>2 DEF LiveOf
  <2>4. \A g \in Tokens : g # f => t \notin LiveOf(g)
    BY DEF LiveOf
  <2>5. Usable' = [Usable EXCEPT ![f] = {}]
    BY <2>1, <2>3, <2>4 DEF Usable, LiveOf
  <2>6. Issued' = Issued
    BY <1>1 DEF Issued, Fresh
  <2>7. Families!End(f)
    BY <2>1, <2>5, <2>6 DEF Families!End, Usable
  <2> QED  BY <2>1, <2>7 DEF Families!Next
<1> QED  BY <1>2, <1>3

LEMMA FamiliesNext == Inv /\ [Next]_vars => [Families!Next]_<<Usable, Issued>>
<1> SUFFICES ASSUME Inv, [Next]_vars PROVE [Families!Next]_<<Usable, Issued>>
  OBVIOUS
<1>1. CASE UNCHANGED row
  BY <1>1, FamiliesStutter DEF Live, Fresh
<1>2. ASSUME NEW r \in Requests, NEW t \in Tokens, PersistRefreshToken(r, t)
      PROVE  [Families!Next]_<<Usable, Issued>>
  BY <1>2, PersistStarts DEF Families!Next
<1>3. ASSUME NEW r \in Requests, NEW t \in Tokens, Rotate(r, t)
      PROVE  [Families!Next]_<<Usable, Issued>>
  BY <1>3, RotateRotates
<1>4. ASSUME NEW t \in Tokens, Expire(t) \/ GracePasses(t)
      PROVE  [Families!Next]_<<Usable, Issued>>
  <2>1. /\ row[t] # Null /\ row'[t] # Null /\ row'[t].family = row[t].family
        /\ \A u \in Tokens \ {t} : row'[u] = row[u]
    BY <1>4, FlagRows
  <2>2. row'[t].revoked = row[t].revoked
    <3>1. row[t] \in Rows
      BY <1>4, FlagRows
    <3> QED  BY <1>4, <2>1, <3>1 DEF Expire, GracePasses, Inv, TypeInv, TypeOK, Rows
  <2> QED  BY <2>1, <2>2, FamiliesStutter DEF Live, Fresh
<1>5. ASSUME NEW t \in Tokens, Logout(t)
      PROVE  [Families!Next]_<<Usable, Issued>>
  BY <1>5, LogoutEnds
<1> QED
  BY <1>1, <1>2, <1>3, <1>4, <1>5
     DEF Next, vars, Serve, Arrive, Claim, EnsureDeviceSession, Fail, SignIn, Find

\* The rows of the table implement families of tokens (/auth/login,
\* /auth/token, /auth/logout).
THEOREM ImplementsFamilies == Spec => FamilySpec
BY FamiliesInit, FamiliesNext, InvHolds, PTL DEF Spec, FamilySpec, Families!Spec

-----------------------------------------------------------------------------
(* Credentials: the inductive invariant.                                     *)

Tickets ==
  [kind: {"verify", "reset", "change"}, to: Emails, version: {0, 1}, open: BOOLEAN, tries: Nat,
   live: BOOLEAN, fresh: BOOLEAN]
MailCalls == [pc: {"attach", "send", "create"}, to: Emails]
CodeCalls ==
  [pc: {"verify", "reset", "change", "activate", "useReset"}, i: Nat, box: Emails \cup {NoEmail}, row: Tickets]
LoginCalls == [pc: {"try", "count"}, right: BOOLEAN, failed: Nat]
Accounts ==
  [exists: BOOLEAN, email: Emails \cup {NoEmail}, active: BOOLEAN, status: {"PENDING", "ACTIVE", "BLOCKED"}]
AnyCall == {NotBusy} \cup MailCalls \cup CodeCalls \cup LoginCalls
TicketRows == 1..Len(ticket)

\* Every variable has its type; a mail is of a ticket that exists.
CredentialsTypeOK ==
  /\ account \in Accounts
  /\ ticket \in Seq(Tickets) /\ wrong \in Seq(Nat) /\ Len(wrong) = Len(ticket)
  /\ mailed \subseteq Nat \X {0, 1} \X Emails /\ \A m \in mailed : m[1] \in TicketRows
  /\ attempts \in Seq(BOOLEAN)
  /\ client \in [Clients -> AnyCall]
  /\ proved \subseteq Emails /\ excused \in BOOLEAN /\ reopened \in BOOLEAN

\* What a request in progress relies on: the ticket it read is still about the same address, the
\* mailbox of a right answer got its mail, and the failures it has counted are on record.
ClientOK(c) ==
  LET x == client[c] IN
  /\ x.pc # "idle" => account.exists
  /\ x.pc \in {"verify", "reset", "change", "activate", "useReset"} => x.i \in TicketRows
  /\ x.pc \in {"verify", "reset", "change"} => x.row.kind = x.pc
  /\ x.pc \in {"verify", "reset", "change"} => ticket[x.i].kind = x.pc /\ ticket[x.i].to = x.row.to
  /\ x.pc = "activate" => ticket[x.i].kind = "verify" /\ x.box # NoEmail
  /\ x.pc \in {"verify", "change", "activate"} /\ x.box # NoEmail => \E v \in {0, 1} : <<x.i, v, x.box>> \in mailed
  /\ x.pc = "try" => x.failed <= Failures(attempts, Len(attempts)) + 1
  /\ x.pc = "count" => x.failed <= Failures(attempts, Len(attempts))

\* The code of a change is mailed to the new address only.
ChangesMailed == \A m \in mailed : ticket[m[1]].kind = "change" => m[3] = ticket[m[1]].to

\* An account that is not there yet.
NotYet == ~account.exists => account.email = NoEmail /\ account.status = "PENDING"

\* While requests do not overlap:
Alone == \A c, d \in Clients : client[c].pc # "idle" /\ client[d].pc # "idle" => c = d

\* a request knows the address, the tries and the failures of the moment,
ClientKnows(c) ==
  LET x == client[c] IN
  /\ x.pc \in {"send", "create"} => account.email = x.to
  /\ x.pc = "attach" => account.email \in {NoEmail, x.to}
  /\ x.pc \in {"verify", "change"} => x.row.tries = ticket[x.i].tries /\ x.row.tries < MaxTries
  /\ x.pc = "try" => x.failed = Failures(attempts, Window) + 1 /\ account.status # "BLOCKED"
  /\ x.pc = "count" => x.failed >= Failures(attempts, Window)

\* an address that is not proved is of an inactive account, and all codes went to it,
AddressKnown ==
  \/ account.email \in proved
  \/ /\ account.email = NoEmail \/ ~account.active
     /\ \A m \in mailed : ticket[m[1]].kind = "verify" => m[3] = account.email

\* and the tries of a ticket are the wrong answers to it.
TriesKnown ==
  \A i \in TicketRows : ticket[i].kind # "reset" =>
    /\ wrong[i] = ticket[i].tries /\ wrong[i] <= MaxTries
    /\ ticket[i].open => wrong[i] < MaxTries

Quiet == Alone /\ (\A c \in Clients : ClientKnows(c)) /\ AddressKnown /\ TriesKnown

CredentialsInv ==
  /\ CredentialsTypeOK /\ (\A c \in Clients : ClientOK(c)) /\ ChangesMailed /\ NotYet
  /\ excused \/ Quiet
  /\ LockoutIsExact

-----------------------------------------------------------------------------
(* Credentials: the newest code, and counting failures.                      *)

\* A set of numbers has a smallest one, a bounded one also a largest.
LEMMA SmallestOf ==
  ASSUME NEW T, T \subseteq Nat, T # {}
  PROVE  \E n \in T : \A m \in T : n <= m
<1>1. PICK n \in T : \A m \in T : ~(<<m, n>> \in OpToRel(<, Nat))
  BY WFMin, NatLessThanWellFounded, Zenon
<1>2. ASSUME NEW m \in T PROVE n <= m
  <2>1. n \in Nat /\ m \in Nat /\ ~(<<m, n>> \in OpToRel(<, Nat))  BY <1>1, Zenon
  <2>2. ~(m < n)  BY <2>1, Zenon DEF OpToRel
  <2>3. n \in Nat /\ m \in Nat  BY <2>1, Zenon
  <2>. QED  BY <2>2, <2>3
<1>. QED  BY <1>2

LEMMA LargestOf ==
  ASSUME NEW N \in Nat, NEW S, S \subseteq 1..N, S # {}
  PROVE  \E i \in S : \A j \in S : j <= i
<1>1. PICK T : T = {N - i : i \in S}  OBVIOUS
<1>2. T \subseteq Nat  BY <1>1
<1>3. T # {}
  <2>1. PICK i \in S : TRUE  OBVIOUS
  <2>2. N - i \in T  BY <1>1, <2>1
  <2>. QED  BY <2>2
<1>4. PICK n \in T : \A m \in T : n <= m  BY <1>2, <1>3, SmallestOf
<1>5. PICK i \in S : n = N - i  BY <1>1
<1>6. ASSUME NEW j \in S PROVE j <= i
  <2>1. N - j \in T  BY <1>1
  <2>2. n <= N - j  BY <1>4, <2>1
  <2>. QED  BY <1>5, <2>2
<1>. QED  BY <1>6

LEMMA NewestIs ==
  ASSUME ticket \in Seq(Tickets), NEW kind, Newest(kind) # 0
  PROVE  /\ Newest(kind) \in TicketRows /\ ticket[Newest(kind)].kind = kind /\ ticket[Newest(kind)].open
<1> DEFINE S == {i \in 1..Len(ticket) : ticket[i].kind = kind /\ ticket[i].open}
<1>1. Len(ticket) \in Nat  OBVIOUS
<1>2. S # {}  BY DEF Newest
<1>3. S \subseteq 1..Len(ticket)  OBVIOUS
<1>4. Newest(kind) = CHOOSE i \in S : \A j \in S : j <= i
  BY <1>2 DEF Newest
<1>5. \E i \in S : \A j \in S : j <= i
  <2> HIDE DEF S
  <2>. QED  BY <1>1, <1>2, <1>3, LargestOf
<1>6. Newest(kind) \in S
  <2> HIDE DEF S
  <2>. QED  BY <1>4, <1>5
<1>. QED  BY <1>6 DEF TicketRows

Failed(s, n) == {i \in 1..Len(s) : i + n > Len(s) /\ ~s[i]}

LEMMA FailedFinite ==
  ASSUME NEW s \in Seq(BOOLEAN), NEW n
  PROVE  IsFiniteSet(Failed(s, n)) /\ Failures(s, n) = Cardinality(Failed(s, n)) /\ Failures(s, n) \in Nat
<1>1. IsFiniteSet(1..Len(s))  BY FS_Interval
<1>2. Failed(s, n) \subseteq 1..Len(s)  BY DEF Failed
<1>3. IsFiniteSet(Failed(s, n))  BY <1>1, <1>2, FS_Subset
<1>4. Failures(s, n) = Cardinality(Failed(s, n))  BY DEF Failures, Failed
<1>. QED  BY <1>3, <1>4, FS_CardinalityType

LEMMA FailuresOfAll ==
  ASSUME NEW s \in Seq(BOOLEAN), NEW n \in Nat
  PROVE  Failures(s, n) <= Failures(s, Len(s))
<1>1. Failed(s, n) \subseteq Failed(s, Len(s))  BY DEF Failed
<1>2. IsFiniteSet(Failed(s, Len(s)))  BY FailedFinite
<1>3. Cardinality(Failed(s, n)) <= Cardinality(Failed(s, Len(s)))  BY <1>1, <1>2, FS_Subset
<1>. QED  BY <1>3, FailedFinite

\* One more attempt.
LEMMA FailuresAppend ==
  ASSUME NEW s \in Seq(BOOLEAN), NEW b \in BOOLEAN, NEW n \in Nat
  PROVE  /\ Append(s, b) \in Seq(BOOLEAN)
         /\ b => Failures(Append(s, b), n) <= Failures(s, n)
         /\ ~b => Failures(Append(s, b), n) <= Failures(s, n) + 1
         /\ Failures(Append(s, b), Len(Append(s, b))) >= Failures(s, Len(s))
         /\ ~b => Failures(Append(s, b), Len(Append(s, b))) = Failures(s, Len(s)) + 1
<1> PICK t : t = Append(s, b)  OBVIOUS
<1> PICK last : last = Len(s) + 1  OBVIOUS
<1>1. /\ t \in Seq(BOOLEAN) /\ Len(t) = last /\ last \in Nat /\ Len(s) \in Nat /\ last = Len(s) + 1
      /\ \A i \in 1..Len(s) : t[i] = s[i]
      /\ t[last] = b
  OBVIOUS
<1>2. IsFiniteSet(Failed(s, n)) /\ IsFiniteSet(Failed(s, Len(s)))  BY FailedFinite
<1>3. last \notin Failed(s, n) /\ last \notin Failed(s, Len(s))  BY <1>1 DEF Failed
<1>4. /\ IsFiniteSet(Failed(s, n) \cup {last})
      /\ Cardinality(Failed(s, n) \cup {last}) = Failures(s, n) + 1
      /\ Cardinality(Failed(s, Len(s)) \cup {last}) = Failures(s, Len(s)) + 1
  <2>1. /\ IsFiniteSet(Failed(s, n) \cup {last})
        /\ Cardinality(Failed(s, n) \cup {last}) =
             IF last \in Failed(s, n) THEN Cardinality(Failed(s, n)) ELSE Cardinality(Failed(s, n)) + 1
    BY <1>2, FS_AddElement, Zenon
  <2>2. Cardinality(Failed(s, Len(s)) \cup {last}) =
          IF last \in Failed(s, Len(s)) THEN Cardinality(Failed(s, Len(s))) ELSE Cardinality(Failed(s, Len(s))) + 1
    BY <1>2, FS_AddElement, Zenon
  <2>. QED  BY <1>1, <1>3, <2>1, <2>2, FailedFinite
<1>5. Failed(t, n) \subseteq Failed(s, n) \cup {last} /\ (b => Failed(t, n) \subseteq Failed(s, n))
  BY <1>1 DEF Failed
<1>6. Failed(s, Len(s)) \subseteq Failed(t, Len(t)) /\ (~b => Failed(t, Len(t)) = Failed(s, Len(s)) \cup {last})
  BY <1>1 DEF Failed
<1>7. b => Cardinality(Failed(t, n)) <= Cardinality(Failed(s, n))
  BY <1>2, <1>5, FS_Subset
<1>8. Cardinality(Failed(t, n)) <= Cardinality(Failed(s, n) \cup {last})
  BY <1>4, <1>5, FS_Subset
<1>9. Cardinality(Failed(s, Len(s))) <= Cardinality(Failed(t, Len(t)))
  <2>1. IsFiniteSet(Failed(t, Len(t)))  BY <1>1, FailedFinite
  <2>. QED  BY <1>6, <2>1, FS_Subset
<1>10. /\ Failures(t, n) = Cardinality(Failed(t, n)) /\ Failures(t, Len(t)) = Cardinality(Failed(t, Len(t)))
       /\ Failures(s, n) = Cardinality(Failed(s, n)) /\ Failures(s, Len(s)) = Cardinality(Failed(s, Len(s)))
       /\ Failures(t, n) \in Nat /\ Failures(t, Len(t)) \in Nat /\ Failures(s, n) \in Nat /\ Failures(s, Len(s)) \in Nat
  BY <1>1, FailedFinite
<1>11. ~b => Failures(t, Len(t)) = Failures(s, Len(s)) + 1  BY <1>4, <1>6, <1>10
<1>. QED  BY <1>1, <1>4, <1>7, <1>8, <1>9, <1>10, <1>11

-----------------------------------------------------------------------------
(* Credentials: what a step leaves alone.                                    *)

\* A later table: the tickets are still there, about the same address, with the same tries, and
\* only close.
Follows(new, old) ==
  /\ new \in Seq(Tickets) /\ Len(new) = Len(old)
  /\ \A i \in 1..Len(old) : /\ new[i].kind = old[i].kind /\ new[i].to = old[i].to /\ new[i].tries = old[i].tries
                            /\ new[i].open => old[i].open

\* No ticket, mail or failure goes away.
Kept ==
  /\ account.exists => account'.exists
  /\ Len(ticket) <= Len(ticket')
  /\ \A i \in TicketRows : ticket'[i].kind = ticket[i].kind /\ ticket'[i].to = ticket[i].to
  /\ mailed \subseteq mailed'
  /\ Failures(attempts, Len(attempts)) <= Failures(attempts', Len(attempts'))

\* No other request changes.
Others(c) == \A d \in Clients \ {c} : client'[d] = client[d]

\* c goes on, or it starts.
Turn(c) == (client[c].pc # "idle" /\ UNCHANGED excused) \/ Joins(c)

\* The tickets of both tables have the same tries and wrong answers; a new one has none.
TriesStay ==
  /\ \A i \in TicketRows : /\ ticket'[i].kind = ticket[i].kind /\ ticket'[i].tries = ticket[i].tries
                           /\ wrong'[i] = wrong[i]
                           /\ ticket'[i].open => ticket[i].open
  /\ \A i \in TicketRows' \ TicketRows : ticket'[i].tries = 0 /\ wrong'[i] = 0

LEMMA CallIs ==
  ASSUME CredentialsTypeOK, NEW c \in Clients
  PROVE  /\ client[c].pc \in {"attach", "send", "create"} => client[c] \in MailCalls
         /\ client[c].pc \in {"verify", "reset", "change", "activate", "useReset"} => client[c] \in CodeCalls
         /\ client[c].pc \in {"try", "count"} => client[c] \in LoginCalls
         /\ client[c].pc = "idle" <=> client[c] = NotBusy
<1>1. client[c] \in AnyCall  BY DEF CredentialsTypeOK
<1>. QED  BY <1>1 DEF AnyCall, MailCalls, CodeCalls, LoginCalls, NotBusy

LEMMA CallSet ==
  ASSUME CredentialsTypeOK, NEW c \in Clients, NEW x \in AnyCall, client' = [client EXCEPT ![c] = x]
  PROVE  client' \in [Clients -> AnyCall] /\ client'[c] = x /\ Others(c)
BY DEF CredentialsTypeOK, Others

LEMMA ReplySet ==
  ASSUME CredentialsTypeOK, NEW c \in Clients, Replied(c)
  PROVE  client' \in [Clients -> AnyCall] /\ client'[c] = NotBusy /\ Others(c)
BY DEF CredentialsTypeOK, Others, Replied, AnyCall

LEMMA PcSet ==
  ASSUME CredentialsTypeOK, NEW c \in Clients, NEW p, client' = [client EXCEPT ![c].pc = p],
         [client[c] EXCEPT !.pc = p] \in AnyCall
  PROVE  client' \in [Clients -> AnyCall] /\ client'[c] = [client[c] EXCEPT !.pc = p] /\ Others(c)
BY DEF CredentialsTypeOK, Others

LEMMA ClientStays ==
  ASSUME CredentialsTypeOK, CredentialsTypeOK', Kept, NEW c \in Clients, client'[c] = client[c], ClientOK(c)
  PROVE  ClientOK(c)'
<1>1. client[c] \in AnyCall  BY DEF CredentialsTypeOK
<1>2. Len(ticket) \in Nat /\ Len(ticket') \in Nat  BY DEF CredentialsTypeOK
<1>3. \A i \in TicketRows : i \in TicketRows'  BY <1>2 DEF Kept, TicketRows
<1>4. client[c].pc \in {"verify", "change", "activate", "reset", "useReset"} => client[c].i \in TicketRows  BY DEF ClientOK
<1>5. /\ Failures(attempts, Len(attempts)) \in Nat
      /\ Failures(attempts', Len(attempts')) \in Nat
  BY FailedFinite DEF CredentialsTypeOK
<1>6. client[c].pc \in {"try", "count"} => client[c].failed \in Nat  BY CallIs DEF LoginCalls
<1>7. client'[c].pc \in {"verify", "change", "activate"} /\ client'[c].box # NoEmail =>
        \E v \in {0, 1} : <<client'[c].i, v, client'[c].box>> \in mailed'
  BY DEF ClientOK, Kept
<1>8. /\ client'[c].pc = "try" => client'[c].failed <= Failures(attempts', Len(attempts')) + 1
      /\ client'[c].pc = "count" => client'[c].failed <= Failures(attempts', Len(attempts'))
  BY <1>5, <1>6 DEF ClientOK, Kept
<1>. QED  BY <1>3, <1>4, <1>7, <1>8 DEF ClientOK, Kept

LEMMA ClientsStay ==
  ASSUME CredentialsInv, CredentialsTypeOK', Kept, NEW c \in Clients, Others(c), ClientOK(c)'
  PROVE  \A d \in Clients : ClientOK(d)'
<1>1. ASSUME NEW d \in Clients, d # c PROVE ClientOK(d)'
  BY <1>1, ClientStays DEF Others, CredentialsInv
<1>. QED  BY <1>1, Zenon

LEMMA QuietStays ==
  ASSUME CredentialsInv, NEW c \in Clients, Others(c), Turn(c),
         Quiet /\ (\A d \in Clients \ {c} : client[d].pc = "idle")
           => ClientKnows(c)' /\ AddressKnown' /\ TriesKnown'
  PROVE  excused' \/ Quiet'
<1> SUFFICES ASSUME ~excused' PROVE Quiet'
  OBVIOUS
<1>1. Quiet  BY DEF CredentialsInv, Turn, Joins
<1>2. \A d \in Clients \ {c} : client[d].pc = "idle"
  <2>1. CASE client[c].pc # "idle"
    BY <1>1, <2>1 DEF Quiet, Alone
  <2>2. CASE Joins(c)
    <3>1. ~Occupied  BY <2>2, Zenon DEF Joins
    <3>. QED  BY <3>1 DEF Occupied, NotBusy
  <2>. QED  BY <2>1, <2>2 DEF Turn
<1>3. ClientKnows(c)' /\ AddressKnown' /\ TriesKnown'  BY <1>1, <1>2
<1>4. \A d \in Clients \ {c} : client'[d].pc = "idle"  BY <1>2 DEF Others
<1>5. \A d \in Clients \ {c} : ClientKnows(d)'  BY <1>4 DEF ClientKnows
<1>6. Alone'  BY <1>4 DEF Alone
<1>. QED  BY <1>3, <1>5, <1>6, Zenon DEF Quiet

LEMMA TriesKnownStays ==
  ASSUME CredentialsTypeOK, TriesKnown, TriesStay
  PROVE  TriesKnown'
<1>1. ASSUME NEW i \in TicketRows, ticket'[i].kind # "reset"
      PROVE  wrong'[i] = ticket'[i].tries /\ wrong'[i] <= MaxTries /\ (ticket'[i].open => wrong'[i] < MaxTries)
  <2>1. /\ ticket'[i].kind = ticket[i].kind /\ ticket'[i].tries = ticket[i].tries /\ wrong'[i] = wrong[i]
        /\ ticket'[i].open => ticket[i].open
    BY Zenon DEF TriesStay
  <2>2. ticket[i].kind # "reset"  BY <1>1, <2>1
  <2>3. wrong[i] = ticket[i].tries /\ wrong[i] <= MaxTries  BY <2>2, Zenon DEF TriesKnown
  <2>4. ticket[i].open => wrong[i] < MaxTries  BY <2>2, Zenon DEF TriesKnown
  <2>5. ticket'[i].open => wrong[i] < MaxTries  BY <2>1, <2>4, Zenon
  <2>6. wrong'[i] = wrong[i]  BY <2>1, Zenon
  <2>7. ticket'[i].open => wrong'[i] < MaxTries  BY <2>5, <2>6, Zenon
  <2>8. wrong'[i] = ticket'[i].tries /\ wrong'[i] <= MaxTries  BY <2>1, <2>3
  <2>. QED  BY <2>7, <2>8, Zenon
<1>2. ASSUME NEW i \in TicketRows', i \notin TicketRows
      PROVE  wrong'[i] = ticket'[i].tries /\ wrong'[i] <= MaxTries /\ (ticket'[i].open => wrong'[i] < MaxTries)
  <2>1. wrong'[i] = 0 /\ ticket'[i].tries = 0  BY <1>2 DEF TriesStay
  <2>. QED  BY <2>1, LimitsAssumption
<1>. QED  BY <1>1, <1>2 DEF TriesKnown

LEMMA LockoutStays ==
  ASSUME LockoutIsExact, UNCHANGED attempts, account'.status = account.status,
         excused => excused', reopened => reopened',
         \A d \in Clients : client[d].pc = "count" => client'[d].pc = "count"
  PROVE  LockoutIsExact'
BY DEF LockoutIsExact

-----------------------------------------------------------------------------
(* Credentials: changes of the table of tickets.                             *)

LEMMA RowFollows ==
  ASSUME NEW rows \in Seq(Tickets), NEW i \in 1..Len(rows), NEW t \in Tickets,
         t.kind = rows[i].kind, t.to = rows[i].to, t.tries = rows[i].tries, t.open => rows[i].open,
         NEW new, new = [rows EXCEPT ![i] = t]
  PROVE  Follows(new, rows)
<1>1. /\ new \in Seq(Tickets) /\ Len(new) = Len(rows) /\ new[i] = t
      /\ \A j \in 1..Len(rows) : j # i => new[j] = rows[j]
  OBVIOUS
<1>2. ASSUME NEW j \in 1..Len(rows)
      PROVE  /\ new[j].kind = rows[j].kind /\ new[j].to = rows[j].to /\ new[j].tries = rows[j].tries
             /\ new[j].open => rows[j].open
  <2>1. CASE j = i  BY <1>1, <2>1, Zenon
  <2>2. CASE j # i  BY <1>1, <2>2, Zenon
  <2>. QED  BY <2>1, <2>2
<1>. QED  BY <1>1, <1>2 DEF Follows

LEMMA ClosedFollows ==
  ASSUME NEW rows \in Seq(Tickets), NEW i \in 1..Len(rows)
  PROVE  Follows(Closed(rows, i), rows)
<1>1. PICK t : t = [rows[i] EXCEPT !.open = FALSE]  OBVIOUS
<1>2. rows[i] \in Tickets  OBVIOUS
<1>3. t \in Tickets /\ t.kind = rows[i].kind /\ t.to = rows[i].to /\ t.tries = rows[i].tries /\ t.open = FALSE
  BY <1>1, <1>2 DEF Tickets
<1>4. Closed(rows, i) = [rows EXCEPT ![i] = t]  BY <1>1 DEF Closed
<1>. QED  BY <1>3, <1>4, RowFollows

LEMMA ChangesClosed ==
  ASSUME ticket \in Seq(Tickets), NEW rows,
         rows = [i \in 1..Len(ticket) |->
                  IF ticket[i].kind = "change" THEN [ticket[i] EXCEPT !.open = FALSE] ELSE ticket[i]]
  PROVE  Follows(rows, ticket)
<1>1. ASSUME NEW j \in 1..Len(ticket)
      PROVE  /\ rows[j] \in Tickets
             /\ rows[j].kind = ticket[j].kind /\ rows[j].to = ticket[j].to /\ rows[j].tries = ticket[j].tries
             /\ rows[j].open => ticket[j].open
  <2>1. ticket[j] \in Tickets  OBVIOUS
  <2>2. rows[j] = IF ticket[j].kind = "change" THEN [ticket[j] EXCEPT !.open = FALSE] ELSE ticket[j]  OBVIOUS
  <2>3. CASE ticket[j].kind = "change"
    <3>1. PICK t : t = [ticket[j] EXCEPT !.open = FALSE]  OBVIOUS
    <3>2. t \in Tickets /\ t.kind = ticket[j].kind /\ t.to = ticket[j].to /\ t.tries = ticket[j].tries /\ t.open = FALSE
      BY <2>1, <3>1 DEF Tickets
    <3>3. rows[j] = t  BY <2>2, <2>3, <3>1
    <3>. QED  BY <3>2, <3>3
  <2>4. CASE ticket[j].kind # "change"
    <3>1. rows[j] = ticket[j]  BY <2>2, <2>4
    <3>. QED  BY <2>1, <3>1, Zenon
  <2>. QED  BY <2>3, <2>4
<1>2. rows \in Seq(Tickets) /\ Len(rows) = Len(ticket)
  <2>1. Len(ticket) \in Nat /\ DOMAIN rows = 1..Len(ticket)  OBVIOUS
  <2>2. rows \in [1..Len(ticket) -> Tickets]  BY <1>1
  <2>. QED  BY <2>1, <2>2
<1>. QED  BY <1>1, <1>2 DEF Follows

\* Tickets that stay, stay about the same address.
LEMMA FollowsStay ==
  ASSUME CredentialsTypeOK, Follows(ticket', ticket), UNCHANGED wrong
  PROVE  /\ ticket' \in Seq(Tickets) /\ Len(ticket') = Len(ticket) /\ TicketRows' = TicketRows
         /\ \A i \in TicketRows : ticket'[i].kind = ticket[i].kind /\ ticket'[i].to = ticket[i].to
         /\ TriesStay
<1>1. TicketRows' = TicketRows  BY DEF Follows, TicketRows
<1>2. \A i \in TicketRows : /\ ticket'[i].kind = ticket[i].kind /\ ticket'[i].to = ticket[i].to
                            /\ ticket'[i].tries = ticket[i].tries
                            /\ ticket'[i].open => ticket[i].open
  BY Zenon DEF Follows, TicketRows
<1>3. wrong' = wrong  OBVIOUS
<1>4. TriesStay  BY <1>1, <1>2, <1>3, Zenon DEF TriesStay
<1>5. \A i \in TicketRows : ticket'[i].kind = ticket[i].kind /\ ticket'[i].to = ticket[i].to  BY <1>2, Zenon
<1>. QED  BY <1>1, <1>4, <1>5, Zenon DEF Follows

LEMMA TicketAdded ==
  ASSUME CredentialsTypeOK, NEW rows, Follows(rows, ticket), NEW kind \in {"verify", "reset", "change"},
         NEW to \in Emails, ticket' = AddTicket(rows, kind, to), wrong' = Append(wrong, 0)
  PROVE  /\ ticket' \in Seq(Tickets) /\ Len(ticket') = Len(ticket) + 1
         /\ wrong' \in Seq(Nat) /\ Len(wrong') = Len(ticket')
         /\ \A i \in TicketRows : ticket'[i].kind = ticket[i].kind /\ ticket'[i].to = ticket[i].to
         /\ TicketRows \subseteq TicketRows' /\ Len(ticket') \in TicketRows'
         /\ ticket'[Len(ticket')].kind = kind /\ ticket'[Len(ticket')].to = to
         /\ TriesStay
<1>1. PICK n : n = Len(ticket)  OBVIOUS
<1>2. PICK t : t = NewTicket(kind, to)  OBVIOUS
<1>3. t \in Tickets /\ t.kind = kind /\ t.to = to /\ t.tries = 0  BY <1>2 DEF NewTicket, Tickets
<1>4. ticket' = Append(rows, t)  BY <1>2 DEF AddTicket
<1>5. n \in Nat /\ Len(rows) = n /\ rows \in Seq(Tickets) /\ wrong \in Seq(Nat) /\ Len(wrong) = n
  BY <1>1 DEF CredentialsTypeOK, Follows
<1>6. /\ ticket' \in Seq(Tickets) /\ Len(ticket') = n + 1 /\ ticket'[n + 1] = t
      /\ \A i \in 1..n : ticket'[i] = rows[i]
  BY <1>3, <1>4, <1>5
<1>7. wrong' \in Seq(Nat) /\ Len(wrong') = n + 1 /\ wrong'[n + 1] = 0 /\ \A i \in 1..n : wrong'[i] = wrong[i]
  BY <1>5
<1>8. TicketRows = 1..n /\ TicketRows' = 1..(n + 1)  BY <1>1, <1>6 DEF TicketRows
<1>9. TicketRows \subseteq TicketRows' /\ n + 1 \in TicketRows' /\ \A i \in TicketRows' \ TicketRows : i = n + 1
  BY <1>5, <1>8
<1>10. ASSUME NEW i \in TicketRows
       PROVE  /\ ticket'[i].kind = ticket[i].kind /\ ticket'[i].to = ticket[i].to /\ ticket'[i].tries = ticket[i].tries
              /\ wrong'[i] = wrong[i]
              /\ ticket'[i].open => ticket[i].open
  <2>1. i \in 1..Len(ticket)  BY <1>1, <1>8
  <2>2. /\ rows[i].kind = ticket[i].kind /\ rows[i].to = ticket[i].to /\ rows[i].tries = ticket[i].tries
        /\ rows[i].open => ticket[i].open
    BY <2>1, Zenon DEF Follows
  <2>3. ticket'[i] = rows[i] /\ wrong'[i] = wrong[i]  BY <1>6, <1>7, <1>8, Zenon
  <2>4. /\ ticket'[i].kind = ticket[i].kind /\ ticket'[i].to = ticket[i].to /\ ticket'[i].tries = ticket[i].tries
    BY <2>2, <2>3
  <2>5. ticket'[i].open => ticket[i].open  BY <2>2, <2>3, Zenon
  <2>. QED  BY <2>3, <2>4, <2>5, Zenon
<1>11. TriesStay
  <2>1. \A i \in TicketRows' \ TicketRows : ticket'[i].tries = 0 /\ wrong'[i] = 0  BY <1>3, <1>6, <1>7, <1>9
  <2>. QED  BY <1>10, <2>1, Zenon DEF TriesStay
<1>12. Len(ticket') = Len(ticket) + 1 /\ Len(wrong') = Len(ticket') /\ Len(ticket') \in TicketRows'
  BY <1>1, <1>6, <1>7, <1>9
<1>13. ticket'[Len(ticket')].kind = kind /\ ticket'[Len(ticket')].to = to  BY <1>3, <1>6
<1>. QED  BY <1>6, <1>7, <1>9, <1>10, <1>11, <1>12, <1>13, Zenon

LEMMA MailSent ==
  ASSUME CredentialsTypeOK, NEW i \in Nat, i \in TicketRows', TicketRows \subseteq TicketRows', NEW version \in {0, 1}, NEW to \in Emails,
         Mail(i, version, to)
  PROVE  /\ mailed \subseteq mailed'
         /\ mailed' \subseteq Nat \X {0, 1} \X Emails /\ \A m \in mailed' : m[1] \in TicketRows'
         /\ \A m \in mailed' : m \in mailed \/ (m[1] = i /\ m[3] = to)
<1>1. mailed' = mailed \/ mailed' = mailed \cup {<<i, version, to>>}  BY Zenon DEF Mail
<1>2. \A m \in mailed : m[1] \in TicketRows'  BY DEF CredentialsTypeOK
<1>3. mailed \subseteq Nat \X {0, 1} \X Emails  BY DEF CredentialsTypeOK
<1>4. \A m \in mailed' : m \in mailed \/ m = <<i, version, to>>  BY <1>1
<1>5. \A m \in mailed' : m \in mailed \/ (m[1] = i /\ m[3] = to)  BY <1>4
<1>6. \A m \in mailed' : m[1] \in TicketRows'  BY <1>2, <1>5
<1>7. mailed' \subseteq Nat \X {0, 1} \X Emails  BY <1>3, <1>4
<1>. QED  BY <1>1, <1>5, <1>6, <1>7

LEMMA ChangesStay ==
  ASSUME CredentialsTypeOK, ChangesMailed,
         \A i \in TicketRows : ticket'[i].kind = ticket[i].kind /\ ticket'[i].to = ticket[i].to,
         \A m \in mailed' : m \in mailed \/ (ticket'[m[1]].kind = "change" => m[3] = ticket'[m[1]].to)
  PROVE  ChangesMailed'
<1>1. ASSUME NEW m \in mailed', ticket'[m[1]].kind = "change" PROVE m[3] = ticket'[m[1]].to
  <2>1. CASE m \in mailed
    <3>1. m[1] \in TicketRows  BY <2>1 DEF CredentialsTypeOK
    <3>. QED  BY <1>1, <2>1, <3>1 DEF ChangesMailed
  <2>2. CASE m \notin mailed  BY <1>1, <2>2
  <2>. QED  BY <2>1, <2>2
<1>. QED  BY <1>1 DEF ChangesMailed

LEMMA AddressStays ==
  ASSUME CredentialsTypeOK, AddressKnown, account'.email = account.email, account'.active = account.active,
         UNCHANGED proved, \A i \in TicketRows : ticket'[i].kind = ticket[i].kind,
         \A m \in mailed' : m \in mailed \/ (ticket'[m[1]].kind = "verify" => m[3] = account.email)
  PROVE  AddressKnown'
<1>1. CASE account.email \in proved  BY <1>1 DEF AddressKnown
<1>2. CASE /\ account.email = NoEmail \/ ~account.active
           /\ \A m \in mailed : ticket[m[1]].kind = "verify" => m[3] = account.email
  <2>1. ASSUME NEW m \in mailed', ticket'[m[1]].kind = "verify" PROVE m[3] = account.email
    <3>1. CASE m \in mailed
      <4>1. m[1] \in TicketRows  BY <3>1 DEF CredentialsTypeOK
      <4>. QED  BY <1>2, <2>1, <3>1, <4>1
    <3>2. CASE m \notin mailed  BY <2>1, <3>2
    <3>. QED  BY <3>1, <3>2
  <2>2. account'.email = NoEmail \/ ~account'.active  BY <1>2
  <2>3. \A m \in mailed' : ticket'[m[1]].kind = "verify" => m[3] = account'.email  BY <2>1
  <2>. QED  BY <2>2, <2>3 DEF AddressKnown
<1>. QED  BY <1>1, <1>2 DEF AddressKnown

\* Nothing is proved and no code was mailed for an account without an address.
LEMMA NothingMailed ==
  ASSUME CredentialsTypeOK, AddressKnown, account.email = NoEmail
  PROVE  \A m \in mailed : ticket[m[1]].kind # "verify"
<1>1. account.email \notin proved  BY NoEmailAssumption DEF CredentialsTypeOK
<1>2. \A m \in mailed : m[3] \in Emails  BY DEF CredentialsTypeOK
<1>. QED  BY <1>1, <1>2, NoEmailAssumption DEF AddressKnown

\* The tables are as they were.
LEMMA TableStays ==
  ASSUME CredentialsTypeOK, UNCHANGED <<ticket, wrong>>
  PROVE  TriesStay /\ TicketRows' = TicketRows
BY DEF TriesStay, TicketRows

LEMMA CredentialsInitHolds == CredentialsInit => CredentialsInv
<1> SUFFICES ASSUME CredentialsInit PROVE CredentialsInv
  OBVIOUS
<1> USE DEF CredentialsInit
<1>1. client \in [Clients -> AnyCall] /\ \A c \in Clients : client[c].pc = "idle"
  BY DEF AnyCall, NotBusy
<1>2. CredentialsTypeOK
  <2>1. account \in Accounts
    <3>1. CASE account = [exists |-> FALSE, email |-> NoEmail, active |-> FALSE, status |-> "PENDING"]
      BY <3>1 DEF Accounts
    <3>2. CASE account = [exists |-> TRUE, email |-> NoEmail, active |-> TRUE, status |-> "ACTIVE"]
      BY <3>2 DEF Accounts
    <3>. QED  BY <3>1, <3>2
  <2>2. /\ ticket \in Seq(Tickets) /\ wrong \in Seq(Nat) /\ Len(wrong) = Len(ticket)
        /\ attempts \in Seq(BOOLEAN)
    OBVIOUS
  <2>3. mailed = {} /\ proved = {} /\ excused = FALSE /\ reopened = FALSE  OBVIOUS
  <2>. QED  BY <1>1, <2>1, <2>2, <2>3 DEF CredentialsTypeOK
<1>3. \A c \in Clients : ClientOK(c)  BY <1>1 DEF ClientOK
<1>4. ChangesMailed /\ NotYet  BY DEF ChangesMailed, NotYet
<1>5. Quiet
  <2>1. Alone /\ \A c \in Clients : ClientKnows(c)  BY <1>1 DEF Alone, ClientKnows
  <2>2. AddressKnown  BY DEF AddressKnown
  <2>3. TriesKnown  BY DEF TriesKnown, TicketRows
  <2>. QED  BY <2>1, <2>2, <2>3 DEF Quiet
<1>6. LockoutIsExact
  <2>1. account.status # "BLOCKED"  OBVIOUS
  <2>2. Failures(attempts, Window) = 0
    <3>1. Failed(attempts, Window) = {} /\ attempts \in Seq(BOOLEAN)  BY DEF Failed
    <3>2. Failures(attempts, Window) = Cardinality(Failed(attempts, Window))  BY <3>1, FailedFinite
    <3>3. Cardinality({}) = 0  BY FS_EmptySet
    <3>. QED  BY <3>1, <3>2, <3>3, Zenon
  <2>. QED  BY <2>1, <2>2, LimitsAssumption DEF LockoutIsExact
<1>. QED  BY <1>2, <1>3, <1>4, <1>5, <1>6 DEF CredentialsInv

-----------------------------------------------------------------------------
(* Credentials: every action keeps the invariant.                            *)

LEMMA StepKeeps ==
  ASSUME CredentialsInv, NEW c \in Clients, Others(c), Turn(c), Kept,
         CredentialsTypeOK', ClientOK(c)', ChangesMailed', NotYet', LockoutIsExact',
         Quiet /\ (\A d \in Clients \ {c} : client[d].pc = "idle")
           => ClientKnows(c)' /\ AddressKnown' /\ TriesKnown'
  PROVE  CredentialsInv'
<1>1. \A d \in Clients : ClientOK(d)'  BY ClientsStay
<1>2. excused' \/ Quiet'  BY QuietStays
<1>. QED  BY <1>1, <1>2, Zenon DEF CredentialsInv

\* A step that neither writes a ticket, nor mails, nor records an attempt.
LEMMA RequestKeeps ==
  ASSUME CredentialsInv, NEW c \in Clients, Others(c), Turn(c), UNCHANGED <<ticket, mailed, attempts, wrong>>,
         client' \in [Clients -> AnyCall], account' \in Accounts, account.exists => account'.exists,
         proved' \subseteq Emails, reopened' \in BOOLEAN, ClientOK(c)', NotYet', LockoutIsExact',
         Quiet /\ (\A d \in Clients \ {c} : client[d].pc = "idle") => ClientKnows(c)' /\ AddressKnown'
  PROVE  CredentialsInv'
<1>1. CredentialsTypeOK /\ ChangesMailed  BY DEF CredentialsInv
<1>2. excused' \in BOOLEAN
  <2>1. excused \in BOOLEAN  BY <1>1 DEF CredentialsTypeOK
  <2>2. CASE client[c].pc # "idle" /\ UNCHANGED excused  BY <2>1, <2>2
  <2>3. CASE Joins(c)  BY <2>1, <2>3 DEF Joins
  <2>. QED  BY <2>2, <2>3 DEF Turn
<1>3. CredentialsTypeOK'  BY <1>1, <1>2 DEF CredentialsTypeOK, TicketRows
<1>4. Kept
  <2>1. Failures(attempts, Len(attempts)) \in Nat  BY <1>1, FailedFinite DEF CredentialsTypeOK
  <2>. QED  BY <1>1, <2>1 DEF Kept, CredentialsTypeOK, TicketRows
<1>5. ChangesMailed'  BY <1>1 DEF ChangesMailed
<1>6. TriesKnown => TriesKnown'  BY <1>1, TableStays, TriesKnownStays
<1>. QED  BY <1>3, <1>4, <1>5, <1>6, StepKeeps DEF Quiet

\* A request begins or goes on.
LEMMA Began ==
  ASSUME CredentialsTypeOK, NEW c \in Clients, NEW x \in AnyCall, Receive(c, x), Joins(c)
  PROVE  /\ client' \in [Clients -> AnyCall] /\ client'[c] = x /\ Others(c) /\ Turn(c)
         /\ \A d \in Clients : client[d].pc = "count" => client'[d].pc = "count"
         /\ excused => excused'
<1>1. client' \in [Clients -> AnyCall] /\ client'[c] = x /\ Others(c)  BY CallSet DEF Receive
<1>2. client[c].pc = "idle"  BY DEF Receive, NotBusy
<1>3. \A d \in Clients : client[d].pc = "count" => client'[d].pc = "count"  BY <1>1, <1>2 DEF Others
<1>4. excused => excused'  BY Zenon DEF Joins
<1>. QED  BY <1>1, <1>3, <1>4, Zenon DEF Turn

LEMMA RegisterKeeps ==
  ASSUME CredentialsInv, NEW c \in Clients, NEW e \in Emails, Register(c, e)
  PROVE  CredentialsInv'
<1> USE DEF Register
<1>1. CredentialsTypeOK /\ LockoutIsExact /\ NotYet  BY DEF CredentialsInv
<1>2. PICK x : x = [pc |-> "send", to |-> e]  OBVIOUS
<1>3. x \in AnyCall /\ Receive(c, x)  BY <1>2 DEF AnyCall, MailCalls
<1>4. /\ account'.exists /\ account'.email = e /\ account'.status = account.status /\ ~account'.active
      /\ account' \in Accounts
      /\ account.exists => UNCHANGED account
  <2>1. CASE ~account.exists
    <3>1. account' = [exists |-> TRUE, email |-> e, active |-> FALSE, status |-> "PENDING"]  BY <2>1
    <3>2. account.status = "PENDING"  BY <1>1, <2>1 DEF NotYet
    <3>. QED  BY <2>1, <3>1, <3>2 DEF Accounts
  <2>2. CASE account.exists
    <3>1. account.email = e /\ ~account.active /\ UNCHANGED account  BY <2>2
    <3>. QED  BY <1>1, <2>2, <3>1 DEF CredentialsTypeOK
  <2>. QED  BY <2>1, <2>2
<1>5. ClientOK(c)'  BY <1>1, <1>2, <1>3, <1>4, Began DEF ClientOK
<1>6. ASSUME Quiet PROVE ClientKnows(c)' /\ AddressKnown'
  <2>1. ClientKnows(c)'  BY <1>1, <1>2, <1>3, <1>4, Began DEF ClientKnows
  <2>2. CASE account.exists  BY <1>4, <1>6, <2>1, <2>2 DEF Quiet, AddressKnown
  <2>3. CASE ~account.exists
    <3>1. account.email = NoEmail  BY <1>1, <2>3 DEF NotYet
    <3>. QED  BY <1>1, <1>4, <1>6, <2>1, <3>1, NothingMailed DEF Quiet, AddressKnown
  <2>. QED  BY <2>2, <2>3
<1>7. LockoutIsExact'  BY <1>1, <1>3, <1>4, Began, LockoutStays
<1>8. NotYet'  BY <1>4 DEF NotYet
<1>. QED  BY <1>1, <1>3, <1>4, <1>5, <1>6, <1>7, <1>8, Began, RequestKeeps DEF CredentialsTypeOK

LEMMA ResendKeeps ==
  ASSUME CredentialsInv, NEW c \in Clients, Resend(c)
  PROVE  CredentialsInv'
<1> USE DEF Resend
<1>1. CredentialsTypeOK /\ LockoutIsExact /\ NotYet  BY DEF CredentialsInv
<1>2. PICK x : x = [pc |-> "send", to |-> account.email]  OBVIOUS
<1>3. account.email \in Emails  BY <1>1 DEF CredentialsTypeOK, Accounts
<1>4. x \in AnyCall /\ Receive(c, x)  BY <1>2, <1>3 DEF AnyCall, MailCalls
<1>5. ClientOK(c)'  BY <1>1, <1>2, <1>4, Began DEF ClientOK
<1>6. ASSUME Quiet PROVE ClientKnows(c)' /\ AddressKnown'
  BY <1>1, <1>2, <1>4, <1>6, Began DEF ClientKnows, Quiet, AddressKnown
<1>7. LockoutIsExact'  BY <1>1, <1>4, Began, LockoutStays
<1>8. NotYet'  BY <1>1 DEF NotYet
<1>. QED  BY <1>1, <1>4, <1>5, <1>6, <1>7, <1>8, Began, RequestKeeps DEF CredentialsTypeOK

LEMMA ReadCredentialsKeeps ==
  ASSUME CredentialsInv, NEW c \in Clients, NEW e \in Emails, ReadCredentials(c, e)
  PROVE  CredentialsInv'
<1> USE DEF ReadCredentials
<1>1. CredentialsTypeOK /\ LockoutIsExact /\ NotYet  BY DEF CredentialsInv
<1>2. PICK x : x = [pc |-> "attach", to |-> e]  OBVIOUS
<1>3. x \in AnyCall /\ Receive(c, x)  BY <1>2 DEF AnyCall, MailCalls
<1>4. ClientOK(c)'  BY <1>1, <1>2, <1>3, Began DEF ClientOK
<1>5. ASSUME Quiet PROVE ClientKnows(c)' /\ AddressKnown'
  BY <1>1, <1>2, <1>3, <1>5, Began DEF ClientKnows, Quiet, AddressKnown
<1>6. LockoutIsExact'  BY <1>1, <1>3, Began, LockoutStays
<1>7. NotYet'  BY <1>1 DEF NotYet
<1>. QED  BY <1>1, <1>3, <1>4, <1>5, <1>6, <1>7, Began, RequestKeeps DEF CredentialsTypeOK

LEMMA EnterCodeKeeps ==
  ASSUME CredentialsInv, NEW c \in Clients, NEW i \in TicketRows, NEW box \in Emails \cup {NoEmail}, EnterCode(c, i, box)
  PROVE  CredentialsInv'
<1> USE DEF EnterCode
<1>1. CredentialsTypeOK /\ LockoutIsExact /\ NotYet  BY DEF CredentialsInv
<1>2. PICK t : t = ticket[i]  OBVIOUS
<1>3. PICK x : x = [pc |-> t.kind, i |-> i, box |-> box, row |-> t]  OBVIOUS
<1>4. t \in Tickets /\ i \in Nat  BY <1>1, <1>2 DEF CredentialsTypeOK, TicketRows
<1>5. /\ t.kind \in {"verify", "reset", "change"} /\ t.version \in {0, 1} /\ t.to \in Emails
      /\ t.open \in BOOLEAN /\ t.tries \in Nat
  BY <1>4 DEF Tickets
<1>6. x \in CodeCalls  BY <1>3, <1>4, <1>5 DEF CodeCalls
<1>7. x \in AnyCall /\ Receive(c, x)  BY <1>2, <1>3, <1>6 DEF AnyCall
<1>8. x.pc = t.kind /\ x.i = i /\ x.box = box /\ x.row = t  BY <1>3
<1>9. t.open
  <2>1. i # 0  BY <1>1 DEF TicketRows, CredentialsTypeOK
  <2>2. CASE i = Newest("verify") \/ i = Newest("reset")
    BY <1>1, <1>2, <2>1, <2>2, NewestIs DEF CredentialsTypeOK
  <2>3. CASE ChangeRow(i)  BY <1>2, <2>3 DEF ChangeRow
  <2>. QED  BY <2>2, <2>3 DEF VerifyRow, ResetRow
<1>10. client'[c] = x  BY <1>1, <1>7, Began
<1>11. ClientOK(c)'
  <2>1. ticket' = ticket /\ mailed' = mailed /\ TicketRows' = TicketRows /\ account'.exists  BY DEF TicketRows
  <2>2. box # NoEmail => <<i, t.version, box>> \in mailed  BY <1>2
  <2>3. box # NoEmail => \E v \in {0, 1} : <<i, v, box>> \in mailed  BY <1>5, <2>2
  <2>. QED  BY <1>2, <1>5, <1>8, <1>10, <2>1, <2>3 DEF ClientOK
<1>12. ASSUME Quiet PROVE ClientKnows(c)' /\ AddressKnown'
  <2>1. t.kind # "reset" => t.tries < MaxTries
    BY <1>2, <1>9, <1>12 DEF Quiet, TriesKnown
  <2>2. ClientKnows(c)'  BY <1>2, <1>5, <1>8, <1>10, <2>1 DEF ClientKnows
  <2>. QED  BY <1>12, <2>2 DEF Quiet, AddressKnown
<1>13. LockoutIsExact'  BY <1>1, <1>7, Began, LockoutStays
<1>14. NotYet'  BY <1>1 DEF NotYet
<1>. QED  BY <1>1, <1>7, <1>11, <1>12, <1>13, <1>14, Began, RequestKeeps DEF CredentialsTypeOK

LEMMA LoginKeeps ==
  ASSUME CredentialsInv, NEW c \in Clients, NEW right \in BOOLEAN, Login(c, right)
  PROVE  CredentialsInv'
<1> USE DEF Login
<1>1. CredentialsTypeOK /\ LockoutIsExact /\ NotYet  BY DEF CredentialsInv
<1>2. /\ Failures(attempts, Window) \in Nat /\ Failures(attempts, Len(attempts)) \in Nat
      /\ Failures(attempts, Window) <= Failures(attempts, Len(attempts))
  BY <1>1, FailedFinite, FailuresOfAll, LimitsAssumption DEF CredentialsTypeOK
<1>3. PICK n : n = Failures(attempts, Window) + 1  OBVIOUS
<1>4. PICK x : x = [pc |-> "try", right |-> right, failed |-> n]  OBVIOUS
<1>5. x \in AnyCall /\ Receive(c, x)  BY <1>2, <1>3, <1>4 DEF AnyCall, LoginCalls
<1>6. client'[c] = x  BY <1>1, <1>5, Began
<1>7. n <= Failures(attempts', Len(attempts')) + 1  BY <1>2, <1>3
<1>8. ClientOK(c)'  BY <1>4, <1>6, <1>7 DEF ClientOK
<1>9. ASSUME Quiet PROVE ClientKnows(c)' /\ AddressKnown'
  BY <1>3, <1>4, <1>6, <1>9 DEF ClientKnows, Quiet, AddressKnown
<1>10. LockoutIsExact'  BY <1>1, <1>5, Began, LockoutStays
<1>11. NotYet'  BY <1>1 DEF NotYet
<1>. QED  BY <1>1, <1>5, <1>8, <1>9, <1>10, <1>11, Began, RequestKeeps DEF CredentialsTypeOK

LEMMA Ended ==
  ASSUME CredentialsTypeOK, NEW c \in Clients, client[c].pc # "idle", Replied(c), UNCHANGED excused
  PROVE  /\ client' \in [Clients -> AnyCall] /\ client'[c] = NotBusy /\ Others(c) /\ Turn(c)
         /\ ClientOK(c)' /\ ClientKnows(c)'
<1>1. client' \in [Clients -> AnyCall] /\ client'[c] = NotBusy /\ Others(c)  BY ReplySet
<1>2. ClientOK(c)' /\ ClientKnows(c)'  BY <1>1 DEF ClientOK, ClientKnows, NotBusy
<1>. QED  BY <1>1, <1>2 DEF Turn

\* While requests do not overlap, nobody but c is busy.
LEMMA NoneElse ==
  ASSUME CredentialsInv, ~excused, NEW c \in Clients, client[c].pc # "idle"
  PROVE  \A d \in Clients \ {c} : client[d].pc = "idle"
BY DEF CredentialsInv, Quiet, Alone

LEMMA WriteCredentialsKeeps ==
  ASSUME CredentialsInv, NEW c \in Clients, WriteCredentials(c)
  PROVE  CredentialsInv'
<1> USE DEF WriteCredentials
<1>1. CredentialsTypeOK /\ LockoutIsExact /\ NotYet /\ ClientOK(c)  BY DEF CredentialsInv
<1>2. PICK e : e = client[c].to  OBVIOUS
<1>3. client[c] \in MailCalls /\ e \in Emails /\ account.exists
  BY <1>1, <1>2, CallIs DEF MailCalls, ClientOK
<1>4. CASE e \in taken
  <2>1. Replied(c) /\ UNCHANGED account /\ client[c].pc # "idle"  BY <1>2, <1>4
  <2>2. NotYet'  BY <1>1, <2>1 DEF NotYet
  <2>3. LockoutIsExact'
    <3>1. \A d \in Clients : client[d].pc = "count" => client'[d].pc = "count"
      BY <1>1, <2>1, Ended DEF Others
    <3>. QED  BY <1>1, <2>1, <3>1, LockoutStays
  <2>4. Quiet => AddressKnown'  BY <2>1 DEF Quiet, AddressKnown
  <2>. QED  BY <1>1, <2>1, <2>2, <2>3, <2>4, Ended, RequestKeeps DEF CredentialsTypeOK
<1>5. CASE e \notin taken
  <2>1. PICK x : x = [client[c] EXCEPT !.pc = "send"]  OBVIOUS
  <2>2. x \in MailCalls /\ x.pc = "send" /\ x.to = e  BY <1>2, <1>3, <2>1 DEF MailCalls
  <2>3. client' = [client EXCEPT ![c].pc = "send"]  BY <1>2, <1>5
  <2>4. client' \in [Clients -> AnyCall] /\ client'[c] = x /\ Others(c)
    BY <1>1, <2>1, <2>2, <2>3, PcSet DEF AnyCall
  <2>5. account' = [account EXCEPT !.email = e, !.active = FALSE]  BY <1>2, <1>5
  <2>6. /\ account' \in Accounts /\ account'.exists /\ account'.email = e /\ ~account'.active
        /\ account'.status = account.status
    BY <1>1, <1>3, <2>5 DEF CredentialsTypeOK, Accounts
  <2>7. ClientOK(c)'  BY <2>2, <2>4, <2>6 DEF ClientOK
  <2>8. ASSUME Quiet PROVE ClientKnows(c)' /\ AddressKnown'
    <3>1. ClientKnows(c)'  BY <2>2, <2>4, <2>6 DEF ClientKnows
    <3>2. account.email \in {NoEmail, e}  BY <1>2, <2>8 DEF Quiet, ClientKnows
    <3>3. CASE account.email = e  BY <2>6, <2>8, <3>1, <3>3 DEF Quiet, AddressKnown
    <3>4. CASE account.email = NoEmail
      BY <1>1, <2>6, <2>8, <3>1, <3>4, NothingMailed DEF Quiet, AddressKnown
    <3>. QED  BY <3>2, <3>3, <3>4
  <2>9. LockoutIsExact'
    <3>1. \A d \in Clients : client[d].pc = "count" => client'[d].pc = "count"  BY <2>4 DEF Others
    <3>. QED  BY <1>1, <2>6, <3>1, LockoutStays
  <2>10. NotYet' /\ Turn(c)  BY <2>6 DEF NotYet, Turn
  <2>. QED  BY <1>1, <2>4, <2>6, <2>7, <2>8, <2>9, <2>10, RequestKeeps DEF CredentialsTypeOK
<1>. QED  BY <1>4, <1>5

LEMMA ActivateKeeps ==
  ASSUME CredentialsInv, NEW c \in Clients, Activate(c)
  PROVE  CredentialsInv'
<1> USE DEF Activate, Entered
<1>1. CredentialsTypeOK /\ LockoutIsExact /\ NotYet /\ ClientOK(c)  BY DEF CredentialsInv
<1>2. client[c] \in CodeCalls /\ account.exists  BY <1>1, CallIs DEF ClientOK
<1>3. PICK box : box = client[c].box  OBVIOUS
<1>4. box \in Emails  BY <1>1, <1>2, <1>3 DEF CodeCalls, ClientOK
<1>5. client[c].pc # "idle"  OBVIOUS
<1>6. /\ account' \in Accounts /\ account'.exists /\ account'.email = account.email
      /\ account'.active /\ account'.status = "ACTIVE"
  BY <1>1, <1>2 DEF CredentialsTypeOK, Accounts
<1>7. proved' = proved \cup {box} /\ proved' \subseteq Emails  BY <1>1, <1>3, <1>4 DEF CredentialsTypeOK
<1>8. reopened' \in BOOLEAN /\ (reopened => reopened') /\ (account.status = "BLOCKED" => reopened')
  BY <1>1 DEF CredentialsTypeOK
<1>9. ASSUME Quiet PROVE AddressKnown'
  <2>1. CASE account.email \in proved  BY <1>6, <1>7, <2>1 DEF AddressKnown
  <2>2. CASE account.email \notin proved
    <3>1. PICK v \in {0, 1} : <<client[c].i, v, box>> \in mailed  BY <1>1, <1>3, <1>4, NoEmailAssumption DEF ClientOK
    <3>2. ticket[client[c].i].kind = "verify"  BY <1>1 DEF ClientOK
    <3>3. \A m \in mailed : ticket[m[1]].kind = "verify" => m[3] = account.email
      BY <1>9, <2>2 DEF Quiet, AddressKnown
    <3>4. box = account.email  BY <3>1, <3>2, <3>3
    <3>. QED  BY <1>6, <1>7, <3>4 DEF AddressKnown
  <2>. QED  BY <2>1, <2>2
<1>10. LockoutIsExact'
  <2>1. ASSUME ~excused, ~reopened', \A d \in Clients : client'[d].pc # "count"
        PROVE  Failures(attempts, Window) < MaxFailed
    <3>1. ~reopened /\ account.status # "BLOCKED"  BY <1>8, <2>1
    <3>2. \A d \in Clients : client[d].pc # "count"  BY <1>5, <2>1, NoneElse
    <3>. QED  BY <1>1, <2>1, <3>1, <3>2 DEF LockoutIsExact
  <2>. QED  BY <1>6, <2>1 DEF LockoutIsExact
<1>11. NotYet'  BY <1>6 DEF NotYet
<1>. QED  BY <1>1, <1>5, <1>6, <1>7, <1>8, <1>9, <1>10, <1>11, Ended, RequestKeeps

LEMMA ChangePasswordKeeps ==
  ASSUME CredentialsInv, NEW c \in Clients, ChangePassword(c)
  PROVE  CredentialsInv'
<1> USE DEF ChangePassword, RightAnswer, Entered
<1>1. CredentialsTypeOK /\ LockoutIsExact /\ NotYet /\ ClientOK(c)  BY DEF CredentialsInv
<1>2. client[c] \in CodeCalls /\ account.exists  BY <1>1, CallIs DEF ClientOK
<1>3. PICK x : x = [client[c] EXCEPT !.pc = "useReset"]  OBVIOUS
<1>4. x \in CodeCalls /\ x.pc = "useReset" /\ x.i = client[c].i  BY <1>2, <1>3 DEF CodeCalls
<1>5. client' \in [Clients -> AnyCall] /\ client'[c] = x /\ Others(c)  BY <1>1, <1>3, <1>4, PcSet DEF AnyCall
<1>6. ClientOK(c)'  BY <1>1, <1>2, <1>4, <1>5 DEF ClientOK, TicketRows
<1>7. Quiet => ClientKnows(c)' /\ AddressKnown'  BY <1>4, <1>5 DEF ClientKnows, Quiet, AddressKnown
<1>8. LockoutIsExact'
  <2>1. \A d \in Clients : client[d].pc = "count" => client'[d].pc = "count"  BY <1>5 DEF Others
  <2>. QED  BY <1>1, <2>1, LockoutStays
<1>9. NotYet' /\ Turn(c)  BY <1>1 DEF NotYet, Turn
<1>. QED  BY <1>1, <1>5, <1>6, <1>7, <1>8, <1>9, RequestKeeps DEF CredentialsTypeOK

LEMMA CountFailuresKeeps ==
  ASSUME CredentialsInv, NEW c \in Clients, CountFailures(c)
  PROVE  CredentialsInv'
<1> USE DEF CountFailures, Entered
<1>1. CredentialsTypeOK /\ LockoutIsExact /\ NotYet /\ ClientOK(c)  BY DEF CredentialsInv
<1>2. PICK n : n = client[c].failed  OBVIOUS
<1>3. n \in Nat /\ account.exists /\ client[c].pc # "idle"
  BY <1>1, <1>2, CallIs DEF ClientOK, LoginCalls
<1>4. Failures(attempts, Len(attempts)) \in Nat /\ Failures(attempts, Window) \in Nat
  BY <1>1, FailedFinite DEF CredentialsTypeOK
<1>5. account' = IF n >= MaxFailed THEN [account EXCEPT !.status = "BLOCKED"] ELSE account  BY <1>2
<1>6. /\ account' \in Accounts /\ account'.exists /\ account'.email = account.email
      /\ account'.active = account.active
      /\ n >= MaxFailed => account'.status = "BLOCKED"
      /\ n < MaxFailed => account' = account
  <2>1. CASE n >= MaxFailed
    <3>1. account' = [account EXCEPT !.status = "BLOCKED"]  BY <1>5, <2>1
    <3>2. /\ account' \in Accounts /\ account'.exists /\ account'.email = account.email
          /\ account'.active = account.active /\ account'.status = "BLOCKED"
      BY <1>1, <1>3, <3>1 DEF CredentialsTypeOK, Accounts
    <3>3. ~(n < MaxFailed)  BY <1>3, <2>1, LimitsAssumption
    <3>. QED  BY <3>2, <3>3
  <2>2. CASE ~(n >= MaxFailed)
    <3>1. account' = account  BY <1>5, <2>2
    <3>. QED  BY <1>1, <1>3, <2>2, <3>1 DEF CredentialsTypeOK
  <2>. QED  BY <2>1, <2>2
<1>7. Quiet => AddressKnown'  BY <1>6 DEF Quiet, AddressKnown
<1>8. LockoutIsExact'
  <2>1. ASSUME account'.status = "BLOCKED" PROVE Failures(attempts, Len(attempts)) >= MaxFailed
    <3>1. CASE n >= MaxFailed
      <4>1. n <= Failures(attempts, Len(attempts))  BY <1>1, <1>2 DEF ClientOK
      <4>. QED  BY <1>3, <1>4, <3>1, <4>1, LimitsAssumption
    <3>2. CASE n < MaxFailed  BY <1>1, <1>6, <2>1, <3>2 DEF LockoutIsExact
    <3>. QED  BY <1>3, <3>1, <3>2, LimitsAssumption
  <2>2. ASSUME ~excused, account'.status # "BLOCKED" PROVE Failures(attempts, Window) < MaxFailed
    <3>1. n >= Failures(attempts, Window)  BY <1>2, <2>2 DEF CredentialsInv, Quiet, ClientKnows
    <3>2. ~(n >= MaxFailed)  BY <1>6, <2>2
    <3>. QED  BY <1>3, <1>4, <3>1, <3>2, LimitsAssumption
  <2>. QED  BY <2>1, <2>2 DEF LockoutIsExact
<1>9. NotYet'  BY <1>6 DEF NotYet
<1>. QED  BY <1>1, <1>3, <1>6, <1>7, <1>8, <1>9, Ended, RequestKeeps DEF CredentialsTypeOK

LEMMA AbortKeeps ==
  ASSUME CredentialsInv, NEW c \in Clients, Abort(c)
  PROVE  CredentialsInv'
<1> USE DEF Abort
<1>1. CredentialsTypeOK /\ LockoutIsExact /\ NotYet  BY DEF CredentialsInv
<1>2. client[c].pc # "idle"  BY <1>1, CallIs
<1>3. reopened' \in BOOLEAN /\ (reopened => reopened') /\ (client[c].pc = "count" => reopened')
  BY <1>1 DEF CredentialsTypeOK
<1>4. Quiet => AddressKnown'  BY DEF Quiet, AddressKnown
<1>5. LockoutIsExact'
  <2>1. CASE client[c].pc = "count"  BY <1>1, <1>3, <2>1 DEF LockoutIsExact
  <2>2. CASE client[c].pc # "count"
    <3>1. \A d \in Clients : client[d].pc = "count" => client'[d].pc = "count"
      BY <1>1, <1>2, <2>2, Ended DEF Others
    <3>. QED  BY <1>1, <1>3, <3>1, LockoutStays
  <2>. QED  BY <2>1, <2>2
<1>6. NotYet'  BY <1>1 DEF NotYet
<1>. QED  BY <1>1, <1>2, <1>3, <1>4, <1>5, <1>6, Ended, RequestKeeps DEF CredentialsTypeOK

LEMMA RecordAttemptKeeps ==
  ASSUME CredentialsInv, NEW c \in Clients, RecordAttempt(c)
  PROVE  CredentialsInv'
<1> USE DEF RecordAttempt, Entered
<1>1. CredentialsTypeOK /\ LockoutIsExact /\ ChangesMailed /\ NotYet /\ ClientOK(c)  BY DEF CredentialsInv
<1>2. PICK b : b = client[c].right  OBVIOUS
<1>3. PICK n : n = client[c].failed  OBVIOUS
<1>4. client[c] \in LoginCalls /\ b \in BOOLEAN /\ n \in Nat /\ account.exists /\ client[c].pc # "idle"
  BY <1>1, <1>2, <1>3, CallIs DEF ClientOK, LoginCalls
<1>5. PICK of : of = Failures(attempts, Window)  OBVIOUS
<1>6. PICK all : all = Failures(attempts, Len(attempts))  OBVIOUS
<1>7. of \in Nat /\ all \in Nat /\ n <= all + 1
  BY <1>1, <1>3, <1>5, <1>6, FailedFinite DEF CredentialsTypeOK, ClientOK
<1>8. /\ attempts' \in Seq(BOOLEAN)
      /\ b => Failures(attempts', Window) <= of
      /\ ~b => Failures(attempts', Window) <= of + 1
      /\ Failures(attempts', Len(attempts')) >= all
      /\ ~b => Failures(attempts', Len(attempts')) = all + 1
  BY <1>1, <1>2, <1>4, <1>5, <1>6, FailuresAppend, LimitsAssumption DEF CredentialsTypeOK
<1>9. Failures(attempts', Window) \in Nat /\ Failures(attempts', Len(attempts')) \in Nat
  BY <1>8, FailedFinite
<1>10. Kept  BY <1>1, <1>6, <1>7, <1>8, <1>9 DEF Kept, CredentialsTypeOK, TicketRows
<1>11. ChangesMailed' /\ NotYet'  BY <1>1 DEF ChangesMailed, NotYet
<1>12. Quiet => AddressKnown' /\ TriesKnown'
  BY <1>1, TableStays, TriesKnownStays DEF Quiet, AddressKnown
<1>13. account.status = "BLOCKED" => Failures(attempts', Len(attempts')) >= MaxFailed
  <2>1. account.status = "BLOCKED" => all >= MaxFailed  BY <1>1, <1>6 DEF LockoutIsExact
  <2>. QED  BY <1>7, <1>8, <1>9, <2>1, LimitsAssumption
<1>14. CASE b
  <2>1. Replied(c)  BY <1>2, <1>14
  <2>2. CredentialsTypeOK'  BY <1>1, <1>4, <1>8, <2>1, Ended DEF CredentialsTypeOK, TicketRows
  <2>3. LockoutIsExact'
    <3>1. ASSUME ~excused, ~reopened, account.status # "BLOCKED" PROVE Failures(attempts', Window) < MaxFailed
      <4>1. \A d \in Clients : client[d].pc # "count"  BY <1>4, <3>1, NoneElse
      <4>2. of < MaxFailed  BY <1>1, <1>5, <3>1, <4>1 DEF LockoutIsExact
      <4>. QED  BY <1>7, <1>8, <1>9, <1>14, <4>2, LimitsAssumption
    <3>. QED  BY <1>13, <3>1 DEF LockoutIsExact
  <2>. QED  BY <1>1, <1>4, <1>10, <1>11, <1>12, <2>1, <2>2, <2>3, Ended, StepKeeps
<1>15. CASE ~b
  <2>1. PICK x : x = [client[c] EXCEPT !.pc = "count"]  OBVIOUS
  <2>2. x \in LoginCalls /\ x.pc = "count" /\ x.failed = n  BY <1>3, <1>4, <2>1 DEF LoginCalls
  <2>3. client' = [client EXCEPT ![c].pc = "count"]  BY <1>2, <1>15
  <2>4. client' \in [Clients -> AnyCall] /\ client'[c] = x /\ Others(c)
    BY <1>1, <2>1, <2>2, <2>3, PcSet DEF AnyCall
  <2>5. CredentialsTypeOK'  BY <1>1, <1>8, <2>4 DEF CredentialsTypeOK, TicketRows
  <2>6. n <= Failures(attempts', Len(attempts'))  BY <1>7, <1>8, <1>15
  <2>7. ClientOK(c)'  BY <1>4, <2>2, <2>4, <2>6 DEF ClientOK
  <2>8. ASSUME Quiet PROVE ClientKnows(c)'
    <3>1. n = of + 1  BY <1>3, <1>5, <2>8 DEF Quiet, ClientKnows
    <3>2. n >= Failures(attempts', Window)  BY <1>7, <1>8, <1>9, <1>15, <3>1
    <3>. QED  BY <2>2, <2>4, <3>2 DEF ClientKnows
  <2>9. LockoutIsExact'  BY <1>13, <2>2, <2>4 DEF LockoutIsExact
  <2>10. Turn(c)  BY <1>4 DEF Turn
  <2>. QED  BY <1>10, <1>11, <1>12, <2>4, <2>5, <2>7, <2>8, <2>9, <2>10, StepKeeps
<1>. QED  BY <1>4, <1>14, <1>15

\* A step that changes no more than the tickets and their mails, and mails no verification code.
LEMMA TableKeeps ==
  ASSUME CredentialsInv, UNCHANGED <<account, client, attempts, proved, excused, reopened>>,
         ticket' \in Seq(Tickets), wrong' \in Seq(Nat), Len(wrong') = Len(ticket'), Len(ticket) <= Len(ticket'),
         \A i \in TicketRows : ticket'[i].kind = ticket[i].kind /\ ticket'[i].to = ticket[i].to, TriesStay,
         mailed \subseteq mailed', mailed' \subseteq Nat \X {0, 1} \X Emails, \A m \in mailed' : m[1] \in TicketRows',
         \A m \in mailed' : m \in mailed \/ (/\ ticket'[m[1]].kind # "verify"
                                             /\ ticket'[m[1]].kind = "change" => m[3] = ticket'[m[1]].to)
  PROVE  CredentialsInv'
<1>1. CredentialsTypeOK /\ LockoutIsExact /\ ChangesMailed /\ NotYet /\ \A c \in Clients : ClientOK(c)
  BY DEF CredentialsInv
<1>2. CredentialsTypeOK'  BY <1>1 DEF CredentialsTypeOK
<1>3. Kept
  <2>1. Failures(attempts, Len(attempts)) \in Nat  BY <1>1, FailedFinite DEF CredentialsTypeOK
  <2>. QED  BY <2>1 DEF Kept
<1>4. \A c \in Clients : ClientOK(c)'  BY <1>1, <1>2, <1>3, ClientStays
<1>5. ChangesMailed'  BY <1>1, ChangesStay
<1>6. NotYet'  BY <1>1 DEF NotYet
<1>7. LockoutIsExact'  BY <1>1, LockoutStays
<1>8. excused' \/ Quiet'
  <2> SUFFICES ASSUME ~excused PROVE Quiet'
    OBVIOUS
  <2>1. Quiet  BY DEF CredentialsInv
  <2>2. Alone'  BY <2>1 DEF Quiet, Alone
  <2>3. ASSUME NEW c \in Clients PROVE ClientKnows(c)'
    <3>1. client[c].pc \in {"verify", "change"} => client[c].i \in TicketRows  BY <1>1 DEF ClientOK
    <3>2. client[c].pc \in {"verify", "change"} => ticket'[client[c].i].tries = ticket[client[c].i].tries
      BY <3>1 DEF TriesStay
    <3>3. ClientKnows(c)  BY <2>1 DEF Quiet
    <3>4. client' = client /\ account' = account /\ attempts' = attempts  OBVIOUS
    <3>. QED  BY <3>2, <3>3, <3>4 DEF ClientKnows
  <2>4. AddressKnown'  BY <1>1, <2>1, AddressStays DEF Quiet
  <2>5. TriesKnown'  BY <1>1, <2>1, TriesKnownStays DEF Quiet
  <2>. QED  BY <2>2, <2>3, <2>4, <2>5, Zenon DEF Quiet
<1>. QED  BY <1>2, <1>4, <1>5, <1>6, <1>7, <1>8, Zenon DEF CredentialsInv

LEMMA NewestClosed ==
  ASSUME ticket \in Seq(Tickets), NEW kind
  PROVE  Follows(IF Newest(kind) = 0 THEN ticket ELSE Closed(ticket, Newest(kind)), ticket)
<1>1. CASE Newest(kind) = 0
  <2>1. Follows(ticket, ticket)  BY DEF Follows
  <2>. QED  BY <1>1, <2>1, Zenon
<1>2. CASE Newest(kind) # 0
  <2>1. Newest(kind) \in 1..Len(ticket)  BY <1>2, NewestIs DEF TicketRows
  <2>2. Follows(Closed(ticket, Newest(kind)), ticket)  BY <2>1, ClosedFollows
  <2>. QED  BY <1>2, <2>2, Zenon
<1>. QED  BY <1>1, <1>2

\* A new ticket that is not of the verification, and its mail.
LEMMA AddingKeeps ==
  ASSUME CredentialsInv, UNCHANGED <<account, client, attempts, proved, excused, reopened>>,
         NEW kind \in {"reset", "change"}, NEW e \in Emails, Create(kind, e)
  PROVE  CredentialsInv'
<1> USE DEF Create
<1>1. CredentialsTypeOK /\ Follows(ticket, ticket)  BY DEF CredentialsInv, CredentialsTypeOK, Follows
<1>2. PICK n : n = Len(ticket')  OBVIOUS
<1>3. /\ ticket' \in Seq(Tickets) /\ n = Len(ticket) + 1
      /\ wrong' \in Seq(Nat) /\ Len(wrong') = n
      /\ \A i \in TicketRows : ticket'[i].kind = ticket[i].kind /\ ticket'[i].to = ticket[i].to
      /\ TicketRows \subseteq TicketRows' /\ n \in TicketRows' /\ ticket'[n].kind = kind /\ ticket'[n].to = e
      /\ TriesStay
  BY <1>1, <1>2, TicketAdded
<1>4. Len(ticket) \in Nat /\ n \in Nat  BY <1>1, <1>3 DEF CredentialsTypeOK
<1>5. Mail(n, 0, e)  BY <1>2, Zenon
<1>6. /\ mailed \subseteq mailed' /\ mailed' \subseteq Nat \X {0, 1} \X Emails /\ \A m \in mailed' : m[1] \in TicketRows'
      /\ \A m \in mailed' : m \in mailed \/ (m[1] = n /\ m[3] = e)
  BY <1>1, <1>3, <1>4, <1>5, MailSent
<1>7. \A m \in mailed' : m \in mailed \/ (/\ ticket'[m[1]].kind # "verify"
                                          /\ ticket'[m[1]].kind = "change" => m[3] = ticket'[m[1]].to)
  BY <1>3, <1>6
<1>8. Len(ticket) <= n /\ Len(wrong') = Len(ticket')  BY <1>2, <1>3, <1>4
<1>. QED  BY <1>2, <1>3, <1>6, <1>7, <1>8, TableKeeps

\* The tickets only close, and what is mailed is a code of a change, to its new address.
LEMMA ClosingKeeps ==
  ASSUME CredentialsInv, UNCHANGED <<account, client, attempts, proved, wrong, excused, reopened>>,
         Follows(ticket', ticket), mailed \subseteq mailed', mailed' \subseteq Nat \X {0, 1} \X Emails,
         \A m \in mailed' : m \in mailed
                            \/ (m[1] \in TicketRows /\ ticket[m[1]].kind = "change" /\ m[3] = ticket[m[1]].to)
  PROVE  CredentialsInv'
<1>1. CredentialsTypeOK  BY DEF CredentialsInv
<1>2. /\ ticket' \in Seq(Tickets) /\ Len(ticket') = Len(ticket) /\ TicketRows' = TicketRows
      /\ \A i \in TicketRows : ticket'[i].kind = ticket[i].kind /\ ticket'[i].to = ticket[i].to
      /\ TriesStay
  BY <1>1, FollowsStay
<1>3. wrong' \in Seq(Nat) /\ Len(wrong') = Len(ticket') /\ Len(ticket) <= Len(ticket')
  BY <1>1, <1>2 DEF CredentialsTypeOK
<1>4. \A m \in mailed' : m[1] \in TicketRows'  BY <1>1, <1>2 DEF CredentialsTypeOK
<1>5. \A m \in mailed' : m \in mailed \/ (/\ ticket'[m[1]].kind # "verify"
                                          /\ ticket'[m[1]].kind = "change" => m[3] = ticket'[m[1]].to)
  BY <1>2
<1>. QED  BY <1>2, <1>3, <1>4, <1>5, TableKeeps

LEMMA RequestResetKeeps ==
  ASSUME CredentialsInv, NEW c \in Clients, NEW e \in Emails, RequestReset(c, e)
  PROVE  CredentialsInv'
<1>1. PICK rows : rows = IF Newest("reset") = 0 THEN ticket ELSE Closed(ticket, Newest("reset"))  OBVIOUS
<1>2. Follows(rows, ticket)  BY <1>1, NewestClosed DEF CredentialsInv, CredentialsTypeOK
<1>3. ticket' = rows  BY <1>1 DEF RequestReset
<1>4. Follows(ticket', ticket)  BY <1>2, <1>3
<1>5. mailed \subseteq Nat \X {0, 1} \X Emails  BY DEF CredentialsInv, CredentialsTypeOK
<1>. QED  BY <1>4, <1>5, ClosingKeeps DEF RequestReset, Replaces

LEMMA StartChangeKeeps ==
  ASSUME CredentialsInv, NEW c \in Clients, NEW e \in Emails, StartChange(c, e)
  PROVE  CredentialsInv'
<1>1. PICK rows : rows = [i \in 1..Len(ticket) |->
                    IF ticket[i].kind = "change" THEN [ticket[i] EXCEPT !.open = FALSE] ELSE ticket[i]]
  OBVIOUS
<1>2. Follows(rows, ticket)  BY <1>1, ChangesClosed DEF CredentialsInv, CredentialsTypeOK
<1>3. ticket' = rows  BY <1>1, Zenon DEF StartChange
<1>4. Follows(ticket', ticket)  BY <1>2, <1>3
<1>5. mailed \subseteq Nat \X {0, 1} \X Emails  BY DEF CredentialsInv, CredentialsTypeOK
<1>. QED  BY <1>4, <1>5, ClosingKeeps DEF StartChange, Replaces

LEMMA ResendChangeKeeps ==
  ASSUME CredentialsInv, NEW i \in TicketRows, ResendChange(i)
  PROVE  CredentialsInv'
<1> USE DEF ResendChange
<1>1. CredentialsTypeOK  BY DEF CredentialsInv
<1>2. ticket \in Seq(Tickets) /\ i \in 1..Len(ticket) /\ i \in Nat /\ mailed \subseteq Nat \X {0, 1} \X Emails
  BY <1>1 DEF CredentialsTypeOK, TicketRows
<1>3. CASE ticket' = Closed(ticket, i) /\ UNCHANGED mailed
  <2>1. Follows(ticket', ticket)  BY <1>2, <1>3, ClosedFollows
  <2>. QED  BY <1>2, <1>3, <2>1, ClosingKeeps
<1>4. CASE ticket' = [ticket EXCEPT ![i].version = 1, ![i].fresh = TRUE] /\ Mail(i, 1, ticket[i].to)
  <2>1. PICK s : s = [ticket[i] EXCEPT !.version = 1]  OBVIOUS
  <2>2. PICK t : t = [s EXCEPT !.fresh = TRUE]  OBVIOUS
  <2>3. ticket[i] \in Tickets  BY <1>2
  <2>4. s \in Tickets /\ s.kind = ticket[i].kind /\ s.to = ticket[i].to /\ s.tries = ticket[i].tries /\ s.open = ticket[i].open
    BY <2>1, <2>3 DEF Tickets
  <2>5. t \in Tickets /\ t.kind = s.kind /\ t.to = s.to /\ t.tries = s.tries /\ t.open = s.open
    BY <2>2, <2>4 DEF Tickets
  <2>6. ticket' = [ticket EXCEPT ![i] = t]  BY <1>2, <1>4, <2>1, <2>2
  <2>7. Follows(ticket', ticket)
    <3>1. t.open => ticket[i].open  BY <2>4, <2>5, Zenon
    <3>. QED  BY <1>2, <2>4, <2>5, <2>6, <3>1, RowFollows
  <2>8. PICK to : to = ticket[i].to  OBVIOUS
  <2>9. to \in Emails  BY <2>3, <2>8 DEF Tickets
  <2>10. mailed' = mailed \/ mailed' = mailed \cup {<<i, 1, to>>}  BY <1>4, <2>8, Zenon DEF Mail
  <2>11. mailed \subseteq mailed' /\ mailed' \subseteq Nat \X {0, 1} \X Emails  BY <1>2, <2>9, <2>10
  <2>12. \A m \in mailed' : m \in mailed \/ (m[1] = i /\ m[3] = to)  BY <2>10
  <2>13. \A m \in mailed' : m \in mailed
                            \/ (m[1] \in TicketRows /\ ticket[m[1]].kind = "change" /\ m[3] = ticket[m[1]].to)
    BY <2>8, <2>12
  <2>. QED  BY <2>7, <2>11, <2>13, ClosingKeeps
<1>. QED  BY <1>3, <1>4

LEMMA CloseChangeKeeps ==
  ASSUME CredentialsInv, NEW i \in TicketRows, CloseChange(i)
  PROVE  CredentialsInv'
<1>1. ticket \in Seq(Tickets) /\ i \in 1..Len(ticket) /\ mailed \subseteq Nat \X {0, 1} \X Emails
  BY DEF CredentialsInv, CredentialsTypeOK, TicketRows
<1>2. Follows(ticket', ticket)  BY <1>1, ClosedFollows DEF CloseChange
<1>. QED  BY <1>1, <1>2, ClosingKeeps DEF CloseChange

LEMMA AgeKeeps ==
  ASSUME CredentialsInv, NEW i \in TicketRows, Age(i)
  PROVE  CredentialsInv'
<1>1. ticket \in Seq(Tickets) /\ i \in 1..Len(ticket) /\ mailed \subseteq Nat \X {0, 1} \X Emails
  BY DEF CredentialsInv, CredentialsTypeOK, TicketRows
<1>2. ticket[i] \in Tickets  BY <1>1
<1>3. PICK t \in Tickets : /\ t.kind = ticket[i].kind /\ t.to = ticket[i].to /\ t.tries = ticket[i].tries
                           /\ t.open = ticket[i].open
                           /\ ticket' = [ticket EXCEPT ![i] = t]
  <2>1. CASE ticket' = [ticket EXCEPT ![i].fresh = FALSE]
    <3>1. PICK t : t = [ticket[i] EXCEPT !.fresh = FALSE]  OBVIOUS
    <3>2. /\ t \in Tickets /\ t.kind = ticket[i].kind /\ t.to = ticket[i].to /\ t.tries = ticket[i].tries
          /\ t.open = ticket[i].open
      BY <1>2, <3>1 DEF Tickets
    <3>3. ticket' = [ticket EXCEPT ![i] = t]  BY <2>1, <3>1
    <3>. QED  BY <3>2, <3>3
  <2>2. CASE ticket' = [ticket EXCEPT ![i].live = FALSE]
    <3>1. PICK t : t = [ticket[i] EXCEPT !.live = FALSE]  OBVIOUS
    <3>2. /\ t \in Tickets /\ t.kind = ticket[i].kind /\ t.to = ticket[i].to /\ t.tries = ticket[i].tries
          /\ t.open = ticket[i].open
      BY <1>2, <3>1 DEF Tickets
    <3>3. ticket' = [ticket EXCEPT ![i] = t]  BY <2>2, <3>1
    <3>. QED  BY <3>2, <3>3
  <2>. QED  BY <2>1, <2>2 DEF Age
<1>4. Follows(ticket', ticket)
  <2>1. t.open => ticket[i].open  BY <1>3, Zenon
  <2>. QED  BY <1>1, <1>3, <2>1, RowFollows
<1>. QED  BY <1>1, <1>4, ClosingKeeps DEF Age

LEMMA UnblockKeeps ==
  ASSUME CredentialsInv, Unblock
  PROVE  CredentialsInv'
<1> USE DEF Unblock
<1>1. CredentialsTypeOK /\ LockoutIsExact /\ ChangesMailed /\ NotYet /\ \A c \in Clients : ClientOK(c)
  BY DEF CredentialsInv
<1>2. account.exists  BY <1>1 DEF NotYet
<1>3. /\ account' \in Accounts /\ account'.exists /\ account'.email = account.email
      /\ account'.active = account.active /\ account'.status = "ACTIVE"
  BY <1>1, <1>2 DEF CredentialsTypeOK, Accounts
<1>4. CredentialsTypeOK'  BY <1>1, <1>3 DEF CredentialsTypeOK, TicketRows
<1>5. Kept
  <2>1. Failures(attempts, Len(attempts)) \in Nat  BY <1>1, FailedFinite DEF CredentialsTypeOK
  <2>. QED  BY <1>1, <1>3, <2>1 DEF Kept, CredentialsTypeOK, TicketRows
<1>6. \A c \in Clients : ClientOK(c)'  BY <1>1, <1>4, <1>5, ClientStays
<1>7. ChangesMailed' /\ NotYet' /\ LockoutIsExact'
  BY <1>1, <1>3 DEF ChangesMailed, NotYet, LockoutIsExact
<1>8. excused' \/ Quiet'
  <2> SUFFICES ASSUME ~excused PROVE Quiet'
    OBVIOUS
  <2>1. Quiet  BY DEF CredentialsInv
  <2>2. Alone'  BY <2>1 DEF Quiet, Alone
  <2>3. \A c \in Clients : ClientKnows(c)'  BY <1>3, <2>1 DEF Quiet, ClientKnows
  <2>4. AddressKnown'  BY <1>3, <2>1 DEF Quiet, AddressKnown
  <2>5. TriesKnown'  BY <1>1, <2>1, TableStays, TriesKnownStays DEF Quiet
  <2>. QED  BY <2>2, <2>3, <2>4, <2>5, Zenon DEF Quiet
<1>. QED  BY <1>4, <1>6, <1>7, <1>8, Zenon DEF CredentialsInv

LEMMA ReplaceEmailKeeps ==
  ASSUME CredentialsInv, NEW e \in Emails, ReplaceEmail(e)
  PROVE  CredentialsInv'
<1> USE DEF ReplaceEmail
<1>1. CredentialsTypeOK /\ LockoutIsExact /\ ChangesMailed /\ NotYet /\ \A c \in Clients : ClientOK(c)
  BY DEF CredentialsInv
<1>2. account' \in Accounts /\ account'.exists /\ account'.status = account.status
  BY <1>1 DEF CredentialsTypeOK, Accounts
<1>3. CredentialsTypeOK'  BY <1>1, <1>2 DEF CredentialsTypeOK, TicketRows
<1>4. Kept
  <2>1. Failures(attempts, Len(attempts)) \in Nat  BY <1>1, FailedFinite DEF CredentialsTypeOK
  <2>. QED  BY <1>1, <1>2, <2>1 DEF Kept, CredentialsTypeOK, TicketRows
<1>5. \A c \in Clients : ClientOK(c)'  BY <1>1, <1>3, <1>4, ClientStays
<1>6. ChangesMailed' /\ NotYet' /\ LockoutIsExact'
  BY <1>1, <1>2 DEF ChangesMailed, NotYet, LockoutIsExact
<1>. QED  BY <1>3, <1>5, <1>6, Zenon DEF CredentialsInv

\* The invariant is not about the addresses of other accounts, or the number of requests.
LEMMA NothingChanges ==
  ASSUME CredentialsInv,
         UNCHANGED <<account, ticket, mailed, attempts, client, proved, wrong, excused, reopened>>
  PROVE  CredentialsInv'
<1>1. CredentialsTypeOK'  BY DEF CredentialsInv, CredentialsTypeOK, TicketRows
<1>2. \A c \in Clients : ClientOK(c)'  BY DEF CredentialsInv, ClientOK, TicketRows
<1>3. ChangesMailed' /\ NotYet' /\ LockoutIsExact'
  BY DEF CredentialsInv, ChangesMailed, NotYet, LockoutIsExact
<1>4. Quiet => Quiet'
  <2>1. Alone => Alone'  BY DEF Alone
  <2>2. (\A c \in Clients : ClientKnows(c)) => \A c \in Clients : ClientKnows(c)'  BY DEF ClientKnows
  <2>3. AddressKnown => AddressKnown'  BY DEF AddressKnown
  <2>4. TriesKnown => TriesKnown'  BY DEF TriesKnown, TicketRows
  <2>. QED  BY <2>1, <2>2, <2>3, <2>4, Zenon DEF Quiet
<1>5. excused' \/ Quiet'  BY <1>4 DEF CredentialsInv
<1>. QED  BY <1>1, <1>2, <1>3, <1>5, Zenon DEF CredentialsInv

\* A request closes tickets.
LEMMA ClosingRequestKeeps ==
  ASSUME CredentialsInv, NEW c \in Clients, client[c].pc \notin {"idle", "count"},
         UNCHANGED <<mailed, attempts, wrong, excused, reopened>>, Follows(ticket', ticket),
         client' \in [Clients -> AnyCall], Others(c), account' \in Accounts, account'.exists,
         account'.status = account.status, proved' \subseteq Emails, ClientOK(c)',
         Quiet => ClientKnows(c)' /\ AddressKnown'
  PROVE  CredentialsInv'
<1>1. CredentialsTypeOK /\ LockoutIsExact /\ ChangesMailed /\ NotYet  BY DEF CredentialsInv
<1>2. /\ ticket' \in Seq(Tickets) /\ Len(ticket') = Len(ticket) /\ TicketRows' = TicketRows
      /\ \A i \in TicketRows : ticket'[i].kind = ticket[i].kind /\ ticket'[i].to = ticket[i].to
      /\ TriesStay
  BY <1>1, FollowsStay
<1>3. CredentialsTypeOK'  BY <1>1, <1>2 DEF CredentialsTypeOK
<1>4. Kept
  <2>1. Failures(attempts, Len(attempts)) \in Nat  BY <1>1, FailedFinite DEF CredentialsTypeOK
  <2>2. Len(ticket) <= Len(ticket')  BY <1>1, <1>2 DEF CredentialsTypeOK
  <2>. QED  BY <1>2, <2>1, <2>2 DEF Kept
<1>5. ChangesMailed' /\ NotYet'  BY <1>1, <1>2, ChangesStay DEF NotYet
<1>6. Quiet => TriesKnown'  BY <1>1, <1>2, TriesKnownStays DEF Quiet
<1>7. LockoutIsExact'
  <2>1. \A d \in Clients : client[d].pc = "count" => client'[d].pc = "count"  BY DEF Others
  <2>. QED  BY <1>1, <2>1, LockoutStays
<1>8. Turn(c)  BY DEF Turn
<1>. QED  BY <1>3, <1>4, <1>5, <1>6, <1>7, <1>8, StepKeeps

\* The address stays known when tickets only close.
LEMMA AddressStaysClosing ==
  ASSUME CredentialsTypeOK, AddressKnown, UNCHANGED <<account, proved, mailed, wrong>>, Follows(ticket', ticket)
  PROVE  AddressKnown'
<1>1. \A i \in TicketRows : ticket'[i].kind = ticket[i].kind  BY FollowsStay
<1>. QED  BY <1>1, AddressStays

LEMMA LateKeeps ==
  ASSUME CredentialsInv, NEW c \in Clients, Late(c)
  PROVE  CredentialsInv'
<1> USE DEF Late
<1>1. CredentialsTypeOK /\ ClientOK(c)  BY DEF CredentialsInv
<1>2. client[c].i \in 1..Len(ticket) /\ account.exists  BY <1>1 DEF ClientOK, TicketRows
<1>3. Follows(ticket', ticket)  BY <1>1, <1>2, ClosedFollows DEF CredentialsTypeOK
<1>4. Quiet => AddressKnown'  BY <1>1, <1>3, AddressStaysClosing DEF Quiet
<1>. QED  BY <1>1, <1>2, <1>3, <1>4, Ended, ClosingRequestKeeps DEF CredentialsTypeOK

LEMMA UseResetKeeps ==
  ASSUME CredentialsInv, NEW c \in Clients, UseReset(c)
  PROVE  CredentialsInv'
<1> USE DEF UseReset, Entered
<1>1. CredentialsTypeOK /\ ClientOK(c)  BY DEF CredentialsInv
<1>2. client[c].i \in 1..Len(ticket) /\ account.exists  BY <1>1 DEF ClientOK, TicketRows
<1>3. Follows(ticket', ticket)  BY <1>1, <1>2, ClosedFollows DEF CredentialsTypeOK
<1>4. Quiet => AddressKnown'  BY <1>1, <1>3, AddressStaysClosing DEF Quiet
<1>. QED  BY <1>1, <1>2, <1>3, <1>4, Ended, ClosingRequestKeeps DEF CredentialsTypeOK

LEMMA UseCodeKeeps ==
  ASSUME CredentialsInv, NEW c \in Clients, UseCode(c)
  PROVE  CredentialsInv'
<1> USE DEF UseCode, RightAnswer, Entered
<1>1. CredentialsTypeOK /\ ClientOK(c)  BY DEF CredentialsInv
<1>2. client[c].i \in 1..Len(ticket) /\ account.exists /\ client[c] \in CodeCalls
  BY <1>1, CallIs DEF ClientOK, TicketRows
<1>3. Follows(ticket', ticket)  BY <1>1, <1>2, ClosedFollows DEF CredentialsTypeOK
<1>4. Quiet => AddressKnown'  BY <1>1, <1>3, AddressStaysClosing DEF Quiet
<1>5. PICK x : x = [client[c] EXCEPT !.pc = "activate"]  OBVIOUS
<1>6. x \in CodeCalls /\ x.pc = "activate" /\ x.i = client[c].i /\ x.box = client[c].box
  BY <1>2, <1>5 DEF CodeCalls
<1>7. client' \in [Clients -> AnyCall] /\ client'[c] = x /\ Others(c)  BY <1>1, <1>5, <1>6, PcSet DEF AnyCall
<1>8. ClientOK(c)'
  <2>1. TicketRows' = TicketRows /\ \A i \in TicketRows : ticket'[i].kind = ticket[i].kind  BY <1>1, <1>3, FollowsStay
  <2>. QED  BY <1>1, <1>2, <1>6, <1>7, <2>1 DEF ClientOK
<1>9. ClientKnows(c)'  BY <1>6, <1>7 DEF ClientKnows
<1>. QED  BY <1>1, <1>2, <1>3, <1>4, <1>7, <1>8, <1>9, ClosingRequestKeeps DEF CredentialsTypeOK

LEMMA ChangeEmailKeeps ==
  ASSUME CredentialsInv, NEW c \in Clients, ChangeEmail(c)
  PROVE  CredentialsInv'
<1> USE DEF ChangeEmail, RightAnswer, Entered
<1>1. CredentialsTypeOK /\ ClientOK(c) /\ ChangesMailed  BY DEF CredentialsInv
<1>2. PICK e : e = client[c].row.to  OBVIOUS
<1>3. client[c].i \in 1..Len(ticket) /\ account.exists /\ client[c] \in CodeCalls
  BY <1>1, CallIs DEF ClientOK, TicketRows
<1>4. CASE e \in taken
  <2>1. ticket' = Closed(ticket, client[c].i) /\ UNCHANGED <<account, proved>>  BY <1>2, <1>4
  <2>2. Follows(ticket', ticket)  BY <1>1, <1>3, <2>1, ClosedFollows DEF CredentialsTypeOK
  <2>3. Quiet => AddressKnown'  BY <1>1, <2>1, <2>2, AddressStaysClosing DEF Quiet
  <2>. QED  BY <1>1, <1>3, <2>1, <2>2, <2>3, Ended, ClosingRequestKeeps DEF CredentialsTypeOK
<1>5. CASE e \notin taken
  <2>1. PICK box : box = client[c].box  OBVIOUS
  <2>2. account' = [account EXCEPT !.email = e] /\ proved' = proved \cup {box}  BY <1>2, <1>5, <2>1
  <2>3. PICK rows : rows = [i \in 1..Len(ticket) |->
                      IF ticket[i].kind = "change" THEN [ticket[i] EXCEPT !.open = FALSE] ELSE ticket[i]]
    OBVIOUS
  <2>4. ticket' = rows  BY <1>2, <1>5, <2>3, Zenon
  <2>5. Follows(ticket', ticket)  BY <1>1, <2>3, <2>4, ChangesClosed DEF CredentialsTypeOK
  <2>6. box \in Emails /\ e \in Emails  BY <1>2, <1>3, <2>1 DEF CodeCalls, Tickets
  <2>7. box = e
    <3>1. PICK v \in {0, 1} : <<client[c].i, v, box>> \in mailed  BY <1>1, <2>1, <2>6, NoEmailAssumption DEF ClientOK
    <3>2. ticket[client[c].i].kind = "change" /\ ticket[client[c].i].to = e  BY <1>1, <1>2 DEF ClientOK
    <3>. QED  BY <1>1, <3>1, <3>2 DEF ChangesMailed
  <2>8. /\ account' \in Accounts /\ account'.exists /\ account'.status = account.status
        /\ account'.email = e /\ proved' \subseteq Emails /\ e \in proved'
    BY <1>1, <1>3, <2>2, <2>6, <2>7 DEF CredentialsTypeOK, Accounts
  <2>9. AddressKnown'  BY <2>8 DEF AddressKnown
  <2>. QED  BY <1>1, <2>5, <2>8, <2>9, Ended, ClosingRequestKeeps
<1>. QED  BY <1>4, <1>5

LEMMA WrongAnswerKeeps ==
  ASSUME CredentialsInv, NEW c \in Clients, WrongAnswer(c)
  PROVE  CredentialsInv'
<1>1. CredentialsTypeOK /\ ClientOK(c) /\ LockoutIsExact /\ ChangesMailed /\ NotYet  BY DEF CredentialsInv
<1>2. PICK x : x = client[c]  OBVIOUS
<1>3. PICK i : i = x.i  OBVIOUS
<1>4. PICK n : n = x.row.tries + 1  OBVIOUS
<1>5. /\ x.pc \in {"verify", "reset", "change"} /\ Replied(c)
      /\ wrong' = [wrong EXCEPT ![i] = @ + 1]
      /\ UNCHANGED <<account, taken, mailed, attempts, entries, proved, excused, reopened>>
  BY <1>2, <1>3 DEF WrongAnswer
<1>6. /\ x.pc = "reset" => ticket' = ticket
      /\ x.pc = "verify" => ticket' = WrongCode(i, n)
      /\ x.pc = "change" => ticket' = WrongChangeCode(i, n)
  BY <1>2, <1>3, <1>4 DEF WrongAnswer
<1>7. x \in CodeCalls /\ i \in TicketRows /\ account.exists /\ ticket[i].kind = x.pc
  BY <1>1, <1>2, <1>3, <1>5, CallIs DEF ClientOK
<1>8. n \in Nat /\ x.row.tries \in Nat  BY <1>4, <1>7 DEF CodeCalls, Tickets
<1>9. PICK old : old = ticket[i]  OBVIOUS
<1>10. old \in Tickets  BY <1>1, <1>7, <1>9 DEF CredentialsTypeOK, TicketRows
<1>11. PICK t \in Tickets : /\ t.kind = old.kind /\ t.to = old.to /\ ticket' = [ticket EXCEPT ![i] = t]
                            /\ t.kind # "reset" => t.tries = n
                            /\ t.kind # "reset" /\ t.open => n < MaxTries
  <2>1. CASE x.pc = "reset"
    <3>1. ticket' = [ticket EXCEPT ![i] = old]  BY <1>1, <1>6, <1>7, <1>9, <2>1 DEF CredentialsTypeOK, TicketRows
    <3>. QED  BY <1>7, <1>9, <1>10, <2>1, <3>1
  <2>2. CASE x.pc = "verify"
    <3>1. PICK s : s = [old EXCEPT !.tries = n]  OBVIOUS
    <3>2. PICK t : t = [s EXCEPT !.open = s.open /\ n < MaxTries]  OBVIOUS
    <3>3. s \in Tickets /\ s.kind = old.kind /\ s.to = old.to /\ s.tries = n /\ s.open = old.open
      BY <1>8, <1>10, <3>1 DEF Tickets
    <3>4. t \in Tickets /\ t.kind = old.kind /\ t.to = old.to /\ t.tries = n /\ (t.open => n < MaxTries)
      <4>1. PICK b \in BOOLEAN : b = (s.open /\ n < MaxTries)  OBVIOUS
      <4>2. t = [s EXCEPT !.open = b]  BY <3>2, <4>1, Zenon
      <4>3. t \in Tickets /\ t.kind = old.kind /\ t.to = old.to /\ t.tries = n /\ t.open = b
        BY <3>3, <4>1, <4>2 DEF Tickets
      <4>4. t.open => n < MaxTries  BY <4>1, <4>3, Zenon
      <4>. QED  BY <4>3, <4>4, Zenon
    <3>5. ticket' = [ticket EXCEPT ![i] = t]
      <4>1. ticket' = [ticket EXCEPT ![i].tries = n, ![i].open = @ /\ n < MaxTries]
        BY <1>6, <2>2, Zenon DEF WrongCode
      <4>. QED  BY <1>1, <1>7, <1>9, <3>1, <3>2, <4>1 DEF CredentialsTypeOK, TicketRows
    <3>. QED  BY <3>4, <3>5
  <2>3. CASE x.pc = "change"
    <3>1. PICK s : s = [old EXCEPT !.tries = n]  OBVIOUS
    <3>2. PICK t : t = [s EXCEPT !.open = n < MaxTries]  OBVIOUS
    <3>3. s \in Tickets /\ s.kind = old.kind /\ s.to = old.to /\ s.tries = n
      BY <1>8, <1>10, <3>1 DEF Tickets
    <3>4. t \in Tickets /\ t.kind = old.kind /\ t.to = old.to /\ t.tries = n /\ (t.open => n < MaxTries)
      <4>1. PICK b \in BOOLEAN : b = (n < MaxTries)
        <5>1. (n < MaxTries) \in BOOLEAN  OBVIOUS
        <5>. QED  BY <5>1, Zenon
      <4>2. t = [s EXCEPT !.open = b]  BY <3>2, <4>1, Zenon
      <4>3. t \in Tickets /\ t.kind = old.kind /\ t.to = old.to /\ t.tries = n /\ t.open = b
        BY <3>3, <4>1, <4>2 DEF Tickets
      <4>4. t.open => n < MaxTries  BY <4>1, <4>3, Zenon
      <4>. QED  BY <4>3, <4>4, Zenon
    <3>5. ticket' = [ticket EXCEPT ![i] = t]
      <4>1. ticket' = [ticket EXCEPT ![i].tries = n, ![i].open = n < MaxTries]
        BY <1>6, <2>3, Zenon DEF WrongChangeCode
      <4>. QED  BY <1>1, <1>7, <1>9, <3>1, <3>2, <4>1 DEF CredentialsTypeOK, TicketRows
    <3>. QED  BY <3>4, <3>5
  <2>. QED  BY <1>5, <2>1, <2>2, <2>3
<1>12. /\ ticket' \in Seq(Tickets) /\ Len(ticket') = Len(ticket) /\ ticket'[i] = t
       /\ \A j \in TicketRows : j # i => ticket'[j] = ticket[j]
       /\ TicketRows' = TicketRows
  BY <1>1, <1>7, <1>11 DEF CredentialsTypeOK, TicketRows
<1>13. /\ wrong' \in Seq(Nat) /\ Len(wrong') = Len(wrong) /\ wrong'[i] = wrong[i] + 1
       /\ \A j \in TicketRows : j # i => wrong'[j] = wrong[j]
  BY <1>1, <1>5, <1>7 DEF CredentialsTypeOK, TicketRows
<1>14. \A j \in TicketRows : ticket'[j].kind = ticket[j].kind /\ ticket'[j].to = ticket[j].to
  BY <1>9, <1>11, <1>12
<1>15. CredentialsTypeOK'
  BY <1>1, <1>2, <1>5, <1>12, <1>13, Ended DEF CredentialsTypeOK
<1>16. Kept
  <2>1. Failures(attempts, Len(attempts)) \in Nat  BY <1>1, FailedFinite DEF CredentialsTypeOK
  <2>2. Len(ticket) <= Len(ticket')  BY <1>1, <1>12 DEF CredentialsTypeOK
  <2>. QED  BY <1>5, <1>14, <2>1, <2>2 DEF Kept
<1>17. ChangesMailed' /\ NotYet'  BY <1>1, <1>5, <1>14, ChangesStay DEF NotYet
<1>18. ASSUME Quiet PROVE AddressKnown' /\ TriesKnown'
  <2>1. AddressKnown'  BY <1>1, <1>5, <1>14, <1>18, AddressStays DEF Quiet
  <2>2. ASSUME t.kind # "reset" PROVE wrong'[i] = n /\ n <= MaxTries
    <3>1. x.pc \in {"verify", "change"}  BY <1>5, <1>7, <1>9, <1>11, <2>2
    <3>2. x.row.tries = ticket[i].tries /\ x.row.tries < MaxTries
      BY <1>2, <1>3, <1>18, <3>1 DEF Quiet, ClientKnows
    <3>3. wrong[i] = ticket[i].tries
      BY <1>7, <1>9, <1>11, <1>18, <2>2 DEF Quiet, TriesKnown
    <3>. QED  BY <1>4, <1>8, <1>13, <3>2, <3>3, LimitsAssumption
  <2>3. ASSUME NEW j \in TicketRows, ticket'[j].kind # "reset"
        PROVE  /\ wrong'[j] = ticket'[j].tries /\ wrong'[j] <= MaxTries
               /\ ticket'[j].open => wrong'[j] < MaxTries
    <3>1. CASE j = i
      <4>1. ticket'[j] = t /\ t.kind # "reset"  BY <1>12, <2>3, <3>1
      <4>2. wrong'[j] = n /\ n <= MaxTries /\ t.tries = n  BY <1>11, <2>2, <3>1, <4>1
      <4>3. t.open => n < MaxTries  BY <1>11, <4>1
      <4>. QED  BY <4>1, <4>2, <4>3
    <3>2. CASE j # i
      <4>1. ticket'[j] = ticket[j] /\ wrong'[j] = wrong[j]  BY <1>12, <1>13, <3>2, Zenon
      <4>. QED  BY <1>18, <2>3, <4>1 DEF Quiet, TriesKnown
    <3>. QED  BY <3>1, <3>2
  <2>4. TriesKnown'  BY <1>12, <2>3 DEF TriesKnown
  <2>. QED  BY <2>1, <2>4
<1>19. LockoutIsExact'
  <2>1. \A d \in Clients : client[d].pc = "count" => client'[d].pc = "count"
    BY <1>1, <1>2, <1>5, Ended DEF Others
  <2>. QED  BY <1>1, <1>5, <2>1, LockoutStays
<1>. QED  BY <1>1, <1>2, <1>5, <1>15, <1>16, <1>17, <1>18, <1>19, Ended, StepKeeps

\* Of a request that sends or creates a verification code and answers:
LEMMA CodeSentKeeps ==
  ASSUME CredentialsInv, NEW c \in Clients, client[c].pc \in {"send", "create"}, Replied(c), NEW e \in Emails,
         e = client[c].to, UNCHANGED <<account, attempts, proved, excused, reopened>>,
         ticket' \in Seq(Tickets), wrong' \in Seq(Nat), Len(wrong') = Len(ticket'), Len(ticket) <= Len(ticket'),
         \A j \in TicketRows : ticket'[j].kind = ticket[j].kind /\ ticket'[j].to = ticket[j].to, TriesStay,
         mailed \subseteq mailed', mailed' \subseteq Nat \X {0, 1} \X Emails, \A m \in mailed' : m[1] \in TicketRows',
         \A m \in mailed' : m \in mailed \/ (ticket'[m[1]].kind = "verify" /\ m[3] = e)
  PROVE  CredentialsInv'
<1>1. CredentialsTypeOK /\ LockoutIsExact /\ ChangesMailed /\ NotYet  BY DEF CredentialsInv
<1>2. LockoutIsExact'
  <2>1. \A d \in Clients : client[d].pc = "count" => client'[d].pc = "count"  BY <1>1, Ended DEF Others
  <2>. QED  BY <1>1, <2>1, LockoutStays
<1>3. NotYet'  BY <1>1 DEF NotYet
<1>4. Failures(attempts, Len(attempts)) \in Nat  BY <1>1, FailedFinite DEF CredentialsTypeOK
<1>5. CredentialsTypeOK'  BY <1>1, Ended DEF CredentialsTypeOK
<1>6. Kept  BY <1>4 DEF Kept
<1>7. ChangesMailed'  BY <1>1, ChangesStay
<1>8. ASSUME Quiet PROVE AddressKnown' /\ TriesKnown'
  <2>1. account.email = e  BY <1>8 DEF Quiet, ClientKnows
  <2>2. AddressKnown'  BY <1>1, <1>8, <2>1, AddressStays DEF Quiet
  <2>3. TriesKnown'  BY <1>1, <1>8, TriesKnownStays DEF Quiet
  <2>. QED  BY <2>2, <2>3
<1>. QED  BY <1>1, <1>2, <1>3, <1>5, <1>6, <1>7, <1>8, Ended, StepKeeps

LEMMA SendCodeKeeps ==
  ASSUME CredentialsInv, NEW c \in Clients, SendCode(c)
  PROVE  CredentialsInv'
<1>1. CredentialsTypeOK /\ ClientOK(c)  BY DEF CredentialsInv
<1>2. PICK e : e = client[c].to  OBVIOUS
<1>3. PICK i : i = Newest("verify")  OBVIOUS
<1>4. client[c].pc = "send" /\ UNCHANGED <<account, attempts, proved, wrong, excused, reopened>>
  BY DEF SendCode
<1>5. client[c] \in MailCalls /\ e \in Emails /\ account.exists
  BY <1>1, <1>2, <1>4, CallIs DEF MailCalls, ClientOK
<1>6. \/ Replied(c) /\ UNCHANGED <<ticket, mailed>>
      \/ i # 0 /\ Replied(c) /\ ticket' = [ticket EXCEPT ![i].fresh = TRUE] /\ Mail(i, 0, e)
      \/ /\ client' = [client EXCEPT ![c].pc = "create"] /\ UNCHANGED mailed
         /\ ticket' = IF i = 0 THEN ticket ELSE Closed(ticket, i)
  BY <1>2, <1>3, Zenon DEF SendCode
<1>7. CASE Replied(c) /\ UNCHANGED <<ticket, mailed>>
  <2>1. TriesStay /\ TicketRows' = TicketRows  BY <1>1, <1>4, <1>7, TableStays
  <2>2. Len(ticket) \in Nat  BY <1>1 DEF CredentialsTypeOK
  <2>. QED  BY <1>1, <1>2, <1>4, <1>5, <1>7, <2>1, <2>2, CodeSentKeeps DEF CredentialsTypeOK
<1>8. CASE i # 0 /\ Replied(c) /\ ticket' = [ticket EXCEPT ![i].fresh = TRUE] /\ Mail(i, 0, e)
  <2>1. i \in TicketRows /\ ticket[i].kind = "verify"  BY <1>1, <1>3, <1>8, NewestIs DEF CredentialsTypeOK
  <2>2. PICK t : t = [ticket[i] EXCEPT !.fresh = TRUE]  OBVIOUS
  <2>3. ticket[i] \in Tickets /\ i \in Nat /\ i \in 1..Len(ticket)  BY <1>1, <2>1 DEF CredentialsTypeOK, TicketRows
  <2>4. /\ t \in Tickets /\ t.kind = ticket[i].kind /\ t.to = ticket[i].to /\ t.tries = ticket[i].tries
        /\ t.open = ticket[i].open
    BY <2>2, <2>3 DEF Tickets
  <2>5. ticket' = [ticket EXCEPT ![i] = t]  BY <1>8, <2>2
  <2>6. Follows(ticket', ticket)
    <3>1. t.open => ticket[i].open  BY <2>4, Zenon
    <3>. QED  BY <1>1, <2>3, <2>4, <2>5, <3>1, RowFollows DEF CredentialsTypeOK
  <2>7. /\ ticket' \in Seq(Tickets) /\ Len(ticket') = Len(ticket) /\ TicketRows' = TicketRows
        /\ \A j \in TicketRows : ticket'[j].kind = ticket[j].kind /\ ticket'[j].to = ticket[j].to
        /\ TriesStay
    BY <1>1, <1>4, <2>6, FollowsStay
  <2>8. /\ mailed \subseteq mailed' /\ mailed' \subseteq Nat \X {0, 1} \X Emails
        /\ \A m \in mailed' : m[1] \in TicketRows'
        /\ \A m \in mailed' : m \in mailed \/ (m[1] = i /\ m[3] = e)
    BY <1>1, <1>5, <1>8, <2>1, <2>3, <2>7, MailSent
  <2>9. \A m \in mailed' : m \in mailed \/ (ticket'[m[1]].kind = "verify" /\ m[3] = e)
    BY <2>1, <2>7, <2>8
  <2>10. wrong' \in Seq(Nat) /\ Len(wrong') = Len(ticket') /\ Len(ticket) <= Len(ticket')
    BY <1>1, <1>4, <2>7 DEF CredentialsTypeOK
  <2>. QED  BY <1>2, <1>4, <1>5, <1>8, <2>7, <2>8, <2>9, <2>10, CodeSentKeeps
<1>9. CASE /\ client' = [client EXCEPT ![c].pc = "create"] /\ UNCHANGED mailed
           /\ ticket' = IF i = 0 THEN ticket ELSE Closed(ticket, i)
  <2>1. Follows(ticket', ticket)
    <3>1. PICK rows : rows = IF i = 0 THEN ticket ELSE Closed(ticket, i)  OBVIOUS
    <3>2. Follows(rows, ticket)  BY <1>1, <1>3, <3>1, NewestClosed DEF CredentialsTypeOK
    <3>3. ticket' = rows  BY <1>9, <3>1
    <3>. QED  BY <3>2, <3>3
  <2>2. Quiet => AddressKnown'  BY <1>1, <1>4, <1>9, <2>1, AddressStaysClosing DEF Quiet
  <2>3. PICK x : x = [client[c] EXCEPT !.pc = "create"]  OBVIOUS
  <2>4. x \in MailCalls /\ x.pc = "create" /\ x.to = e  BY <1>2, <1>5, <2>3 DEF MailCalls
  <2>5. client' \in [Clients -> AnyCall] /\ client'[c] = x /\ Others(c)
    BY <1>1, <1>9, <2>3, <2>4, PcSet DEF AnyCall
  <2>6. ClientOK(c)'  BY <1>4, <1>5, <2>4, <2>5 DEF ClientOK
  <2>7. Quiet => ClientKnows(c)'  BY <1>2, <1>4, <2>4, <2>5 DEF Quiet, ClientKnows
  <2>. QED  BY <1>1, <1>4, <1>5, <1>9, <2>1, <2>2, <2>5, <2>6, <2>7, ClosingRequestKeeps DEF CredentialsTypeOK
<1>. QED  BY <1>6, <1>7, <1>8, <1>9

LEMMA CreateCodeKeeps ==
  ASSUME CredentialsInv, NEW c \in Clients, CreateCode(c)
  PROVE  CredentialsInv'
<1> USE DEF CreateCode, Create
<1>1. CredentialsTypeOK /\ Follows(ticket, ticket)  BY DEF CredentialsInv, CredentialsTypeOK, Follows
<1>2. PICK e : e = client[c].to  OBVIOUS
<1>3. e \in Emails  BY <1>1, <1>2, CallIs DEF MailCalls
<1>4. PICK n : n = Len(ticket')  OBVIOUS
<1>5. /\ ticket' \in Seq(Tickets) /\ n = Len(ticket) + 1
      /\ wrong' \in Seq(Nat) /\ Len(wrong') = n
      /\ \A j \in TicketRows : ticket'[j].kind = ticket[j].kind /\ ticket'[j].to = ticket[j].to
      /\ TicketRows \subseteq TicketRows' /\ n \in TicketRows' /\ ticket'[n].kind = "verify"
      /\ TriesStay
  BY <1>1, <1>2, <1>3, <1>4, TicketAdded
<1>6. Len(ticket) \in Nat  BY <1>1 DEF CredentialsTypeOK
<1>7. n \in Nat /\ Len(ticket) <= Len(ticket') /\ Len(wrong') = Len(ticket')  BY <1>4, <1>5, <1>6
<1>8. Mail(n, 0, e)  BY <1>2, <1>4, Zenon
<1>9. /\ mailed \subseteq mailed' /\ mailed' \subseteq Nat \X {0, 1} \X Emails
      /\ \A m \in mailed' : m[1] \in TicketRows'
      /\ \A m \in mailed' : m \in mailed \/ (m[1] = n /\ m[3] = e)
  BY <1>1, <1>3, <1>5, <1>7, <1>8, MailSent
<1>10. \A m \in mailed' : m \in mailed \/ (ticket'[m[1]].kind = "verify" /\ m[3] = e)
  BY <1>5, <1>9
<1>. QED  BY <1>2, <1>3, <1>5, <1>7, <1>9, <1>10, CodeSentKeeps

LEMMA IssueKeeps ==
  ASSUME CredentialsInv, NEW c \in Clients, NEW kind \in {"reset", "change"}, NEW e \in Emails, Issue(c, kind, e)
  PROVE  CredentialsInv'
BY AddingKeeps DEF Issue

LEMMA CredentialsNextHolds ==
  ASSUME CredentialsInv, [CredentialsNext]_credentials
  PROVE  CredentialsInv'
<1>1. CASE UNCHANGED credentials
  BY <1>1, NothingChanges DEF credentials
<1>2. ASSUME NEW c \in Clients, NEW e \in Emails, Register(c, e) \/ ReadCredentials(c, e)
      PROVE  CredentialsInv'
  BY <1>2, RegisterKeeps, ReadCredentialsKeeps
<1>3. ASSUME NEW c \in Clients, Resend(c) \/ WriteCredentials(c) \/ SendCode(c) \/ CreateCode(c)
      PROVE  CredentialsInv'
  BY <1>3, ResendKeeps, WriteCredentialsKeeps, SendCodeKeeps, CreateCodeKeeps
<1>4. ASSUME NEW c \in Clients, NEW i \in 1..Len(ticket), NEW box \in Emails \cup {NoEmail}, EnterCode(c, i, box)
      PROVE  CredentialsInv'
  BY <1>4, EnterCodeKeeps DEF TicketRows
<1>5. ASSUME NEW c \in Clients, Late(c) \/ WrongAnswer(c) \/ UseCode(c) \/ Activate(c)
      PROVE  CredentialsInv'
  BY <1>5, LateKeeps, WrongAnswerKeeps, UseCodeKeeps, ActivateKeeps
<1>6. ASSUME NEW c \in Clients, ChangePassword(c) \/ UseReset(c) \/ ChangeEmail(c)
      PROVE  CredentialsInv'
  BY <1>6, ChangePasswordKeeps, UseResetKeeps, ChangeEmailKeeps
<1>7. ASSUME NEW c \in Clients, NEW right \in BOOLEAN, Login(c, right)
      PROVE  CredentialsInv'
  BY <1>7, LoginKeeps
<1>8. ASSUME NEW c \in Clients, RecordAttempt(c) \/ CountFailures(c) \/ Abort(c)
      PROVE  CredentialsInv'
  BY <1>8, RecordAttemptKeeps, CountFailuresKeeps, AbortKeeps
<1>9. ASSUME NEW c \in Clients, NEW e \in Emails,
             RequestReset(c, e) \/ StartChange(c, e) \/ \E kind \in {"reset", "change"} : Issue(c, kind, e)
      PROVE  CredentialsInv'
  BY <1>9, RequestResetKeeps, StartChangeKeeps, IssueKeeps
<1>10. ASSUME NEW e \in Emails, ReplaceEmail(e) \/ OtherTakes(e) PROVE CredentialsInv'
  BY <1>10, ReplaceEmailKeeps, NothingChanges DEF OtherTakes
<1>13. ASSUME NEW c \in Clients, IssueFails(c) PROVE CredentialsInv'
  BY <1>13, NothingChanges DEF IssueFails
<1>11. ASSUME NEW i \in 1..Len(ticket), ResendChange(i) \/ CloseChange(i) \/ Age(i)
       PROVE  CredentialsInv'
  BY <1>11, ResendChangeKeeps, CloseChangeKeeps, AgeKeeps DEF TicketRows
<1>12. CASE Unblock
  BY <1>12, UnblockKeeps
<1>. QED  BY <1>1, <1>2, <1>3, <1>4, <1>5, <1>6, <1>7, <1>8, <1>9, <1>10, <1>11, <1>12, <1>13, Zenon DEF CredentialsNext

LEMMA CredentialsAlways == CredentialsSpec => []CredentialsInv
BY CredentialsInitHolds, CredentialsNextHolds, PTL DEF CredentialsSpec

\* The address of an active account was proved (EmailIsProved), for any addresses, limits and
\* number of requests: an address that is not proved is of an account that is not active, and every
\* verification code went to that very address.
THEOREM ActiveAddressesAreProved == CredentialsSpec => []EmailIsProved
<1>1. CredentialsInv => EmailIsProved
  BY DEF CredentialsInv, Quiet, AddressKnown, EmailIsProved
<1>. QED  BY <1>1, CredentialsAlways, PTL

\* Guesses of a code and of a password are limited (GuessesAreLimited), for any limits: the tries
\* of a ticket are the wrong answers to it, and what a login has counted is on record.
THEOREM GuessesStayLimited == CredentialsSpec => []GuessesAreLimited
<1>1. CredentialsInv => GuessesAreLimited
  BY DEF CredentialsInv, Quiet, TriesKnown, GuessesAreLimited, TriesAreLimited, TicketRows
<1>. QED  BY <1>1, CredentialsAlways, PTL

=============================================================================
