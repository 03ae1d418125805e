------------------------------ MODULE MCPeople ------------------------------
(***************************************************************************)
(* The parts that decide who a user is, side by side: the tokens of a      *)
(* session, the credentials of an account, the profiles of a person.  No   *)
(* handler of one part writes the rows of another, so one of them runs in  *)
(* each behaviour and the others stay where they started.                  *)
(***************************************************************************)
EXTENDS RefreshTokens, Credentials, Profiles, TLC

VARIABLE part   \* the part that runs

----------------------------------------------------------------------------
(* Profiles: an agreement with a counterparty and a contract, one with     *)
(* neither, an address of the other counterparty.                          *)

CONSTANTS d1, d2, cp1, cp2, a1, a2, k1, k2, w1, w2, ad1

MCAgreementOf ==
  (a1 :> [counterparty |-> cp1, contract |-> k1, warehouse |-> None]) @@
  (a2 :> [counterparty |-> None, contract |-> None, warehouse |-> w1])
MCContractOwner == (k1 :> cp1) @@ (k2 :> cp2)
MCAddressOwner == (ad1 :> cp2)
Body(cp, a, k, w, ad) ==
  [counterparty |-> cp, agreement |-> a, contract |-> k, warehouse |-> w, address |-> ad]
MCClientRequests ==
  {Body(None, a1, None, w1, None), Body(cp2, a1, None, None, None), Body(None, a1, k2, None, None),
   Body(None, a2, k2, None, ad1), Body(cp1, None, None, None, ad1), Body(None, None, k2, w2, ad1)}

----------------------------------------------------------------------------
Parts == {"tokens", "rotations", "credentials", "profiles"}

\* Tokens: two of them with sessions and two users, or three of one user
\* without sessions that do not expire, so that one token may be rotated twice.
TwoTokens == Cardinality({t \in Tokens : row'[t] # Null}) <= 2
OneUser ==
  /\ \A t \in Tokens : row'[t] # Null => ~row'[t].expired
  /\ \A t, v \in Tokens : row'[t] # Null /\ row'[v] # Null => row'[t].user = row'[v].user
  /\ \A q \in Requests : /\ call'[q].install = Null /\ call'[q].session = Null
                         /\ call'[q].user # Null =>
                              \A t \in Tokens : row'[t] # Null => row'[t].user = call'[q].user

MCInit ==
  /\ part \in Parts
  /\ Init
  /\ Cardinality({t \in Tokens : row[t] # Null}) <= IF part \in {"tokens", "rotations"} THEN 1 ELSE 0
  /\ CredentialsInit /\ (part # "credentials" => account.exists)
  /\ ProfilesInit

\* Bound: a second code, created or to be created, only where less is entered.
Issuing == Cardinality({c \in Clients : issuer[c] # NotBusy}) + Cardinality({c \in Clients : client[c].pc = "create"})
Effort == entries' + Len(ticket') + Issuing' <= MaxEntries + 1

MCNext ==
  /\ UNCHANGED part
  /\ CASE part = "tokens" -> Next /\ TwoTokens
       [] part = "rotations" -> Next /\ OneUser
       [] OTHER -> UNCHANGED vars
  /\ IF part = "credentials" THEN CredentialsNext /\ Effort ELSE UNCHANGED credentials
  /\ IF part = "profiles" THEN ProfilesNext ELSE UNCHANGED profiles

MCSpec == MCInit /\ [][MCNext]_<<part, vars, credentials, profiles>>

\* Users and addresses share their names, and so do the requests of all parts,
\* so that one permutation renames both.
MCSymmetry == Permutations(Users) \cup Permutations(Tokens) \cup Permutations(Requests)
=============================================================================
