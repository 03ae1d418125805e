---------------------------- MODULE MCSettling ----------------------------
(***************************************************************************)
(* Messengers and what follows from a message: the sign-in by a            *)
(* messenger's QR code, the verification of a phone, the reminders of      *)
(* appeals; and the caches of QR codes.  One part runs, the others stay    *)
(* where they started, with nothing pending.                               *)
(***************************************************************************)
EXTENDS MessengerAuth, Appeals, QrCodes, TLC

VARIABLE part   \* the part that runs

Parts == {"signIn", "phones", "newAccount", "appeals", "codes"}

----------------------------------------------------------------------------
(* Sign-in: two accounts of one messenger; the owner of a phone has none.  *)

CONSTANTS u1, u2, tg, tg2, max, p1, p2

MCProviderOf == (tg :> "TELEGRAM") @@ (tg2 :> "TELEGRAM") @@ (max :> "MAX")
Person(phone_, telegram_, max_) ==
  [phone |-> phone_, link |-> ("TELEGRAM" :> telegram_) @@ ("MAX" :> max_)]
SignInUsers == (u1 :> Person(p1, Null, Null)) @@ (u2 :> Null)
SignInOnly ==
  phone' = phone /\ \A r \in Requests : call'[r].via = Null /\ call'[r].a # max

----------------------------------------------------------------------------
(* Phones: both messengers have owners, one of them without a phone; the   *)
(* second number is the one to be verified.  In newAccount nobody has the  *)
(* account of MAX yet, the only one in use, and there is one more request. *)

PhonesUsers == (u1 :> Person(p1, tg, Null)) @@ (u2 :> Person(Null, Null, max))
NewAccountUsers == (u1 :> Person(p1, tg, Null)) @@ (u2 :> Person(Null, Null, Null))
NoSignIn ==
  /\ qr' = qr /\ faults' = faults
  /\ \A r \in Requests : call'[r].a # tg2 /\ (call'[r].via # Null => call'[r].p = p2)
PhonesOnly == NoSignIn /\ budget' > 0
NewAccountOnly == NoSignIn /\ \A r \in Requests : call'[r].a # tg /\ call'[r].via # "TELEGRAM"

MCInitialUsers == {SignInUsers, PhonesUsers, NewAccountUsers}

----------------------------------------------------------------------------
(* Appeals: the worker is the manager of the department it works in.       *)

CONSTANTS author, manager, d1, d2

MCManagerOf == (author :> {}) @@ (manager :> {d1})
MCEmployeeOf == (author :> NoValue) @@ (manager :> d1)

----------------------------------------------------------------------------
MCInit ==
  /\ part \in Parts /\ Init /\ AppealsInit /\ QrInit
  /\ user = CASE part = "phones" -> PhonesUsers [] part = "newAccount" -> NewAccountUsers
              [] OTHER -> SignInUsers

MCNext ==
  /\ UNCHANGED part
  /\ CASE part = "signIn" -> Next /\ SignInOnly
       [] part = "phones" -> Next /\ PhonesOnly
       [] part = "newAccount" -> Next /\ NewAccountOnly
       [] OTHER -> UNCHANGED vars
  /\ IF part = "appeals" THEN AppealsNext ELSE UNCHANGED appeals
  /\ IF part = "codes" THEN QrNext ELSE UNCHANGED codeVars

MCSpec ==
  /\ MCInit /\ [][MCNext]_<<part, vars, appeals, codeVars>>
  /\ AppealsFairness /\ QrFairness
=============================================================================
