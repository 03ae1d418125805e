--------------------------- MODULE TokenFamilies ---------------------------
(***************************************************************************)
(* What the refresh tokens of the API promise: a sign-in starts a family,  *)
(* using the token of a family puts the next one in its place, and a       *)
(* family that was ended never comes back.  A family is named after its    *)
(* first token.                                                            *)
(***************************************************************************)
CONSTANT Tokens

VARIABLES
  usable,   \* the tokens of a family that can be used
  issued    \* the tokens handed out

Init ==
  /\ issued \subseteq Tokens
  /\ usable = [f \in Tokens |-> IF f \in issued THEN {f} ELSE {}]

Start(t) ==
  /\ t \notin issued
  /\ issued' = issued \cup {t}
  /\ usable' = [usable EXCEPT ![t] = {t}]

Rotate(f, t) ==
  /\ usable[f] # {} /\ t \notin issued
  /\ issued' = issued \cup {t}
  /\ usable' = [usable EXCEPT ![f] = {t}]

\* A token from before there were families moves into one.
Adopt(f, t) ==
  /\ usable[f] = {f} /\ t \notin issued
  /\ issued' = issued \cup {t}
  /\ usable' = [usable EXCEPT ![f] = {}, ![t] = {t}]

End(f) ==
  /\ usable[f] # {}
  /\ usable' = [usable EXCEPT ![f] = {}]
  /\ UNCHANGED issued

Next ==
  \/ \E t \in Tokens : Start(t) \/ End(t)
  \/ \E f, t \in Tokens : Rotate(f, t) \/ Adopt(f, t)

Spec == Init /\ [][Next]_<<usable, issued>>

=============================================================================
