------------------------------ MODULE LoginChain ------------------------------
(***************************************************************************)
(* What rotating refresh tokens promises: a login is carried on by one     *)
(* token at a time, each new one takes the place of the one before, and no *)
(* token is ever used again.  A login whose tokens were presented by two   *)
(* requests at a time is released from the promise.                        *)
(***************************************************************************)
CONSTANTS
  Logins,   \* logins
  Tokens,   \* refresh tokens
  NoToken   \* the login has no token

VARIABLES
  state,    \* state[l]: of the login l
  holder,   \* holder[l]: the token that carries an open login on
  spent     \* tokens that have been handed out

vars == <<state, holder, spent>>

TypeOK ==
  /\ state \in [Logins -> {"unused", "open", "ended", "released"}]
  /\ holder \in [Logins -> Tokens \cup {NoToken}]
  /\ spent \in SUBSET Tokens

Init ==
  /\ state = [l \in Logins |-> "unused"]
  /\ holder = [l \in Logins |-> NoToken]
  /\ spent = {}

HandOut(l, t) ==
  /\ t \notin spent
  /\ spent' = spent \cup {t}
  /\ holder' = [holder EXCEPT ![l] = t]

Open(l, t) ==
  /\ state[l] = "unused"
  /\ state' = [state EXCEPT ![l] = "open"]
  /\ HandOut(l, t)

Rotate(l, t) ==
  /\ state[l] = "open"
  /\ UNCHANGED state
  /\ HandOut(l, t)

Leave(l, from, to) ==
  /\ state[l] \in from
  /\ state' = [state EXCEPT ![l] = to]
  /\ holder' = [holder EXCEPT ![l] = NoToken]
  /\ UNCHANGED spent

\* Logged out, expired, or the answer with the new token was lost.
End(l) == Leave(l, {"open"}, "ended")

Release(l) == Leave(l, {"open", "ended"}, "released")

RotateReleased(l, t) ==
  /\ state[l] = "released" /\ t \notin spent
  /\ spent' = spent \cup {t}
  /\ UNCHANGED <<state, holder>>

Next ==
  \E l \in Logins :
    \/ \E t \in Tokens : Open(l, t) \/ Rotate(l, t) \/ RotateReleased(l, t)
    \/ End(l) \/ Release(l)

Spec == Init /\ [][Next]_vars

=============================================================================
