-------------------------------- MODULE Tokens --------------------------------
(***************************************************************************)
(* Logins and the rotation of refresh tokens.                              *)
(*                                                                         *)
(* A refresh looks the token up, looks the user up, looks the token up     *)
(* again, stores the next token, revokes the one that was presented and    *)
(* answers: five statements without a transaction, any of which may be the *)
(* last.  Signatures, hashes and passwords are left out: a call that they  *)
(* refuse writes nothing.                                                  *)
(***************************************************************************)
EXTENDS Naturals, FiniteSets

CONSTANTS
  Users,      \* users
  Logins,     \* logins, each used once
  MaxTokens,  \* how many tokens are issued in a behaviour
  Procs,      \* concurrent requests
  MaxFaults,  \* how many requests die or lose their answer
  NoLogin     \* the login of a token that is not issued

ASSUME MaxTokensNat == MaxTokens \in Nat
ASSUME MaxFaultsNat == MaxFaults \in Nat
ASSUME NoLoginNew == NoLogin \notin Logins

VARIABLES
  active,     \* users with is_active
  owner,      \* owner[l]: the user that logs in
  issued,     \* rows of refresh_tokens so far
  revoked,    \* rows with revoked_at
  overdue,    \* rows whose expires_at has passed
  known,      \* tokens that a client has received
  proc,       \* proc[p]: local state of a handler
  faults,     \* faults so far
  family,     \* history: family[t] is the login that t descends from
  contended,  \* history: logins that two requests worked on at a time
  closed,     \* history: logins that were logged out, expired, or lost an answer
  late        \* history: requests that found a user active who is not any more

rows == <<active, owner, issued, revoked, overdue>>
history == <<family, contended, closed, late>>
vars == <<active, owner, issued, revoked, overdue, known, proc, faults, family, contended, closed, late>>

-----------------------------------------------------------------------------

Tokens == 1..MaxTokens

Idle == [pc |-> "idle"]

ProcRun ==
       [pc : {"login"}, login : Logins]
  \cup [pc : {"user", "resolve", "issue", "expire", "logout"}, token : Tokens]
  \cup [pc : {"revoke"}, token : Tokens, next : Tokens]

(* Every row and every local state is one the program can name.             *)
TypeOK ==
  /\ active \in SUBSET Users
  /\ owner \in [Logins -> Users]
  /\ issued \in 0..MaxTokens
  /\ revoked \in SUBSET (1..issued)
  /\ overdue \in SUBSET (1..issued)
  /\ known \in SUBSET (1..issued)
  /\ proc \in [Procs -> ProcRun \cup {Idle}]
  /\ faults \in 0..MaxFaults
  /\ family \in [Tokens -> Logins \cup {NoLogin}]
  /\ contended \in SUBSET Logins
  /\ closed \in SUBSET Logins
  /\ late \in SUBSET Procs

Init ==
  /\ active = Users
  /\ owner \in [Logins -> Users]
  /\ issued = 0 /\ revoked = {} /\ overdue = {}
  /\ known = {}
  /\ proc = [p \in Procs |-> Idle]
  /\ faults = 0
  /\ family = [t \in Tokens |-> NoLogin]
  /\ contended = {} /\ closed = {} /\ late = {}

\* findActiveByHash, with the date that its callers compare.
Usable(t) == t \in 1..issued /\ t \notin revoked

\* Tokens that a refresh has found in time: they may expire meanwhile.
InTime == {proc[p].token : p \in {q \in Procs : proc[q].pc \in {"issue", "revoke"}}}

\* What carries the login on.
Live(l) == {t \in known \ revoked : family[t] = l /\ (t \in InTime \/ t \notin overdue)}

\* Requests that a token of l was presented to.
Working(l) == {p \in Procs : proc[p].pc \notin {"idle", "login"} /\ family[proc[p].token] = l}

Become(p, state) ==
  /\ proc' = [proc EXCEPT ![p] = state]
  /\ late' = IF state = Idle THEN late \ {p} ELSE late

Go(p, pc) == Become(p, [pc |-> pc, token |-> proc[p].token])

Begin(p, state) == proc[p] = Idle /\ Become(p, state)

\* A request presents a token that has a row which is not revoked.
Present(p, t, pc) ==
  /\ t \in known /\ Usable(t)
  /\ Begin(p, [pc |-> pc, token |-> t])
  /\ contended' = IF Working(family[t]) = {} THEN contended ELSE contended \cup {family[t]}
  /\ UNCHANGED <<rows, known, faults, family, closed>>

\* refreshRepo.create: the next row, a token of login l.
Insert(l) ==
  /\ issued < MaxTokens
  /\ issued' = issued + 1
  /\ family' = [family EXCEPT ![issued + 1] = l]

\* refreshRepo.revoke, by id, whatever the row has become.
Revoke(t) == revoked' = revoked \cup {t}

-----------------------------------------------------------------------------
(* login                                                                    *)

LoginLook(p, l) ==
  /\ \A t \in Tokens : family[t] # l
  /\ \A q \in Procs : proc[q].pc = "login" => proc[q].login # l
  /\ owner[l] \in active
  /\ Begin(p, [pc |-> "login", login |-> l])
  /\ UNCHANGED <<rows, known, faults, family, contended, closed>>

LoginIssue(p) ==
  /\ proc[p].pc = "login"
  /\ Insert(proc[p].login)
  /\ known' = known \cup {issued + 1}
  /\ Become(p, Idle)
  /\ UNCHANGED <<active, owner, revoked, overdue, faults, contended, closed>>

-----------------------------------------------------------------------------
(* refresh: resolveActiveRefreshToken, users.getById, and rotateRefreshToken *)
(* with a resolveActiveRefreshToken of its own.                              *)

Refresh(p, t) == Present(p, t, IF t \in overdue THEN "expire" ELSE "user")

\* Mutant: who is not active any more gets tokens as before.
RefreshUserUnasked(p) ==
  /\ proc[p].pc = "user"
  /\ Go(p, "resolve")
  /\ UNCHANGED <<rows, known, faults, family, contended, closed>>

RefreshUser(p) ==
  /\ proc[p].pc = "user"
  /\ IF owner[family[proc[p].token]] \in active THEN Go(p, "resolve") ELSE Become(p, Idle)
  /\ UNCHANGED <<rows, known, faults, family, contended, closed>>

RefreshResolve(p) ==
  /\ proc[p].pc = "resolve"
  /\ LET t == proc[p].token
     IN  \/ ~Usable(t) /\ Become(p, Idle)
         \/ Usable(t) /\ Go(p, IF t \in overdue THEN "expire" ELSE "issue")
  /\ UNCHANGED <<rows, known, faults, family, contended, closed>>

\* Mutant: the token is revoked before the next one is stored.
RevokeFirst(p) ==
  /\ proc[p].pc = "issue"
  /\ LET t == proc[p].token
     IN  /\ Insert(family[t])
         /\ Revoke(t)
         /\ Become(p, [pc |-> "revoke", token |-> t, next |-> issued + 1])
  /\ UNCHANGED <<active, owner, overdue, known, faults, contended, closed>>

\* Mutant: the handler forgets which token it has stored.
IssueUnnamed(p) ==
  /\ proc[p].pc = "issue"
  /\ Insert(family[proc[p].token])
  /\ Become(p, [pc |-> "revoke", token |-> proc[p].token])
  /\ UNCHANGED <<active, owner, revoked, overdue, known, faults, contended, closed>>

RefreshIssue(p) ==
  /\ proc[p].pc = "issue"
  /\ LET t == proc[p].token
     IN  /\ Insert(family[t])
         /\ Become(p, [pc |-> "revoke", token |-> t, next |-> issued + 1])
  /\ UNCHANGED <<active, owner, revoked, overdue, known, faults, contended, closed>>

\* Mutant: the old token stays.
AnswerOnly(p) ==
  /\ proc[p].pc = "revoke"
  /\ known' = known \cup {proc[p].next}
  /\ Become(p, Idle)
  /\ UNCHANGED <<rows, faults, family, contended, closed>>

RefreshRevoke(p) ==
  /\ proc[p].pc = "revoke"
  /\ Revoke(proc[p].token)
  /\ known' = known \cup {proc[p].next}
  /\ Become(p, Idle)
  /\ UNCHANGED <<active, owner, issued, overdue, faults, family, contended, closed>>

RefreshExpire(p) ==
  /\ proc[p].pc = "expire"
  /\ Revoke(proc[p].token)
  /\ Become(p, Idle)
  /\ UNCHANGED <<active, owner, issued, overdue, known, faults, family, contended, closed>>

-----------------------------------------------------------------------------
(* logout: revokeRefreshToken                                               *)

Logout(p, t) == Present(p, t, "logout")

LogoutRevoke(p) ==
  /\ proc[p].pc = "logout"
  /\ Revoke(proc[p].token)
  /\ closed' = closed \cup {family[proc[p].token]}
  /\ Become(p, Idle)
  /\ UNCHANGED <<active, owner, issued, overdue, known, faults, family, contended>>

-----------------------------------------------------------------------------
(* Around them: updateInSchool, time, and faults.                           *)

\* The requests that have asked for u, and not yet answered.
Admitted(u) ==
  {p \in Procs : \/ proc[p].pc = "login" /\ owner[proc[p].login] = u
                 \/ proc[p].pc \in {"resolve", "issue", "revoke"} /\ owner[family[proc[p].token]] = u}

SetActive(u, isActive) ==
  /\ active' = IF isActive THEN active \cup {u} ELSE active \ {u}
  /\ active' # active
  /\ late' = IF isActive THEN late ELSE late \cup Admitted(u)
  /\ UNCHANGED <<owner, issued, revoked, overdue, known, proc, faults, family, contended, closed>>

\* Tokens live for days: none expires before its client has received it.
TimePasses(t) ==
  /\ t \in known \ (revoked \cup overdue)
  /\ overdue' = overdue \cup {t}
  /\ closed' = closed \cup {family[t]}
  /\ UNCHANGED <<active, owner, issued, revoked, known, proc, faults, family, contended, late>>

\* A statement fails, or the server stops.
Dies(p) ==
  /\ proc[p] # Idle /\ faults < MaxFaults
  /\ faults' = faults + 1
  /\ Become(p, Idle)
  /\ UNCHANGED <<rows, known, family, contended, closed>>

\* The last statement of a refresh is done and the client does not hear of it.
AnswerLost(p) ==
  /\ proc[p].pc = "revoke" /\ faults < MaxFaults
  /\ faults' = faults + 1
  /\ Revoke(proc[p].token)
  /\ closed' = closed \cup {family[proc[p].token]}
  /\ Become(p, Idle)
  /\ UNCHANGED <<active, owner, issued, overdue, known, family, contended>>

-----------------------------------------------------------------------------
Step(p) ==
  \/ LoginIssue(p)
  \/ RefreshUser(p) \/ RefreshResolve(p) \/ RefreshIssue(p) \/ RefreshRevoke(p) \/ RefreshExpire(p)
  \/ LogoutRevoke(p)

Next ==
  \/ \E p \in Procs :
       \/ Step(p) \/ Dies(p) \/ AnswerLost(p)
       \/ \E l \in Logins : LoginLook(p, l)
       \/ \E t \in Tokens : Refresh(p, t) \/ Logout(p, t)
  \/ \E u \in Users, b \in BOOLEAN : SetActive(u, b)
  \/ \E t \in Tokens : TimePasses(t)

Spec == Init /\ [][Next]_vars

-----------------------------------------------------------------------------
(* Properties.                                                              *)

\* The login as LoginChain sees it: a token counts once its client has it.
LoginState(l) ==
  IF l \in contended THEN "released"
  ELSE IF \A t \in known : family[t] # l THEN "unused"
  ELSE IF Live(l) = {} THEN "ended"
  ELSE "open"

NoToken == 0
Holder(l) == IF LoginState(l) = "open" THEN CHOOSE t \in Live(l) : TRUE ELSE NoToken

Chain == INSTANCE LoginChain
  WITH state <- [l \in Logins |-> LoginState(l)],
       holder <- [l \in Logins |-> Holder(l)],
       spent <- known

(* To its clients a refresh is one step that replaces one token by another, *)
(* although the handler stores the new token before it revokes the old one  *)
(* and may die between the two: a login has one usable token at a time,     *)
(* unless two requests present tokens of it at a time.                      *)
KeepsOneToken == Chain!Spec

(* A fault never takes the last token from a client: a login that was not   *)
(* logged out, has not expired and whose answers arrived can be refreshed,  *)
(* also when several requests present its token at a time.                  *)
LoginSurvives ==
  \A l \in Logins \ closed :
    (\E t \in known : family[t] = l) => Live(l) # {}

(* A user who was deactivated gets no tokens any more, from no device: only *)
(* from requests that had found the user active before.                     *)
InactiveGetNone ==
  [][\A t \in known' \ known :
       owner[family'[t]] \in active \/ \E p \in late : proc'[p] # proc[p]]_vars

=============================================================================
