------------------------------ MODULE TokensProofs ------------------------------
(***************************************************************************)
(* What rotation keeps, for any number of logins, tokens, requests and     *)
(* faults: a fault never takes the last token of a login, who was          *)
(* deactivated gets none, and Tokens implements LoginChain.                *)
(***************************************************************************)
EXTENDS Tokens, TLAPS

-----------------------------------------------------------------------------
(* Types.                                                                   *)

TokenPcs == {"user", "resolve", "issue", "expire", "logout"}

LEMMA ProcType ==
  ASSUME TypeOK, NEW p \in Procs, proc[p].pc # "idle"
  PROVE  proc[p] \in ProcRun
BY DEF TypeOK, Idle

LEMMA TokenHas ==
  ASSUME TypeOK, NEW p \in Procs, proc[p].pc \in TokenPcs \cup {"revoke"}
  PROVE  proc[p].token \in Tokens
<1>1. proc[p] \in ProcRun
  BY ProcType DEF TokenPcs
<1>2. QED
  BY <1>1 DEF ProcRun, TokenPcs

LEMMA NextHas ==
  ASSUME TypeOK, NEW p \in Procs, proc[p].pc = "revoke"
  PROVE  proc[p].next \in Tokens
<1>1. proc[p] \in ProcRun
  BY ProcType
<1>2. QED
  BY <1>1 DEF ProcRun

LEMMA LoginHas ==
  ASSUME TypeOK, NEW p \in Procs, proc[p].pc = "login"
  PROVE  proc[p].login \in Logins
<1>1. proc[p] \in ProcRun
  BY ProcType
<1>2. QED
  BY <1>1 DEF ProcRun

LEMMA BecomeType ==
  ASSUME TypeOK, NEW p \in Procs, NEW state \in ProcRun \cup {Idle}, Become(p, state)
  PROVE  proc' \in [Procs -> ProcRun \cup {Idle}] /\ late' \in SUBSET Procs
BY DEF Become, TypeOK

LEMMA BecomeIs ==
  ASSUME TypeOK, NEW p \in Procs, NEW state, Become(p, state)
  PROVE  proc'[p] = state /\ \A q \in Procs \ {p} : proc'[q] = proc[q]
BY DEF Become, TypeOK

LEMMA EndIs ==
  ASSUME TypeOK, NEW p \in Procs, Become(p, Idle)
  PROVE  /\ proc'[p] = Idle /\ proc'[p].pc = "idle"
         /\ \A q \in Procs \ {p} : proc'[q] = proc[q] /\ (q \in late => q \in late')
<1>1. proc'[p] = Idle /\ \A q \in Procs \ {p} : proc'[q] = proc[q]
  BY DEF Become, TypeOK
<1>2. late' = late \ {p}
  BY DEF Become
<1>3. QED
  BY <1>1, <1>2 DEF Idle

LEMMA InsertIs ==
  ASSUME TypeOK, NEW l \in Logins, Insert(l)
  PROVE  /\ issued + 1 \in Tokens /\ issued + 1 \notin 1..issued
         /\ issued' = issued + 1 /\ issued' \in 0..MaxTokens
         /\ 1..issued \subseteq 1..issued'
         /\ family'[issued + 1] = l
         /\ \A t \in 1..issued : family'[t] = family[t]
         /\ family' \in [Tokens -> Logins \cup {NoLogin}]
BY MaxTokensNat DEF TypeOK, Insert, Tokens

-----------------------------------------------------------------------------
(* What rows and requests know of each other: a request has what it was     *)
(* given, a token that is stored and not answered yet is known to nobody,   *)
(* and who has been admitted is active, or is late.                         *)

RowsAgree ==
  /\ \A t \in 1..issued : family[t] \in Logins
  /\ revoked \subseteq known /\ overdue \subseteq known
  /\ \A t \in overdue : family[t] \in closed
  /\ \A l \in contended : \E t \in known : family[t] = l

Holding(p) ==
  /\ proc[p].pc \in TokenPcs \cup {"revoke"} => proc[p].token \in known
  /\ proc[p].pc = "expire" => proc[p].token \in overdue
  /\ proc[p].pc = "revoke" =>
       proc[p].next \in (1..issued) \ known /\ family[proc[p].next] = family[proc[p].token]
  /\ proc[p].pc = "login" => \A t \in Tokens : family[t] # proc[p].login

Admitting(p) ==
  /\ proc[p].pc = "login" => owner[proc[p].login] \in active \/ p \in late
  /\ proc[p].pc \in {"resolve", "issue", "revoke"} =>
       owner[family[proc[p].token]] \in active \/ p \in late

Apart ==
  \A p, q \in Procs :
    p # q /\ proc[p].pc = proc[q].pc =>
      /\ proc[p].pc = "revoke" => proc[p].next # proc[q].next
      /\ proc[p].pc = "login" => proc[p].login # proc[q].login

Knowing == RowsAgree /\ Apart /\ \A p \in Procs : Holding(p) /\ Admitting(p)

\* Steps that issue no token and hand none out, and a request that knows where
\* it has come to.
LEMMA MoveKnowing ==
  ASSUME TypeOK, Knowing, NEW p \in Procs,
         UNCHANGED <<active, owner, issued, overdue, known, family>>,
         \A q \in Procs \ {p} : proc'[q] = proc[q] /\ (q \in late => q \in late'),
         revoked' \subseteq revoked \cup known, closed \subseteq closed',
         contended' \subseteq contended \cup {family[t] : t \in known},
         Holding(p)', Admitting(p)', proc'[p].pc # "revoke",
         proc'[p].pc = "login" => \A q \in Procs : proc[q].pc = "login" => proc[q].login # proc'[p].login
  PROVE  Knowing'
<1>1. RowsAgree'
  BY DEF Knowing, RowsAgree
<1>2. Apart'
  BY DEF Knowing, Apart
<1>3. ASSUME NEW q \in Procs PROVE Holding(q)' /\ Admitting(q)'
  <2>1. CASE q # p
    BY <2>1 DEF Knowing, Holding, Admitting
  <2>2. QED
    BY <2>1
<1>4. QED
  BY <1>1, <1>2, <1>3 DEF Knowing

LEMMA MoveType ==
  ASSUME TypeOK, NEW p \in Procs, NEW state \in ProcRun \cup {Idle}, Become(p, state),
         UNCHANGED <<active, owner, issued, overdue, known, family>>,
         revoked' \subseteq revoked \cup known, faults' \in 0..MaxFaults,
         closed' \in SUBSET Logins, contended' \in SUBSET Logins
  PROVE  TypeOK'
BY BecomeType DEF TypeOK

LEMMA KnownIn ==
  ASSUME TypeOK, Knowing, NEW t \in known
  PROVE  t \in Tokens /\ t \in 1..issued /\ family[t] \in Logins
<1>1. t \in 1..issued
  BY DEF TypeOK
<1>2. t \in Tokens
  BY <1>1, MaxTokensNat DEF TypeOK, Tokens
<1>3. QED
  BY <1>1, <1>2 DEF Knowing, RowsAgree

\* What a request holds is a token of some login.
LEMMA HeldIn ==
  ASSUME TypeOK, Knowing, NEW p \in Procs, proc[p].pc \in TokenPcs \cup {"revoke"}
  PROVE  proc[p].token \in known /\ proc[p].token \in Tokens /\ family[proc[p].token] \in Logins
<1>1. proc[p].token \in known
  BY DEF Knowing, Holding
<1>2. QED
  BY <1>1, KnownIn

LEMMA LoginLookKeeps ==
  ASSUME TypeOK, Knowing, NEW p \in Procs, NEW l \in Logins, LoginLook(p, l)
  PROVE  TypeOK' /\ Knowing'
<1>1. /\ UNCHANGED <<active, owner, issued, revoked, overdue, known, faults, family, contended, closed>>
      /\ Become(p, [pc |-> "login", login |-> l])
      /\ owner[l] \in active
      /\ \A t \in Tokens : family[t] # l
      /\ \A q \in Procs : proc[q].pc = "login" => proc[q].login # l
  BY DEF LoginLook, Begin, rows
<1>2. [pc |-> "login", login |-> l] \in ProcRun
  BY DEF ProcRun
<1>3. TypeOK'
  BY <1>1, <1>2, MoveType DEF TypeOK
<1>4. proc'[p].pc = "login" /\ proc'[p].login = l /\ \A q \in Procs \ {p} : proc'[q] = proc[q]
  BY <1>1, BecomeIs
<1>5. late' = late
  BY <1>1 DEF Become, Idle
<1>6. Holding(p)' /\ Admitting(p)'
  BY <1>1, <1>4 DEF Holding, Admitting, TokenPcs
<1>7. Knowing'
  BY <1>1, <1>4, <1>5, <1>6, MoveKnowing
<1>8. QED
  BY <1>3, <1>7

\* A request that ends, or goes on with its token.
LEMMA PresentKeeps ==
  ASSUME TypeOK, Knowing, NEW p \in Procs, NEW t \in Tokens, Refresh(p, t) \/ Logout(p, t)
  PROVE  TypeOK' /\ Knowing'
<1>1. PICK pc \in {"logout", "expire", "user"} : Present(p, t, pc) /\ (pc = "expire" => t \in overdue)
  BY DEF Refresh, Logout
<1>2. /\ UNCHANGED <<active, owner, issued, revoked, overdue, known, faults, family, closed>>
      /\ Become(p, [pc |-> pc, token |-> t])
      /\ t \in known
      /\ contended' \subseteq contended \cup {family[t]}
  BY <1>1 DEF Present, Begin, rows
<1>3. [pc |-> pc, token |-> t] \in ProcRun
  BY DEF ProcRun
<1>4. family[t] \in Logins
  BY <1>2, KnownIn
<1>5. TypeOK'
  BY <1>2, <1>3, <1>4, MoveType DEF TypeOK
<1>6. proc'[p].pc = pc /\ proc'[p].token = t /\ \A q \in Procs \ {p} : proc'[q] = proc[q]
  BY <1>2, BecomeIs
<1>7. \A q \in Procs \ {p} : q \in late => q \in late'
  BY <1>2 DEF Become
<1>8. Holding(p)' /\ Admitting(p)'
  BY <1>1, <1>2, <1>6 DEF Holding, Admitting, TokenPcs
<1>9. Knowing'
  BY <1>2, <1>6, <1>7, <1>8, MoveKnowing
<1>10. QED
  BY <1>5, <1>9

\* Steps that only leave the request somewhere else, or end it.
LEMMA PassKeeps ==
  ASSUME TypeOK, Knowing, NEW p \in Procs, RefreshUser(p) \/ RefreshResolve(p)
  PROVE  TypeOK' /\ Knowing'
<1>1. /\ UNCHANGED <<active, owner, issued, revoked, overdue, known, faults, family, contended, closed>>
      /\ proc[p].pc \in {"user", "resolve"}
  BY DEF RefreshUser, RefreshResolve, rows
<1>2. proc[p].token \in known /\ proc[p].token \in Tokens
  BY <1>1, HeldIn DEF TokenPcs
<1>3. PICK pc \in {"resolve", "issue", "expire", "idle"} :
        /\ Become(p, IF pc = "idle" THEN Idle ELSE [pc |-> pc, token |-> proc[p].token])
        /\ pc = "resolve" => owner[family[proc[p].token]] \in active
        /\ pc = "issue" => proc[p].pc = "resolve"
        /\ pc = "expire" => proc[p].token \in overdue
  <2>1. CASE RefreshUser(p) /\ owner[family[proc[p].token]] \in active
    BY <2>1 DEF RefreshUser, Go
  <2>2. CASE RefreshUser(p) /\ owner[family[proc[p].token]] \notin active
    BY <2>2 DEF RefreshUser, Go
  <2>3. CASE RefreshResolve(p)
    BY <2>3 DEF RefreshResolve, Go
  <2>4. QED
    BY <2>1, <2>2, <2>3
<1>4. CASE pc = "idle"
  <2>1. TypeOK'
    BY <1>1, <1>3, <1>4, MoveType DEF TypeOK
  <2>2. proc'[p].pc = "idle" /\ (\A q \in Procs \ {p} : proc'[q] = proc[q] /\ (q \in late => q \in late'))
    BY <1>3, <1>4, EndIs
  <2>3. Holding(p)' /\ Admitting(p)'
    BY <2>2 DEF Holding, Admitting, TokenPcs
  <2>4. QED
    BY <1>1, <2>1, <2>2, <2>3, MoveKnowing
<1>5. CASE pc # "idle"
  <2>1. [pc |-> pc, token |-> proc[p].token] \in ProcRun
    BY <1>2, <1>5 DEF ProcRun
  <2>2. TypeOK'
    BY <1>1, <1>3, <1>5, <2>1, MoveType DEF TypeOK
  <2>3. /\ proc'[p] = [pc |-> pc, token |-> proc[p].token]
        /\ \A q \in Procs \ {p} : proc'[q] = proc[q]
    BY <1>3, <1>5, BecomeIs
  <2>4. late' = late
    BY <1>3, <1>5 DEF Become, Idle
  <2>5. proc'[p].pc = pc /\ proc'[p].token = proc[p].token
    BY <2>3
  <2>6. Admitting(p)'
    BY <1>1, <1>3, <1>5, <2>4, <2>5 DEF Knowing, Admitting
  <2>7. Holding(p)'
    BY <1>1, <1>2, <1>3, <1>5, <2>5 DEF Holding, TokenPcs
  <2>8. QED
    BY <1>1, <1>5, <2>2, <2>3, <2>4, <2>5, <2>6, <2>7, MoveKnowing
<1>6. QED
  BY <1>4, <1>5

\* A request ends, and its token may be revoked or its login closed with it.
LEMMA EndKeeps ==
  ASSUME TypeOK, Knowing, NEW p \in Procs,
         RefreshExpire(p) \/ LogoutRevoke(p) \/ Dies(p) \/ AnswerLost(p)
  PROVE  TypeOK' /\ Knowing'
<1>1. /\ UNCHANGED <<active, owner, issued, overdue, known, family, contended>>
      /\ Become(p, Idle)
      /\ revoked' = revoked \/ (proc[p].pc \in TokenPcs \cup {"revoke"} /\ revoked' = revoked \cup {proc[p].token})
      /\ closed' = closed \/ (proc[p].pc \in TokenPcs \cup {"revoke"} /\ closed' = closed \cup {family[proc[p].token]})
      /\ faults' \in 0..MaxFaults
  <2>1. CASE RefreshExpire(p)
    BY <2>1 DEF RefreshExpire, Revoke, TokenPcs, TypeOK
  <2>2. CASE LogoutRevoke(p)
    BY <2>2 DEF LogoutRevoke, Revoke, TokenPcs, TypeOK
  <2>3. CASE Dies(p)
    BY <2>3, MaxFaultsNat DEF Dies, rows, TypeOK
  <2>4. CASE AnswerLost(p)
    BY <2>4, MaxFaultsNat DEF AnswerLost, Revoke, TypeOK
  <2>5. QED
    BY <2>1, <2>2, <2>3, <2>4
<1>2. proc[p].pc \in TokenPcs \cup {"revoke"} => proc[p].token \in known /\ family[proc[p].token] \in Logins
  BY HeldIn
<1>3. revoked' \subseteq revoked \cup known /\ closed \subseteq closed' /\ closed' \in SUBSET Logins
  BY <1>1, <1>2 DEF TypeOK
<1>4. TypeOK'
  BY <1>1, <1>3, MoveType DEF TypeOK
<1>5. proc'[p].pc = "idle" /\ (\A q \in Procs \ {p} : proc'[q] = proc[q] /\ (q \in late => q \in late'))
  BY <1>1, EndIs
<1>6. Holding(p)' /\ Admitting(p)'
  BY <1>5 DEF Holding, Admitting, TokenPcs
<1>7. Knowing'
  BY <1>1, <1>3, <1>5, <1>6, MoveKnowing
<1>8. QED
  BY <1>4, <1>7

LEMMA LoginIssueKeeps ==
  ASSUME TypeOK, Knowing, NEW p \in Procs, LoginIssue(p)
  PROVE  TypeOK' /\ Knowing'
<1> DEFINE l == proc[p].login
           new == issued + 1
<1>1. l \in Logins /\ proc[p].pc = "login"
  BY LoginHas DEF LoginIssue
<1>2. /\ UNCHANGED <<active, owner, revoked, overdue, faults, contended, closed>>
      /\ known' = known \cup {new} /\ Become(p, Idle) /\ Insert(l)
  BY DEF LoginIssue
<1>3. /\ new \in Tokens /\ new \notin 1..issued /\ issued' = new /\ issued' \in 0..MaxTokens
      /\ 1..issued \subseteq 1..issued' /\ family'[new] = l /\ new \in 1..issued'
      /\ \A t \in 1..issued : family'[t] = family[t]
      /\ \A t \in Tokens \ {new} : family'[t] = family[t]
      /\ family' \in [Tokens -> Logins \cup {NoLogin}]
      /\ 1..issued' = (1..issued) \cup {new}
  BY <1>1, <1>2, MaxTokensNat, InsertIs DEF TypeOK, Insert, Tokens
<1> HIDE DEF l, new
<1>4. proc'[p].pc = "idle" /\ (\A q \in Procs \ {p} : proc'[q] = proc[q] /\ (q \in late => q \in late'))
  BY <1>2, EndIs
<1>5. proc' \in [Procs -> ProcRun \cup {Idle}] /\ late' \in SUBSET Procs
  BY <1>2, BecomeType
<1>6. TypeOK'
  BY <1>2, <1>3, <1>5 DEF TypeOK
<1>7. RowsAgree'
  <2>1. known \subseteq 1..issued
    BY DEF TypeOK
  <2>2. \A t \in 1..issued' : family'[t] \in Logins
    BY <1>1, <1>3 DEF Knowing, RowsAgree
  <2>3. \A t \in overdue : family'[t] \in closed
    BY <1>3, <2>1 DEF Knowing, RowsAgree
  <2>4. \A m \in contended : \E t \in known : family'[t] = m
    BY <1>3, <2>1 DEF Knowing, RowsAgree
  <2>5. QED
    BY <1>2, <2>2, <2>3, <2>4 DEF Knowing, RowsAgree
<1>8. Apart'
  BY <1>4 DEF Knowing, Apart
<1>9. ASSUME NEW q \in Procs PROVE Holding(q)' /\ Admitting(q)'
  <2>1. CASE q = p
    BY <1>4, <2>1 DEF Holding, Admitting, TokenPcs
  <2>2. CASE q # p
    <3>1. proc'[q] = proc[q] /\ (q \in late => q \in late')
      BY <1>4, <2>2
    <3>2. proc[q].pc \in TokenPcs \cup {"revoke"} => /\ proc[q].token \in known
                                                     /\ family'[proc[q].token] = family[proc[q].token]
      BY <1>3, KnownIn DEF Knowing, Holding
    <3>3. proc[q].pc = "revoke" => proc[q].next \in 1..issued /\ proc[q].next # new
      BY <1>3 DEF Knowing, Holding
    <3>4. proc[q].pc = "login" => proc[q].login # l
      BY <1>1, <2>2 DEF Knowing, Apart, l
    <3>5. Holding(q)'
      <4>1. proc[q].pc = "expire" => proc[q].token \in overdue
        BY DEF Knowing, Holding
      <4>2. proc[q].pc = "revoke" => proc[q].next \in (1..issued') \ known' /\ family'[proc[q].next] = family'[proc[q].token]
        BY <1>2, <1>3, <3>2, <3>3 DEF Knowing, Holding
      <4>3. proc[q].pc = "login" => \A t \in Tokens : family'[t] # proc[q].login
        BY <1>3, <3>4 DEF Knowing, Holding
      <4>4. QED
        BY <1>2, <3>1, <3>2, <4>1, <4>2, <4>3 DEF Holding
    <3>6. Admitting(q)'
      <4>1. {"resolve", "issue", "revoke"} \subseteq TokenPcs \cup {"revoke"}
        BY DEF TokenPcs
      <4>2. QED
        BY <1>2, <3>1, <3>2, <4>1 DEF Knowing, Admitting
    <3>7. QED
      BY <3>5, <3>6
  <2>3. QED
    BY <2>1, <2>2
<1>10. QED
  BY <1>6, <1>7, <1>8, <1>9 DEF Knowing

LEMMA RefreshIssueKeeps ==
  ASSUME TypeOK, Knowing, NEW p \in Procs, RefreshIssue(p)
  PROVE  TypeOK' /\ Knowing'
<1> DEFINE t == proc[p].token
           new == issued + 1
<1>1. /\ proc[p].pc = "issue"
      /\ UNCHANGED <<active, owner, revoked, overdue, known, faults, contended, closed>>
      /\ Insert(family[t]) /\ Become(p, [pc |-> "revoke", token |-> t, next |-> new])
  BY DEF RefreshIssue
<1>2. t \in known /\ t \in Tokens /\ family[t] \in Logins
  BY <1>1, HeldIn DEF TokenPcs
<1>3. /\ new \in Tokens /\ new \notin 1..issued /\ issued' = new /\ issued' \in 0..MaxTokens
      /\ 1..issued \subseteq 1..issued' /\ family'[new] = family[t] /\ new \in 1..issued'
      /\ \A x \in 1..issued : family'[x] = family[x]
      /\ \A x \in Tokens \ {new} : family'[x] = family[x]
      /\ family' \in [Tokens -> Logins \cup {NoLogin}]
      /\ 1..issued' = (1..issued) \cup {new}
  BY <1>1, <1>2, MaxTokensNat, InsertIs DEF TypeOK, Insert, Tokens
<1> HIDE DEF t, new
<1>4. [pc |-> "revoke", token |-> t, next |-> new] \in ProcRun
  BY <1>2, <1>3 DEF ProcRun
<1>5. /\ proc'[p] = [pc |-> "revoke", token |-> t, next |-> new]
      /\ \A q \in Procs \ {p} : proc'[q] = proc[q]
  BY <1>1, BecomeIs
<1>6. proc'[p].pc = "revoke" /\ proc'[p].token = t /\ proc'[p].next = new
  BY <1>5
<1>7. late' = late
  BY <1>1 DEF Become, Idle
<1>8. TypeOK'
  <2>1. proc' \in [Procs -> ProcRun \cup {Idle}]
    BY <1>1, <1>4, BecomeType
  <2>2. QED
    BY <1>1, <1>3, <1>7, <2>1 DEF TypeOK
<1>9. known \subseteq 1..issued
  BY DEF TypeOK
<1>10. RowsAgree'
  <2>1. \A x \in 1..issued' : family'[x] \in Logins
    BY <1>2, <1>3 DEF Knowing, RowsAgree
  <2>2. \A x \in overdue : family'[x] \in closed
    BY <1>3, <1>9 DEF Knowing, RowsAgree
  <2>3. \A m \in contended : \E x \in known : family'[x] = m
    BY <1>3, <1>9 DEF Knowing, RowsAgree
  <2>4. QED
    BY <1>1, <2>1, <2>2, <2>3 DEF Knowing, RowsAgree
<1>11. \A q \in Procs \ {p} : proc[q].pc = "revoke" => proc[q].next \in 1..issued
  BY DEF Knowing, Holding
<1>12. Apart'
  BY <1>3, <1>5, <1>6, <1>11 DEF Knowing, Apart
<1>13. ASSUME NEW q \in Procs PROVE Holding(q)' /\ Admitting(q)'
  <2>1. CASE q = p
    <3>1. family'[t] = family[t] /\ new \notin known
      BY <1>2, <1>3, <1>9
    <3>2. Holding(p)'
      BY <1>1, <1>2, <1>3, <1>6, <3>1 DEF Holding
    <3>3. owner[family[t]] \in active \/ p \in late
      BY <1>1 DEF Knowing, Admitting, t
    <3>4. Admitting(p)'
      BY <1>1, <1>6, <1>7, <3>1, <3>3 DEF Admitting
    <3>5. QED
      BY <2>1, <3>2, <3>4
  <2>2. CASE q # p
    <3>1. proc'[q] = proc[q]
      BY <1>5, <2>2
    <3>2. proc[q].pc \in TokenPcs \cup {"revoke"} => /\ proc[q].token \in known
                                                     /\ family'[proc[q].token] = family[proc[q].token]
      BY <1>3, KnownIn DEF Knowing, Holding
    <3>3. Holding(q)'
      <4>1. proc[q].pc = "expire" => proc[q].token \in overdue
        BY DEF Knowing, Holding
      <4>2. proc[q].pc = "revoke" => proc[q].next \in (1..issued') \ known /\ family'[proc[q].next] = family'[proc[q].token]
        BY <1>3, <3>2 DEF Knowing, Holding
      <4>3. proc[q].pc = "login" => \A x \in Tokens : family'[x] # proc[q].login
        BY <1>2, <1>3 DEF Knowing, Holding
      <4>4. QED
        BY <1>1, <3>1, <3>2, <4>1, <4>2, <4>3 DEF Holding
    <3>4. Admitting(q)'
      <4>1. {"resolve", "issue", "revoke"} \subseteq TokenPcs \cup {"revoke"}
        BY DEF TokenPcs
      <4>2. QED
        BY <1>1, <1>7, <3>1, <3>2, <4>1 DEF Knowing, Admitting
    <3>5. QED
      BY <3>3, <3>4
  <2>3. QED
    BY <2>1, <2>2
<1>14. QED
  BY <1>8, <1>10, <1>12, <1>13 DEF Knowing

LEMMA RefreshRevokeKeeps ==
  ASSUME TypeOK, Knowing, NEW p \in Procs, RefreshRevoke(p)
  PROVE  TypeOK' /\ Knowing'
<1>1. /\ proc[p].pc = "revoke"
      /\ UNCHANGED <<active, owner, issued, overdue, faults, family, contended, closed>>
      /\ revoked' = revoked \cup {proc[p].token} /\ known' = known \cup {proc[p].next}
      /\ Become(p, Idle)
  BY DEF RefreshRevoke, Revoke
<1>2. proc[p].token \in known /\ proc[p].next \in (1..issued) \ known
  BY <1>1 DEF Knowing, Holding
<1>3. proc'[p].pc = "idle" /\ (\A q \in Procs \ {p} : proc'[q] = proc[q] /\ (q \in late => q \in late'))
  BY <1>1, EndIs
<1>4. TypeOK'
  BY <1>1, <1>2, BecomeType DEF TypeOK
<1>5. RowsAgree'
  BY <1>1, <1>2 DEF Knowing, RowsAgree
<1>6. Apart'
  BY <1>3 DEF Knowing, Apart
<1>7. ASSUME NEW q \in Procs PROVE Holding(q)' /\ Admitting(q)'
  <2>1. CASE q = p
    BY <1>3, <2>1 DEF Holding, Admitting, TokenPcs
  <2>2. CASE q # p
    <3>1. proc'[q] = proc[q] /\ (q \in late => q \in late')
      BY <1>3, <2>2
    <3>2. proc[q].pc = "revoke" => proc[q].next # proc[p].next
      BY <1>1, <2>2 DEF Knowing, Apart
    <3>3. Holding(q)'
      BY <1>1, <3>1, <3>2 DEF Knowing, Holding
    <3>4. Admitting(q)'
      BY <1>1, <3>1 DEF Knowing, Admitting
    <3>5. QED
      BY <3>3, <3>4
  <2>3. QED
    BY <2>1, <2>2
<1>8. QED
  BY <1>4, <1>5, <1>6, <1>7 DEF Knowing

LEMMA AroundKeeps ==
  ASSUME TypeOK, Knowing,
         \/ \E u \in Users, b \in BOOLEAN : SetActive(u, b)
         \/ \E t \in Tokens : TimePasses(t)
  PROVE  TypeOK' /\ Knowing'
<1>1. ASSUME NEW u \in Users, NEW b \in BOOLEAN, SetActive(u, b) PROVE TypeOK' /\ Knowing'
  <2>1. /\ UNCHANGED <<owner, issued, revoked, overdue, known, proc, faults, family, contended, closed>>
        /\ active' \in SUBSET Users /\ active \ {u} \subseteq active'
        /\ late \subseteq late'
        /\ u \in active' \/ (\A p \in Admitted(u) : p \in late')
    BY <1>1 DEF SetActive, TypeOK
  <2>2. TypeOK'
    BY <1>1, <2>1 DEF SetActive, TypeOK, Admitted
  <2>3. RowsAgree' /\ Apart'
    BY <2>1 DEF Knowing, RowsAgree, Apart
  <2>4. ASSUME NEW q \in Procs PROVE Holding(q)' /\ Admitting(q)'
    <3>1. Holding(q)'
      BY <2>1 DEF Knowing, Holding
    <3>2. Admitting(q)'
      BY <2>1 DEF Knowing, Admitting, Admitted
    <3>3. QED
      BY <3>1, <3>2
  <2>5. QED
    BY <2>2, <2>3, <2>4 DEF Knowing
<1>2. ASSUME NEW t \in Tokens, TimePasses(t) PROVE TypeOK' /\ Knowing'
  <2>1. /\ UNCHANGED <<active, owner, issued, revoked, known, proc, faults, family, contended, late>>
        /\ t \in known /\ overdue' = overdue \cup {t} /\ closed' = closed \cup {family[t]}
    BY <1>2 DEF TimePasses
  <2>2. family[t] \in Logins
    BY <2>1, KnownIn
  <2>3. TypeOK'
    BY <2>1, <2>2 DEF TypeOK
  <2>4. RowsAgree' /\ Apart'
    BY <2>1 DEF Knowing, RowsAgree, Apart
  <2>5. ASSUME NEW q \in Procs PROVE Holding(q)' /\ Admitting(q)'
    <3>1. Holding(q)'
      BY <2>1 DEF Knowing, Holding
    <3>2. Admitting(q)'
      BY <2>1 DEF Knowing, Admitting
    <3>3. QED
      BY <3>1, <3>2
  <2>6. QED
    BY <2>3, <2>4, <2>5 DEF Knowing
<1>3. QED
  BY <1>1, <1>2

LEMMA StepIsOne ==
  ASSUME [Next]_vars
  PROVE  \/ UNCHANGED vars
         \/ \E p \in Procs :
              \/ \E l \in Logins : LoginLook(p, l)
              \/ \E t \in Tokens : Refresh(p, t) \/ Logout(p, t)
              \/ RefreshUser(p) \/ RefreshResolve(p)
              \/ RefreshExpire(p) \/ LogoutRevoke(p) \/ Dies(p) \/ AnswerLost(p)
              \/ LoginIssue(p) \/ RefreshIssue(p) \/ RefreshRevoke(p)
         \/ \E u \in Users, b \in BOOLEAN : SetActive(u, b)
         \/ \E t \in Tokens : TimePasses(t)
BY DEF Next, Step

LEMMA NextKeeps ==
  ASSUME TypeOK, Knowing, [Next]_vars
  PROVE  TypeOK' /\ Knowing'
<1>1. CASE UNCHANGED vars
  <2>1. TypeOK'
    BY <1>1 DEF vars, TypeOK
  <2>2. RowsAgree' /\ Apart' /\ \A p \in Procs : Holding(p)' /\ Admitting(p)'
    BY <1>1 DEF vars, Knowing, RowsAgree, Apart, Holding, Admitting
  <2>3. QED
    BY <2>1, <2>2 DEF Knowing
<1>2. CASE ~ UNCHANGED vars
  BY <1>2, StepIsOne, LoginLookKeeps, PresentKeeps, PassKeeps, EndKeeps, LoginIssueKeeps, RefreshIssueKeeps,
     RefreshRevokeKeeps, AroundKeeps
<1>3. QED
  BY <1>1, <1>2

LEMMA InitKnowing == Init => TypeOK /\ Knowing
<1> SUFFICES ASSUME Init PROVE TypeOK /\ Knowing
  OBVIOUS
<1>1. \A p \in Procs : proc[p].pc = "idle" /\ proc[p] = Idle
  BY DEF Init, Idle
<1>2. TypeOK
  BY <1>1, MaxTokensNat, MaxFaultsNat DEF Init, TypeOK
<1>3. RowsAgree
  BY DEF Init, RowsAgree
<1>4. Apart /\ \A p \in Procs : Holding(p) /\ Admitting(p)
  BY <1>1 DEF Apart, Holding, Admitting, TokenPcs
<1>5. QED
  BY <1>2, <1>3, <1>4 DEF Knowing

(* What the requests know of the rows stays true.                           *)
THEOREM RequestsKnow == Spec => [](TypeOK /\ Knowing)
<1>1. TypeOK /\ Knowing /\ [Next]_vars => TypeOK' /\ Knowing'
  BY NextKeeps
<1>2. QED
  BY <1>1, InitKnowing, PTL DEF Spec

(* Every row and every local state of login, refresh and logout is one the  *)
(* program can name.                                                        *)
THEOREM TypeCorrect == Spec => []TypeOK
BY RequestsKnow, PTL

-----------------------------------------------------------------------------
(* What clients hold.                                                       *)

LivesOn ==
  \A l \in Logins \ closed :
    (\E t \in known : family[t] = l) => \E t \in known \ revoked : family[t] = l

LEMMA LivesOnIs == TypeOK /\ Knowing /\ LivesOn => LoginSurvives
<1> SUFFICES ASSUME TypeOK, Knowing, LivesOn, NEW l \in Logins \ closed, \E t \in known : family[t] = l
             PROVE  Live(l) # {}
  BY DEF LoginSurvives
<1>1. PICK t \in known \ revoked : family[t] = l
  BY DEF LivesOn
<1>2. t \notin overdue
  BY <1>1 DEF Knowing, RowsAgree
<1>3. QED
  BY <1>1, <1>2 DEF Live

\* The families of tokens that clients have never change.
LEMMA FamilyKept ==
  ASSUME TypeOK, [Next]_vars
  PROVE  \A t \in 1..issued : family'[t] = family[t]
<1>1. CASE UNCHANGED family
  BY <1>1
<1>2. CASE \E l : Insert(l)
  BY <1>2, MaxTokensNat DEF Insert, TypeOK, Tokens
<1>3. UNCHANGED family \/ \E l : Insert(l)
  BY StepIsOne DEF vars, LoginLook, Refresh, Logout, Present, RefreshUser, RefreshResolve, RefreshExpire,
     LogoutRevoke, Dies, AnswerLost, LoginIssue, RefreshIssue, RefreshRevoke, SetActive, TimePasses
<1>4. QED
  BY <1>1, <1>2, <1>3

\* What a step does to the tokens of clients.
LEMMA StepOnTokens ==
  ASSUME TypeOK, Knowing, [Next]_vars
  PROVE  /\ closed \subseteq closed'
         /\ \/ UNCHANGED <<known, revoked>>
            \/ \E p \in Procs : LoginIssue(p)
            \/ \E p \in Procs : RefreshRevoke(p)
            \/ \E t \in known : /\ UNCHANGED known /\ revoked' = revoked \cup {t}
                                /\ family[t] \in closed'
<1>1. ASSUME NEW p \in Procs, RefreshExpire(p)
      PROVE  proc[p].token \in known /\ family[proc[p].token] \in closed
  BY <1>1 DEF RefreshExpire, Knowing, Holding, RowsAgree, TokenPcs
<1>2. ASSUME NEW p \in Procs, LogoutRevoke(p) \/ AnswerLost(p)
      PROVE  proc[p].token \in known /\ family[proc[p].token] \in closed'
  BY <1>2, HeldIn DEF LogoutRevoke, AnswerLost, TokenPcs
<1>3. CASE UNCHANGED vars
  BY <1>3 DEF vars
<1>4. CASE \E p \in Procs : RefreshExpire(p) \/ LogoutRevoke(p) \/ AnswerLost(p)
  BY <1>1, <1>2, <1>4 DEF RefreshExpire, LogoutRevoke, AnswerLost, Revoke
<1>5. ASSUME NEW p \in Procs,
             \/ \E l \in Logins : LoginLook(p, l)
             \/ \E t \in Tokens : Refresh(p, t) \/ Logout(p, t)
             \/ RefreshUser(p) \/ RefreshResolve(p) \/ Dies(p) \/ RefreshIssue(p)
      PROVE  UNCHANGED <<known, revoked, closed>>
  BY <1>5 DEF LoginLook, Refresh, Logout, Present, RefreshUser, RefreshResolve, Dies, RefreshIssue, rows
<1>6. CASE \/ \E u \in Users, b \in BOOLEAN : SetActive(u, b)
           \/ \E t \in Tokens : TimePasses(t)
  BY <1>6 DEF SetActive, TimePasses
<1>7. CASE \E p \in Procs : LoginIssue(p) \/ RefreshRevoke(p)
  BY <1>7 DEF LoginIssue, RefreshRevoke
<1>8. CASE \E p \in Procs :
             \/ \E l \in Logins : LoginLook(p, l)
             \/ \E t \in Tokens : Refresh(p, t) \/ Logout(p, t)
             \/ RefreshUser(p) \/ RefreshResolve(p) \/ Dies(p) \/ RefreshIssue(p)
  <2>1. UNCHANGED <<known, revoked, closed>>
    BY <1>5, <1>8
  <2>2. QED
    BY <2>1
<1>9. QED
  BY <1>3, <1>4, <1>6, <1>7, <1>8, StepIsOne

LEMMA LivesOnKept ==
  ASSUME TypeOK, Knowing, LivesOn, [Next]_vars
  PROVE  LivesOn'
<1>1. known \subseteq 1..issued /\ revoked \subseteq known /\ \A t \in known : family'[t] = family[t]
  BY FamilyKept DEF TypeOK, Knowing, RowsAgree
<1>2. closed \subseteq closed'
  BY StepOnTokens
<1> SUFFICES ASSUME NEW l \in Logins \ closed', NEW u \in known', family'[u] = l
             PROVE  \E t \in known' \ revoked' : family'[t] = l
  BY DEF LivesOn
<1>3. CASE u \notin known
  <2>1. CASE \E p \in Procs : LoginIssue(p)
    BY <1>1, <1>3, <2>1 DEF LoginIssue
  <2>2. CASE \E p \in Procs : RefreshRevoke(p)
    <3>1. PICK p \in Procs : RefreshRevoke(p)
      BY <2>2
    <3>2. proc[p].token \in known /\ revoked' = revoked \cup {proc[p].token}
      BY <3>1 DEF Knowing, Holding, RefreshRevoke, Revoke
    <3>3. QED
      BY <1>1, <1>3, <3>2
  <2>3. QED
    BY <1>3, <2>1, <2>2, StepOnTokens
<1>4. CASE u \in known
  <2>1. PICK t \in known \ revoked : family[t] = l
    BY <1>1, <1>2, <1>4 DEF LivesOn
  <2>2. family'[t] = l
    BY <1>1, <2>1
  <2>3. CASE UNCHANGED <<known, revoked>>
    BY <2>1, <2>2, <2>3
  <2>4. CASE \E p \in Procs : LoginIssue(p)
    BY <2>1, <2>2, <2>4 DEF LoginIssue
  <2>5. CASE \E p \in Procs : RefreshRevoke(p)
    <3>1. PICK p \in Procs : RefreshRevoke(p)
      BY <2>5
    <3>2. /\ proc[p].token \in known /\ proc[p].next \notin known /\ proc[p].next \in 1..issued
          /\ family[proc[p].next] = family[proc[p].token]
          /\ revoked' = revoked \cup {proc[p].token} /\ known' = known \cup {proc[p].next} /\ family' = family
      BY <3>1 DEF Knowing, Holding, RefreshRevoke, Revoke
    <3>3. CASE proc[p].token = t
      BY <1>1, <2>1, <3>2, <3>3
    <3>4. CASE proc[p].token # t
      BY <2>1, <2>2, <3>2, <3>4
    <3>5. QED
      BY <3>3, <3>4
  <2>6. CASE \E x \in known : UNCHANGED known /\ revoked' = revoked \cup {x} /\ family[x] \in closed'
    BY <2>1, <2>2, <2>6
  <2>7. QED
    BY <2>3, <2>4, <2>5, <2>6, StepOnTokens
<1>5. QED
  BY <1>3, <1>4

(* A login that was not logged out, has not expired and whose answers       *)
(* arrived has a token its client can refresh with, wherever handlers die   *)
(* and however many requests present the same token.                        *)
THEOREM LoginsSurvive == Spec => []LoginSurvives
<1>1. Init => LivesOn
  BY DEF Init, LivesOn
<1>2. TypeOK /\ Knowing /\ LivesOn /\ [Next]_vars => LivesOn'
  BY LivesOnKept
<1>3. QED
  BY <1>1, <1>2, LivesOnIs, RequestsKnow, PTL DEF Spec

(* A user who was deactivated gets no tokens, but from requests that had    *)
(* found the user active before.                                            *)
THEOREM InactiveGetNothing == Spec => InactiveGetNone
<1> DEFINE Granted ==
      \A t \in known' \ known : owner[family'[t]] \in active \/ \E p \in late : proc'[p] # proc[p]
<1>1. TypeOK /\ Knowing /\ [Next]_vars => Granted
  <2> SUFFICES ASSUME TypeOK, Knowing, [Next]_vars, NEW t \in known' \ known
               PROVE  owner[family'[t]] \in active \/ \E p \in late : proc'[p] # proc[p]
    OBVIOUS
  <2>1. CASE \E p \in Procs : LoginIssue(p)
    <3>1. PICK p \in Procs : LoginIssue(p)
      BY <2>1
    <3>2. proc'[p] # proc[p] /\ proc[p].pc = "login"
      BY <3>1, EndIs DEF LoginIssue
    <3>3. t = issued + 1 /\ family'[issued + 1] = proc[p].login
      BY <3>1, InsertIs, LoginHas DEF LoginIssue
    <3>4. QED
      BY <3>2, <3>3 DEF Knowing, Admitting
  <2>2. CASE \E p \in Procs : RefreshRevoke(p)
    <3>1. PICK p \in Procs : RefreshRevoke(p)
      BY <2>2
    <3>2. proc'[p] # proc[p] /\ proc[p].pc = "revoke"
      BY <3>1, EndIs DEF RefreshRevoke
    <3>3. family'[t] = family[proc[p].token]
      BY <3>1, <3>2 DEF RefreshRevoke, Knowing, Holding
    <3>4. QED
      BY <3>2, <3>3 DEF Knowing, Admitting
  <2>3. QED
    BY <2>1, <2>2, StepOnTokens
<1>2. TypeOK /\ Knowing /\ [Next]_vars => [Granted]_vars
  BY <1>1
<1> HIDE DEF Granted
<1>3. Spec => [][Granted]_vars
  BY <1>2, RequestsKnow, PTL DEF Spec
<1>4. QED
  BY <1>3 DEF InactiveGetNone, Granted

-----------------------------------------------------------------------------
(* Tokens implements LoginChain.  A login that is not contended has one     *)
(* usable token at most, and whoever it was presented to is alone with it.  *)

OneUsable(l) == \A t, u \in known \ revoked : family[t] = l /\ family[u] = l => t = u

Alone(l) ==
  /\ \A p, q \in Working(l) : p = q
  /\ \A p \in Working(l) : proc[p].token \notin revoked

Chained == \A l \in Logins \ contended : OneUsable(l) /\ Alone(l)

\* A step that neither revokes nor hands out a token, and presents none.
LEMMA SameChained ==
  ASSUME TypeOK, Knowing, Chained, NEW p \in Procs,
         UNCHANGED <<known, revoked>>, contended \subseteq contended',
         \A t \in known : family'[t] = family[t],
         \A q \in Procs \ {p} : proc'[q] = proc[q],
         proc'[p].pc \in TokenPcs \cup {"revoke"} =>
           proc[p].pc \in TokenPcs \cup {"revoke"} /\ proc'[p].token = proc[p].token,
         proc'[p].pc \in TokenPcs \cup {"revoke", "idle", "login"}
  PROVE  Chained'
<1> SUFFICES ASSUME NEW l \in Logins \ contended' PROVE OneUsable(l)' /\ Alone(l)'
  BY DEF Chained
<1>1. OneUsable(l) /\ Alone(l)
  BY DEF Chained
<1>2. \A q \in Procs : proc[q].pc \notin {"idle", "login"} => proc[q].token \in known
  <2>1. \A q \in Procs : proc[q].pc \notin {"idle", "login"} => proc[q].pc \in TokenPcs \cup {"revoke"}
    BY ProcType DEF ProcRun, TokenPcs
  <2>2. QED
    BY <2>1 DEF Knowing, Holding
<1>3. ASSUME NEW q \in Working(l)' PROVE q \in Working(l) /\ proc'[q].token = proc[q].token
  <2>1. q \in Procs /\ proc'[q].pc \notin {"idle", "login"} /\ family'[proc'[q].token] = l
    BY <1>3 DEF Working
  <2>2. proc[q].pc \notin {"idle", "login"} /\ proc'[q].token = proc[q].token
    BY <2>1 DEF TokenPcs
  <2>3. QED
    BY <1>2, <2>1, <2>2 DEF Working
<1>4. Alone(l)'
  BY <1>1, <1>3 DEF Alone
<1>5. OneUsable(l)'
  BY <1>1 DEF OneUsable
<1>6. QED
  BY <1>4, <1>5

LEMMA QuietChained ==
  ASSUME TypeOK, Knowing, Chained, NEW p \in Procs,
         \/ \E l \in Logins : LoginLook(p, l)
         \/ RefreshUser(p) \/ RefreshResolve(p) \/ RefreshIssue(p) \/ Dies(p)
  PROVE  Chained'
<1>1. UNCHANGED <<known, revoked, contended>>
  BY DEF LoginLook, RefreshUser, RefreshResolve, RefreshIssue, Dies, rows
<1>2. \A t \in known : family'[t] = family[t]
  <2>1. [Next]_vars
    BY DEF Next, Step
  <2>2. QED
    BY <2>1, FamilyKept DEF TypeOK
<1>3. \A q \in Procs \ {p} : proc'[q] = proc[q]
  BY DEF LoginLook, RefreshUser, RefreshResolve, RefreshIssue, Dies, Begin, Go, Become, TypeOK
<1>4. /\ proc'[p].pc \in TokenPcs \cup {"revoke", "idle", "login"}
      /\ proc'[p].pc \in TokenPcs \cup {"revoke"} =>
           proc[p].pc \in TokenPcs \cup {"revoke"} /\ proc'[p].token = proc[p].token
  <2>1. CASE \E l \in Logins : LoginLook(p, l)
    BY <2>1, BecomeIs DEF LoginLook, Begin, TokenPcs
  <2>2. CASE RefreshUser(p)
    BY <2>2 DEF RefreshUser, Go, Become, TypeOK, TokenPcs, Idle
  <2>3. CASE RefreshResolve(p)
    BY <2>3 DEF RefreshResolve, Go, Become, TypeOK, TokenPcs, Idle
  <2>4. CASE RefreshIssue(p)
    BY <2>4, BecomeIs DEF RefreshIssue, TokenPcs
  <2>5. CASE Dies(p)
    BY <2>5, EndIs DEF Dies, TokenPcs
  <2>6. QED
    BY <2>1, <2>2, <2>3, <2>4, <2>5
<1>5. QED
  BY <1>1, <1>2, <1>3, <1>4, SameChained

LEMMA PresentChained ==
  ASSUME TypeOK, Knowing, Chained, NEW p \in Procs, NEW t \in Tokens, Refresh(p, t) \/ Logout(p, t)
  PROVE  Chained'
<1>1. PICK pc \in {"logout", "expire", "user"} : Present(p, t, pc)
  BY DEF Refresh, Logout
<1>2. /\ UNCHANGED <<revoked, known, family>>
      /\ proc[p] = Idle /\ Become(p, [pc |-> pc, token |-> t])
      /\ t \notin revoked
      /\ contended' = IF Working(family[t]) = {} THEN contended ELSE contended \cup {family[t]}
  BY <1>1 DEF Present, Begin, rows, Usable
<1>3. proc'[p].pc = pc /\ proc'[p].token = t /\ \A q \in Procs \ {p} : proc'[q] = proc[q]
  BY <1>2, BecomeIs
<1> SUFFICES ASSUME NEW l \in Logins \ contended' PROVE OneUsable(l)' /\ Alone(l)'
  BY DEF Chained
<1>4. l \notin contended /\ (l = family[t] => Working(l) = {})
  BY <1>2
<1>5. OneUsable(l) /\ Alone(l)
  BY <1>4 DEF Chained
<1>6. OneUsable(l)'
  BY <1>2, <1>5 DEF OneUsable
<1>7. CASE l = family[t]
  <2>1. Working(l)' \subseteq {p}
    BY <1>2, <1>3, <1>4, <1>7 DEF Working
  <2>2. QED
    BY <1>2, <1>3, <1>6, <2>1 DEF Alone
<1>8. CASE l # family[t]
  <2>1. \A q \in Working(l)' : q \in Working(l) /\ proc'[q] = proc[q]
    BY <1>2, <1>3, <1>8 DEF Working
  <2>2. QED
    BY <1>2, <1>5, <1>6, <2>1 DEF Alone
<1>9. QED
  BY <1>7, <1>8

\* A request that was alone with a token revokes it, and hands out another of
\* the same login or none.
LEMMA RevokeChained ==
  ASSUME TypeOK, Knowing, Chained, NEW p \in Procs,
         RefreshExpire(p) \/ LogoutRevoke(p) \/ AnswerLost(p) \/ RefreshRevoke(p)
  PROVE  Chained'
<1> DEFINE t == proc[p].token
<1>1. /\ proc[p].pc \in TokenPcs \cup {"revoke"}
      /\ UNCHANGED <<family, contended>> /\ revoked' = revoked \cup {t}
      /\ Become(p, Idle)
      /\ UNCHANGED known \/ (proc[p].pc = "revoke" /\ known' = known \cup {proc[p].next})
  BY DEF RefreshExpire, LogoutRevoke, AnswerLost, RefreshRevoke, Revoke, TokenPcs
<1>2. t \in known /\ family[t] \in Logins
  BY <1>1, HeldIn
<1>3. proc'[p].pc = "idle" /\ \A q \in Procs \ {p} : proc'[q] = proc[q]
  BY <1>1, EndIs
<1>4. proc[p].pc = "revoke" => family[proc[p].next] = family[t]
  BY DEF Knowing, Holding
<1> HIDE DEF t
<1> SUFFICES ASSUME NEW l \in Logins \ contended PROVE OneUsable(l)' /\ Alone(l)'
  BY <1>1 DEF Chained
<1>5. OneUsable(l) /\ Alone(l)
  BY DEF Chained
<1>6. \A q \in Working(l)' : q \in Working(l) /\ q # p /\ proc'[q] = proc[q]
  BY <1>1, <1>3 DEF Working
<1>7. CASE l = family[t]
  <2>1. p \in Working(l)
    BY <1>1, <1>7 DEF Working, TokenPcs, t
  <2>2. Working(l)' = {}
    BY <1>5, <1>6, <2>1 DEF Alone
  <2>3. t \notin revoked
    BY <1>5, <2>1 DEF Alone, t
  <2>4. \A u \in known \ revoked : family[u] = l => u = t
    BY <1>2, <1>5, <1>7, <2>3 DEF OneUsable
  <2>5. OneUsable(l)'
    BY <1>1, <2>4 DEF OneUsable
  <2>6. QED
    BY <2>2, <2>5 DEF Alone
<1>8. CASE l # family[t]
  <2>1. OneUsable(l)'
    BY <1>1, <1>4, <1>5, <1>8 DEF OneUsable
  <2>2. \A q \in Working(l) : proc[q].token # t
    BY <1>8 DEF Working
  <2>3. QED
    BY <1>1, <1>5, <1>6, <2>1, <2>2 DEF Alone
<1>9. QED
  BY <1>7, <1>8

LEMMA LoginChained ==
  ASSUME TypeOK, Knowing, Chained, NEW p \in Procs, LoginIssue(p)
  PROVE  Chained'
<1> DEFINE m == proc[p].login
           new == issued + 1
<1>1. proc[p].pc = "login" /\ m \in Logins /\ \A x \in Tokens : family[x] # m
  BY LoginHas DEF LoginIssue, Knowing, Holding
<1>2. UNCHANGED <<revoked, contended>> /\ known' = known \cup {new} /\ Become(p, Idle) /\ Insert(m)
  BY DEF LoginIssue
<1>3. family'[new] = m /\ new \notin 1..issued /\ \A x \in 1..issued : family'[x] = family[x]
  BY <1>1, <1>2, InsertIs
<1>4. proc'[p].pc = "idle" /\ \A q \in Procs \ {p} : proc'[q] = proc[q]
  BY <1>2, EndIs
<1>5. known \subseteq 1..issued /\ known \subseteq Tokens
  BY KnownIn
<1>6. \A q \in Procs : proc[q].pc \notin {"idle", "login"} => proc[q].token \in known
  <2>1. \A q \in Procs : proc[q].pc \notin {"idle", "login"} => proc[q].pc \in TokenPcs \cup {"revoke"}
    BY ProcType DEF ProcRun, TokenPcs
  <2>2. QED
    BY <2>1 DEF Knowing, Holding
<1> HIDE DEF m, new
<1> SUFFICES ASSUME NEW l \in Logins \ contended PROVE OneUsable(l)' /\ Alone(l)'
  BY <1>2 DEF Chained
<1>7. OneUsable(l) /\ Alone(l)
  BY DEF Chained
<1>8. \A q \in Working(l)' : q \in Working(l) /\ proc'[q] = proc[q]
  BY <1>3, <1>4, <1>5, <1>6 DEF Working
<1>9. Alone(l)'
  BY <1>2, <1>7, <1>8 DEF Alone
<1>10. \A x \in (known \ revoked)' : x = new \/ (x \in known \ revoked /\ family'[x] = family[x])
  BY <1>2, <1>3, <1>5
<1>11. CASE l = m
  <2>1. \A x \in (known \ revoked)' : family'[x] = l => x = new
    BY <1>1, <1>5, <1>10, <1>11
  <2>2. QED
    BY <1>9, <2>1 DEF OneUsable
<1>12. CASE l # m
  <2>1. \A x \in (known \ revoked)' : family'[x] = l => x \in known \ revoked /\ family[x] = l
    BY <1>3, <1>10, <1>12
  <2>2. QED
    BY <1>7, <1>9, <2>1 DEF OneUsable
<1>13. QED
  BY <1>11, <1>12

LEMMA NextChained ==
  ASSUME TypeOK, Knowing, Chained, [Next]_vars
  PROVE  Chained'
<1>1. CASE UNCHANGED vars
  BY <1>1 DEF vars, Chained, OneUsable, Alone, Working
<1>2. CASE \/ \E u \in Users, b \in BOOLEAN : SetActive(u, b)
           \/ \E t \in Tokens : TimePasses(t)
  <2>1. UNCHANGED <<known, revoked, proc, family, contended>>
    BY <1>2 DEF SetActive, TimePasses
  <2>2. QED
    BY <2>1 DEF Chained, OneUsable, Alone, Working
<1>3. ASSUME NEW p \in Procs,
             \/ \E l \in Logins : LoginLook(p, l)
             \/ \E t \in Tokens : Refresh(p, t) \/ Logout(p, t)
             \/ RefreshUser(p) \/ RefreshResolve(p)
             \/ RefreshExpire(p) \/ LogoutRevoke(p) \/ Dies(p) \/ AnswerLost(p)
             \/ LoginIssue(p) \/ RefreshIssue(p) \/ RefreshRevoke(p)
      PROVE  Chained'
  BY <1>3, QuietChained, PresentChained, RevokeChained, LoginChained
<1>4. QED
  BY <1>1, <1>2, <1>3, StepIsOne

\* What LoginChain sees of a login is what its tokens are.
Has(l) == {t \in known : family[t] = l}

Counted(t) == t \in InTime \/ t \notin overdue

States == [l \in Logins |-> LoginState(l)]
Holders == [l \in Logins |-> Holder(l)]

Seen(l) ==
  /\ l \in contended => LoginState(l) = "released"
  /\ l \notin contended /\ Has(l) = {} => LoginState(l) = "unused"
  /\ l \notin contended /\ Has(l) # {} /\ Live(l) = {} => LoginState(l) = "ended"
  /\ l \notin contended /\ Has(l) # {} /\ Live(l) # {} => LoginState(l) = "open"
  /\ LoginState(l) # "open" => Holder(l) = NoToken
  /\ \A t : LoginState(l) = "open" /\ Live(l) = {t} => Holder(l) = t

LEMMA SeenAlways == \A l \in Logins : Seen(l)
<1> TAKE l \in Logins
<1>1. Has(l) = {} <=> \A t \in known : family[t] # l
  BY DEF Has
<1>2. \A t : LoginState(l) = "open" /\ Live(l) = {t} => Holder(l) = t
  BY DEF Holder
<1>3. LoginState(l) # "open" => Holder(l) = NoToken
  BY DEF Holder
<1>4. QED
  BY <1>1, <1>2, <1>3 DEF Seen, LoginState

LEMMA SeenNext == (\A l \in Logins : Seen(l))'
BY SeenAlways, PTL

\* A login none of whose tokens the step touches.
LEMMA SameView ==
  ASSUME NEW l \in Logins, l \in contended' <=> l \in contended, Has(l)' = Has(l),
         \A t \in Has(l) : (t \in revoked' <=> t \in revoked) /\ (Counted(t)' <=> Counted(t))
  PROVE  LoginState(l)' = LoginState(l) /\ Holder(l)' = Holder(l) /\ Live(l)' = Live(l)
<1>1. Live(l)' = Live(l)
  <2>1. Live(l) = {t \in Has(l) : t \notin revoked /\ Counted(t)}
    BY DEF Live, Has, Counted
  <2>2. Live(l)' = {t \in Has(l)' : t \notin revoked' /\ Counted(t)'}
    BY DEF Live, Has, Counted
  <2>3. QED
    BY <2>1, <2>2
<1>2. /\ (\A t \in known : family[t] # l) <=> Has(l) = {}
      /\ (\A t \in known' : family'[t] # l) <=> Has(l)' = {}
  BY DEF Has
<1>3. LoginState(l)' = LoginState(l)
  BY <1>1, <1>2 DEF LoginState
<1>4. Holder(l)' = Holder(l)
  BY <1>1, <1>3 DEF Holder
<1>5. QED
  BY <1>1, <1>3, <1>4

\* A step that all of LoginChain's variables but those of one login ignore.
LEMMA OneLogin ==
  ASSUME NEW l \in Logins,
         \A m \in Logins \ {l} : LoginState(m)' = LoginState(m) /\ Holder(m)' = Holder(m)
  PROVE  /\ States' = [States EXCEPT ![l] = LoginState(l)']
         /\ Holders' = [Holders EXCEPT ![l] = Holder(l)']
BY DEF States, Holders

\* What a step does to the abstract state, with the tokens known to clients.
Sees ==
  \/ States' = States /\ Holders' = Holders /\ known' = known
  \/ Chain!Next

LEMMA AllSame ==
  ASSUME known' = known,
         \A l \in Logins : LoginState(l)' = LoginState(l) /\ Holder(l)' = Holder(l)
  PROVE  Sees
BY DEF Sees, States, Holders

\* Steps that touch the tokens of no login.
LEMMA StillSees ==
  ASSUME TypeOK, Knowing, UNCHANGED <<known, revoked, contended>>,
         \A t \in known : family'[t] = family[t],
         \A t \in known : Counted(t)' <=> Counted(t)
  PROVE  Sees
<1>1. ASSUME NEW l \in Logins PROVE LoginState(l)' = LoginState(l) /\ Holder(l)' = Holder(l)
  <2>1. Has(l)' = Has(l) /\ Has(l) \subseteq known
    BY DEF Has
  <2>2. \A t \in Has(l) : (t \in revoked' <=> t \in revoked) /\ (Counted(t)' <=> Counted(t))
    BY <2>1
  <2>3. QED
    BY <2>1, <2>2, SameView
<1>2. QED
  BY <1>1, AllSame

\* Steps that may take one token away from its client.
LEMMA ShrinkSees ==
  ASSUME TypeOK, Knowing, Chained, NEW x \in known,
         UNCHANGED <<known, contended, family>>,
         \A t \in known \ {x} : (t \in revoked' <=> t \in revoked) /\ (Counted(t)' <=> Counted(t)),
         x \in revoked => x \in revoked', Counted(x)' => Counted(x)
  PROVE  Sees
<1>1. PICK l \in Logins : l = family[x]
  BY KnownIn
<1>2. ASSUME NEW m \in Logins \ {l} PROVE LoginState(m)' = LoginState(m) /\ Holder(m)' = Holder(m)
  <2>1. Has(m)' = Has(m) /\ Has(m) \subseteq known \ {x}
    BY <1>1 DEF Has
  <2>2. \A t \in Has(m) : (t \in revoked' <=> t \in revoked) /\ (Counted(t)' <=> Counted(t))
    BY <2>1
  <2>3. QED
    BY <2>1, <2>2, SameView
<1>3. Seen(l) /\ Seen(l)'
  BY <1>1, SeenAlways, SeenNext
<1>4. Has(l)' = Has(l) /\ x \in Has(l)
  BY <1>1 DEF Has
<1>5. Live(l)' \subseteq Live(l)
  <2>1. Live(l) = {t \in Has(l) : t \notin revoked /\ Counted(t)}
    BY DEF Live, Has, Counted
  <2>2. Live(l)' = {t \in Has(l)' : t \notin revoked' /\ Counted(t)'}
    BY DEF Live, Has, Counted
  <2>3. Has(l) \subseteq known
    BY DEF Has
  <2>4. QED
    BY <1>4, <2>1, <2>2, <2>3
<1>6. CASE l \in contended
  <2>1. LoginState(l)' = LoginState(l) /\ Holder(l)' = Holder(l)
    BY <1>3, <1>6 DEF Seen
  <2>2. QED
    BY <1>2, <2>1, AllSame
<1>7. CASE l \notin contended /\ Live(l)' = {} /\ Live(l) # {}
  <2>1. LoginState(l) = "open" /\ LoginState(l)' = "ended" /\ Holder(l)' = NoToken
    BY <1>3, <1>4, <1>7 DEF Seen
  <2>2. States' = [States EXCEPT ![l] = "ended"] /\ Holders' = [Holders EXCEPT ![l] = NoToken]
    BY <1>1, <1>2, <2>1, OneLogin
  <2>3. Chain!End(l)
    BY <1>1, <2>1, <2>2 DEF Chain!End, Chain!Leave, States, Holders
  <2>4. QED
    BY <1>1, <2>3 DEF Sees, Chain!Next
<1>8. CASE l \notin contended /\ (Live(l)' # {} \/ Live(l) = {})
  <2>1. \A t, u \in Live(l) : t = u
    BY <1>1, <1>8 DEF Chained, OneUsable, Live
  <2>2. Live(l)' = Live(l)
    BY <1>5, <1>8, <2>1
  <2>3. LoginState(l)' = LoginState(l)
    BY <1>3, <1>4, <1>8, <2>2 DEF Seen
  <2>4. Holder(l)' = Holder(l)
    BY <2>2, <2>3 DEF Holder
  <2>5. QED
    BY <1>2, <2>3, <2>4, AllSame
<1>9. QED
  BY <1>6, <1>7, <1>8

\* The tokens found in time that a request which ends may take away.
LEMMA InTimeEnds ==
  ASSUME NEW p \in Procs, proc'[p].pc = "idle", \A q \in Procs \ {p} : proc'[q] = proc[q]
  PROVE  /\ InTime' \subseteq InTime
         /\ \A t \in InTime \ InTime' : proc[p].pc \in {"issue", "revoke"} /\ t = proc[p].token
BY DEF InTime

LEMMA EndSees ==
  ASSUME TypeOK, Knowing, Chained, NEW p \in Procs,
         RefreshExpire(p) \/ LogoutRevoke(p) \/ Dies(p) \/ AnswerLost(p)
  PROVE  Sees
<1>0. PICK t : t = proc[p].token
  OBVIOUS
<1>1. UNCHANGED <<known, contended, family, overdue>> /\ Become(p, Idle)
  BY DEF RefreshExpire, LogoutRevoke, Dies, AnswerLost, rows
<1>2. proc'[p].pc = "idle" /\ \A q \in Procs \ {p} : proc'[q] = proc[q]
  BY <1>1, EndIs
<1>3. /\ InTime' \subseteq InTime
      /\ \A x \in InTime \ InTime' : proc[p].pc \in {"issue", "revoke"} /\ x = t
  BY <1>0, <1>2, InTimeEnds
<1>4. CASE proc[p].pc \in TokenPcs \cup {"revoke"}
  <2>1. t \in known
    BY <1>0, <1>4, HeldIn
  <2>2. revoked' = revoked \/ revoked' = revoked \cup {t}
    BY <1>0 DEF RefreshExpire, LogoutRevoke, Dies, AnswerLost, rows, Revoke
  <2>3. (\A x \in known \ {t} : Counted(x)' <=> Counted(x)) /\ (Counted(t)' => Counted(t))
    BY <1>1, <1>3 DEF Counted
  <2>4. (\A x \in known \ {t} : x \in revoked' <=> x \in revoked) /\ revoked \subseteq revoked'
    BY <2>2
  <2>5. QED
    BY <1>1, <2>1, <2>3, <2>4, ShrinkSees
<1>5. CASE proc[p].pc \notin TokenPcs \cup {"revoke"}
  <2>1. revoked' = revoked
    BY <1>5 DEF RefreshExpire, LogoutRevoke, Dies, AnswerLost, rows, TokenPcs
  <2>2. \A x \in known : Counted(x)' <=> Counted(x)
    BY <1>1, <1>3, <1>5 DEF Counted, TokenPcs
  <2>3. QED
    BY <1>1, <2>1, <2>2, StillSees
<1>6. QED
  BY <1>4, <1>5

LEMMA TimeSees ==
  ASSUME TypeOK, Knowing, Chained, NEW t \in Tokens, TimePasses(t)
  PROVE  Sees
<1>1. /\ UNCHANGED <<known, contended, family, revoked, proc>>
      /\ t \in known /\ overdue' = overdue \cup {t}
  BY DEF TimePasses
<1>2. InTime' = InTime
  BY <1>1 DEF InTime
<1>3. (\A x \in known \ {t} : Counted(x)' <=> Counted(x)) /\ (Counted(t)' => Counted(t))
  BY <1>1, <1>2 DEF Counted
<1>4. QED
  BY <1>1, <1>3, ShrinkSees


\* Has request p found token x in time?
Finds(p, x) == proc[p].pc \in {"issue", "revoke"} /\ proc[p].token = x

LEMMA InTimeKept ==
  ASSUME NEW p \in Procs, \A q \in Procs \ {p} : proc'[q] = proc[q],
         NEW x, Finds(p, x)' <=> Finds(p, x)
  PROVE  x \in InTime' <=> x \in InTime
<1>1. x \in InTime <=> \E q \in Procs : Finds(q, x)
  BY DEF InTime, Finds
<1>2. x \in InTime' <=> \E q \in Procs : Finds(q, x)'
  BY DEF InTime, Finds
<1>3. \A q \in Procs \ {p} : Finds(q, x)' <=> Finds(q, x)
  BY DEF Finds
<1>4. QED
  BY <1>1, <1>2, <1>3

LEMMA QuietSees ==
  ASSUME TypeOK, Knowing, NEW p \in Procs,
         \/ \E l \in Logins : LoginLook(p, l)
         \/ RefreshUser(p) \/ RefreshResolve(p) \/ RefreshIssue(p)
  PROVE  Sees
<1>1. UNCHANGED <<known, revoked, contended, overdue>>
  BY DEF LoginLook, RefreshUser, RefreshResolve, RefreshIssue, rows
<1>2. \A t \in known : family'[t] = family[t]
  <2>1. [Next]_vars
    BY DEF Next, Step
  <2>2. QED
    BY <2>1, FamilyKept DEF TypeOK
<1>3. \A q \in Procs \ {p} : proc'[q] = proc[q]
  BY DEF LoginLook, RefreshUser, RefreshResolve, RefreshIssue, Begin, Go, Become, TypeOK
<1>4. \A x \in known \cap overdue : Finds(p, x)' <=> Finds(p, x)
  <2>1. CASE \E l \in Logins : LoginLook(p, l)
    <3>1. proc[p].pc = "idle" /\ proc'[p].pc = "login"
      BY <2>1, BecomeIs DEF LoginLook, Begin, Idle
    <3>2. QED
      BY <3>1 DEF Finds
  <2>2. CASE RefreshUser(p)
    <3>1. proc[p].pc = "user" /\ proc'[p].pc \in {"resolve", "idle"}
      BY <2>2 DEF RefreshUser, Go, Become, TypeOK, Idle
    <3>2. QED
      BY <3>1 DEF Finds
  <2>3. CASE RefreshResolve(p)
    <3>1. proc[p].pc = "resolve"
      BY <2>3 DEF RefreshResolve
    <3>2. \/ proc'[p].pc \in {"expire", "idle"}
          \/ proc'[p].pc = "issue" /\ proc'[p].token \notin overdue
      BY <2>3 DEF RefreshResolve, Go, Become, TypeOK, Idle
    <3>3. QED
      BY <3>1, <3>2 DEF Finds
  <2>4. CASE RefreshIssue(p)
    <3>1. proc[p].pc = "issue" /\ proc'[p].pc = "revoke" /\ proc'[p].token = proc[p].token
      BY <2>4, BecomeIs DEF RefreshIssue
    <3>2. QED
      BY <3>1 DEF Finds
  <2>5. QED
    BY <2>1, <2>2, <2>3, <2>4
<1>5. \A x \in known : Counted(x)' <=> Counted(x)
  <2>1. \A x \in known \cap overdue : x \in InTime' <=> x \in InTime
    BY <1>3, <1>4, InTimeKept
  <2>2. QED
    BY <1>1, <2>1 DEF Counted
<1>6. QED
  BY <1>1, <1>2, <1>5, StillSees

\* A second request with a token of the login releases it.
LEMMA PresentSees ==
  ASSUME TypeOK, Knowing, Chained, NEW p \in Procs, NEW t \in Tokens, Refresh(p, t) \/ Logout(p, t)
  PROVE  Sees
<1>1. PICK pc \in {"logout", "expire", "user"} : Present(p, t, pc)
  BY DEF Refresh, Logout
<1>2. /\ UNCHANGED <<revoked, overdue, known, family>>
      /\ proc[p] = Idle /\ Become(p, [pc |-> pc, token |-> t])
      /\ t \in known
      /\ contended' = contended \/ contended' = contended \cup {family[t]}
  BY <1>1 DEF Present, Begin, rows
<1>3. proc'[p].pc = pc /\ proc[p].pc = "idle" /\ \A q \in Procs \ {p} : proc'[q] = proc[q]
  BY <1>2, BecomeIs DEF Idle
<1>4. \A x \in known : Counted(x)' <=> Counted(x)
  <2>1. \A x : Finds(p, x)' <=> Finds(p, x)
    BY <1>3 DEF Finds
  <2>2. \A x : x \in InTime' <=> x \in InTime
    BY <1>3, <2>1, InTimeKept
  <2>3. QED
    BY <1>2, <2>2 DEF Counted
<1>5. CASE contended' = contended
  BY <1>2, <1>4, <1>5, StillSees
<1>6. CASE contended' # contended
  <2>1. PICK l \in Logins : l = family[t]
    BY <1>2, KnownIn
  <2>2. contended' = contended \cup {l} /\ l \notin contended
    BY <1>2, <1>6, <2>1
  <2>3. ASSUME NEW m \in Logins \ {l} PROVE LoginState(m)' = LoginState(m) /\ Holder(m)' = Holder(m)
    <3>1. Has(m)' = Has(m) /\ Has(m) \subseteq known
      BY <1>2 DEF Has
    <3>2. \A x \in Has(m) : (x \in revoked' <=> x \in revoked) /\ (Counted(x)' <=> Counted(x))
      BY <1>2, <1>4, <3>1
    <3>3. QED
      BY <2>2, <3>1, <3>2, SameView
  <2>4. t \in Has(l)
    BY <1>2, <2>1 DEF Has
  <2>5. LoginState(l) \in {"open", "ended"} /\ LoginState(l)' = "released" /\ Holder(l)' = NoToken
    BY <2>2, <2>4, SeenAlways, SeenNext DEF Seen
  <2>6. States' = [States EXCEPT ![l] = "released"] /\ Holders' = [Holders EXCEPT ![l] = NoToken]
    BY <2>3, <2>5, OneLogin
  <2>7. Chain!Release(l)
    BY <1>2, <2>5, <2>6 DEF Chain!Release, Chain!Leave, States, Holders
  <2>8. QED
    BY <2>7 DEF Sees, Chain!Next
<1>7. QED
  BY <1>5, <1>6

\* The first token of a login.
LEMMA LoginSees ==
  ASSUME TypeOK, Knowing, Chained, NEW p \in Procs, LoginIssue(p)
  PROVE  Sees
<1>1. PICK l \in Logins : l = proc[p].login
  BY LoginHas DEF LoginIssue
<1>2. PICK new \in Tokens : new = issued + 1
  BY <1>1, InsertIs DEF LoginIssue
<1>3. /\ proc[p].pc = "login" /\ \A x \in Tokens : family[x] # l
      /\ UNCHANGED <<revoked, overdue, contended>> /\ known' = known \cup {new} /\ Become(p, Idle)
  BY <1>1, <1>2 DEF LoginIssue, Knowing, Holding
<1>4. family'[new] = l /\ new \notin 1..issued /\ \A x \in 1..issued : family'[x] = family[x]
  BY <1>1, <1>2, InsertIs DEF LoginIssue
<1>5. /\ known \subseteq 1..issued /\ known \subseteq Tokens /\ new \notin known
      /\ revoked \subseteq known /\ overdue \subseteq known
  BY <1>4, KnownIn DEF Knowing, RowsAgree
<1>6. proc'[p].pc = "idle" /\ \A q \in Procs \ {p} : proc'[q] = proc[q]
  BY <1>3, EndIs
<1>7. \A x : Counted(x)' <=> Counted(x)
  <2>1. \A x : Finds(p, x)' <=> Finds(p, x)
    BY <1>3, <1>6 DEF Finds
  <2>2. \A x : x \in InTime' <=> x \in InTime
    BY <1>6, <2>1, InTimeKept
  <2>3. QED
    BY <1>3, <2>2 DEF Counted
<1>8. ASSUME NEW m \in Logins \ {l} PROVE LoginState(m)' = LoginState(m) /\ Holder(m)' = Holder(m)
  <2>1. Has(m)' = Has(m)
    BY <1>3, <1>4, <1>5 DEF Has
  <2>2. QED
    BY <1>3, <1>7, <2>1, SameView
<1>9. Has(l) = {} /\ Has(l)' = {new}
  BY <1>3, <1>4, <1>5 DEF Has
<1>10. Live(l)' = {new}
  <2>1. Live(l)' = {t \in Has(l)' : t \notin revoked' /\ Counted(t)'}
    BY DEF Live, Has, Counted
  <2>2. new \notin revoked' /\ Counted(new)'
    BY <1>3, <1>5 DEF Counted
  <2>3. QED
    BY <1>9, <2>1, <2>2
<1>11. l \notin contended
  BY <1>3, <1>5 DEF Knowing, RowsAgree
<1>12. LoginState(l) = "unused" /\ LoginState(l)' = "open" /\ Holder(l)' = new
  BY <1>3, <1>9, <1>10, <1>11, SeenAlways, SeenNext DEF Seen
<1>13. States' = [States EXCEPT ![l] = "open"] /\ Holders' = [Holders EXCEPT ![l] = new]
  BY <1>8, <1>12, OneLogin
<1>14. Chain!Open(l, new)
  BY <1>3, <1>5, <1>12, <1>13 DEF Chain!Open, Chain!HandOut, States, Holders
<1>15. QED
  BY <1>14 DEF Sees, Chain!Next

\* One token takes the place of another.
LEMMA RotateSees ==
  ASSUME TypeOK, Knowing, Chained, NEW p \in Procs, RefreshRevoke(p)
  PROVE  Sees
<1>1. PICK t \in known : t = proc[p].token
  BY HeldIn DEF RefreshRevoke
<1>2. PICK l \in Logins : l = family[t]
  BY <1>1, KnownIn
<1>3. PICK new \in Tokens : new = proc[p].next
  BY NextHas DEF RefreshRevoke
<1>4. /\ proc[p].pc = "revoke" /\ new \notin known /\ family[new] = l
      /\ UNCHANGED <<overdue, contended, family>> /\ revoked' = revoked \cup {t}
      /\ known' = known \cup {new} /\ Become(p, Idle)
  BY <1>1, <1>2, <1>3 DEF RefreshRevoke, Revoke, Knowing, Holding
<1>5. proc'[p].pc = "idle" /\ \A q \in Procs \ {p} : proc'[q] = proc[q]
  BY <1>4, EndIs
<1>6. \A x \in known \ {t} : Counted(x)' <=> Counted(x)
  <2>1. /\ InTime' \subseteq InTime
        /\ \A x \in InTime \ InTime' : x = t
    BY <1>1, <1>5, InTimeEnds
  <2>2. QED
    BY <1>4, <2>1 DEF Counted
<1>7. ASSUME NEW m \in Logins \ {l} PROVE LoginState(m)' = LoginState(m) /\ Holder(m)' = Holder(m)
  <2>1. Has(m)' = Has(m) /\ Has(m) \subseteq known \ {t}
    BY <1>2, <1>4 DEF Has
  <2>2. \A x \in Has(m) : (x \in revoked' <=> x \in revoked) /\ (Counted(x)' <=> Counted(x))
    BY <1>4, <1>6, <2>1
  <2>3. QED
    BY <1>4, <2>1, <2>2, SameView
<1>8. CASE l \in contended
  <2>1. LoginState(l) = "released" /\ LoginState(l)' = "released" /\ Holder(l) = NoToken /\ Holder(l)' = NoToken
    BY <1>4, <1>8, SeenAlways, SeenNext DEF Seen
  <2>2. States' = States /\ Holders' = Holders
    BY <1>7, <2>1 DEF States, Holders
  <2>3. Chain!RotateReleased(l, new)
    BY <1>4, <2>1, <2>2 DEF Chain!RotateReleased, States, Holders
  <2>4. QED
    BY <2>3 DEF Sees, Chain!Next
<1>9. CASE l \notin contended
  <2>1. p \in Working(l)
    BY <1>1, <1>2, <1>4 DEF Working
  <2>2. t \notin revoked
    BY <1>1, <1>9, <2>1 DEF Chained, Alone
  <2>3. t \in Live(l)
    BY <1>1, <1>2, <1>4, <2>2 DEF Live, InTime
  <2>4. t \in Has(l) /\ LoginState(l) = "open"
    <3>1. t \in Has(l)
      BY <1>2 DEF Has
    <3>2. QED
      BY <1>9, <2>3, <3>1, SeenAlways DEF Seen
  <2>5. \A x \in known \ revoked : family[x] = l => x = t
    BY <1>2, <1>9, <2>2 DEF Chained, OneUsable
  <2>6. new \notin revoked' /\ new \notin overdue'
    BY <1>4 DEF Knowing, RowsAgree
  <2>7. Live(l)' = {new}
    BY <1>4, <2>5, <2>6 DEF Live
  <2>8. new \in Has(l)'
    BY <1>4 DEF Has
  <2>9. LoginState(l)' = "open" /\ Holder(l)' = new
    BY <1>4, <1>9, <2>7, <2>8, SeenNext DEF Seen
  <2>10. States' = [States EXCEPT ![l] = "open"] /\ Holders' = [Holders EXCEPT ![l] = new]
    BY <1>7, <2>9, OneLogin
  <2>11. States' = States
    BY <2>4, <2>10 DEF States
  <2>12. Chain!Rotate(l, new)
    BY <1>4, <2>4, <2>10, <2>11 DEF Chain!Rotate, Chain!HandOut, States, Holders
  <2>13. QED
    BY <2>12 DEF Sees, Chain!Next
<1>10. QED
  BY <1>8, <1>9

LEMMA NextSees ==
  ASSUME TypeOK, Knowing, Chained, [Next]_vars
  PROVE  Sees
<1>1. CASE UNCHANGED vars \/ \E u \in Users, b \in BOOLEAN : SetActive(u, b)
  <2>1. UNCHANGED <<known, revoked, contended, family, proc, overdue>>
    BY <1>1 DEF vars, SetActive
  <2>2. \A x \in known : Counted(x)' <=> Counted(x)
    BY <2>1 DEF Counted, InTime
  <2>3. QED
    BY <2>1, <2>2, StillSees
<1>2. CASE \E t \in Tokens : TimePasses(t)
  BY <1>2, TimeSees
<1>3. ASSUME NEW p \in Procs,
             \/ \E l \in Logins : LoginLook(p, l)
             \/ \E t \in Tokens : Refresh(p, t) \/ Logout(p, t)
             \/ RefreshUser(p) \/ RefreshResolve(p)
             \/ RefreshExpire(p) \/ LogoutRevoke(p) \/ Dies(p) \/ AnswerLost(p)
             \/ LoginIssue(p) \/ RefreshIssue(p) \/ RefreshRevoke(p)
      PROVE  Sees
  BY <1>3, QuietSees, PresentSees, EndSees, LoginSees, RotateSees
<1>4. QED
  BY <1>1, <1>2, <1>3, StepIsOne

LEMMA InitSees == Init => Chain!Init /\ Chained
<1> SUFFICES ASSUME Init PROVE Chain!Init /\ Chained
  OBVIOUS
<1>1. known = {} /\ contended = {} /\ \A p \in Procs : proc[p].pc = "idle"
  BY DEF Init, Idle
<1>2. ASSUME NEW l \in Logins PROVE LoginState(l) = "unused" /\ Holder(l) = NoToken
  <2>1. LoginState(l) = "unused"
    BY <1>1 DEF LoginState
  <2>2. QED
    BY <2>1 DEF Holder
<1>3. Chain!Init
  BY <1>1, <1>2 DEF Chain!Init
<1>4. Chained
  BY <1>1 DEF Chained, OneUsable, Alone, Working
<1>5. QED
  BY <1>3, <1>4

(* To its clients a refresh is one step, which replaces one token by        *)
(* another, and a login that one request at a time works on never has two:  *)
(* every behaviour of the five statements of a refresh, of its crashes and  *)
(* of its lost answers is one of LoginChain.                                *)
THEOREM ImplementsLoginChain == Spec => KeepsOneToken
<1>1. TypeOK /\ Knowing /\ Chained /\ [Next]_vars => Chained'
  BY NextChained
<1>2. TypeOK /\ Knowing /\ Chained /\ [Next]_vars => [Chain!Next]_(Chain!vars)
  BY NextSees DEF Sees, States, Holders, Chain!vars
<1>3. QED
  BY <1>1, <1>2, InitSees, RequestsKnow, PTL DEF Spec, KeepsOneToken, Chain!Spec

=============================================================================
