---------------------------- MODULE AccessProofs ----------------------------
(* Theorems about Access for every value of its constants.                  *)
EXTENDS Access, FiniteSetTheorems, TLAPS

-----------------------------------------------------------------------------
(* Types: what a request at some point of its handler knows.                *)

LEMMA ProcType ==
  ASSUME TypeOK, NEW p \in Procs, proc[p].pc # "idle"
  PROVE  proc[p] \in ProcRun
BY DEF TypeOK, Idle

LEMMA KeyedHas ==
  ASSUME TypeOK, NEW p \in Procs, proc[p].pc \in {"codes", "roles", "store", "delete"}
  PROVE  /\ proc[p].server \in Servers
         /\ proc[p].user \in Users
         /\ proc[p].pc = "roles" => proc[p].codes \in SUBSET Codes
         /\ proc[p].pc = "store" => proc[p].list \in Lists
<1>1. proc[p] \in ProcRun
  BY ProcType
<1>2. QED
  BY <1>1 DEF ProcRun

LEMMA HoldersHas ==
  ASSUME TypeOK, NEW p \in Procs, proc[p].pc \in {"holders", "delete all"}
  PROVE  /\ proc[p].server \in Servers
         /\ proc[p].pc = "holders" => proc[p].role \in Roles
         /\ proc[p].pc = "delete all" => proc[p].users \in SUBSET Users
<1>1. proc[p] \in ProcRun
  BY ProcType
<1>2. QED
  BY <1>1 DEF ProcRun

LEMMA WorkerHas ==
  ASSUME TypeOK, NEW p \in Procs, proc[p].pc \in {"holds", "commit", "remove"}
  PROVE  proc[p].user \in Users
<1>1. proc[p] \in ProcRun
  BY ProcType
<1>2. QED
  BY <1>1 DEF ProcRun

LEMMA ChangerHas ==
  ASSUME TypeOK, NEW p \in Procs, proc[p].pc \in {"holds", "commit"}
  PROVE  /\ proc[p] \in [pc : {"holds", "commit"}, user : Users, from : Roles, to : Roles]
         /\ proc[p].from \in Roles
         /\ proc[p].to \in Roles
<1>1. proc[p] \in ProcRun
  BY ProcType
<1>2. proc[p] \in [pc : {"holds", "commit"}, user : Users, from : Roles, to : Roles]
  BY <1>1 DEF ProcRun
<1>3. QED
  BY <1>2

LEMMA CodesType ==
  ASSUME TypeOK, NEW u \in Users
  PROVE  CodesOf(u) \in SUBSET Codes
BY RolePermissionsType DEF TypeOK, CodesOf

LEMMA BecomeType ==
  ASSUME TypeOK, NEW p \in Procs, NEW state \in ProcRun \cup {Idle}, Become(p, state)
  PROVE  proc' \in [Procs -> ProcRun \cup {Idle}]
BY DEF TypeOK, Become

LEMMA BeginType ==
  ASSUME TypeOK, NEW p \in Procs, NEW state \in ProcRun \cup {Idle}, Begin(p, state)
  PROVE  /\ proc' \in [Procs -> ProcRun \cup {Idle}]
         /\ calls' \in 0..MaxCalls
         /\ faults' \in 0..MaxFaults
<1>1. proc' \in [Procs -> ProcRun \cup {Idle}]
  BY BecomeType DEF Begin
<1>2. calls' \in 0..MaxCalls /\ faults' \in 0..MaxFaults
  BY MaxCallsNat DEF Begin, TypeOK
<1>3. QED
  BY <1>1, <1>2

LEMMA GoType ==
  ASSUME TypeOK, NEW p \in Procs, NEW state \in ProcRun \cup {Idle}, Go(p, state)
  PROVE  /\ proc' \in [Procs -> ProcRun \cup {Idle}]
         /\ calls' \in 0..MaxCalls
         /\ faults' \in 0..MaxFaults
<1>1. proc' \in [Procs -> ProcRun \cup {Idle}]
  BY BecomeType DEF Go
<1>2. calls' \in 0..MaxCalls /\ faults' \in 0..MaxFaults
  BY DEF Go, TypeOK
<1>3. QED
  BY <1>1, <1>2

\* The history keeps its type in every step.
LEMMA ChangedType ==
  ASSUME TypeOK, NEW us \in SUBSET Users, NEW told, Changed(us, told)
  PROVE  excused' \in SUBSET (Servers \X Users)
BY DEF TypeOK, Changed, Overtaken

LEMMA ContendType ==
  ASSUME TypeOK, NEW u \in Users, Contend(u)
  PROVE  contended' \in SUBSET Users
BY DEF TypeOK, Contend

LEMMA ForgetType ==
  ASSUME TypeOK, NEW s \in Servers, NEW us \in SUBSET Users, Forget(s, us)
  PROVE  /\ cache' \in [Servers -> [Users -> Lists \cup {Absent}]]
         /\ excused' \in SUBSET (Servers \X Users)
<1>1. excused' \in SUBSET (Servers \X Users)
  BY DEF TypeOK, Forget
<1>2. [u \in Users |-> IF u \in us THEN Absent ELSE cache[s][u]] \in [Users -> Lists \cup {Absent}]
  BY DEF TypeOK
<1>3. cache' \in [Servers -> [Users -> Lists \cup {Absent}]]
  BY <1>2 DEF TypeOK, Forget
<1>4. QED
  BY <1>1, <1>3

-----------------------------------------------------------------------------

LEMMA InitType == Init => TypeOK
BY MaxCallsNat, MaxFaultsNat DEF Init, TypeOK

LEMMA ListType ==
  ASSUME TypeOK, NEW p \in Procs, ListStep(p)
  PROVE  TypeOK'
<1>1. ASSUME ListCodes(p) PROVE TypeOK'
  <2>1. [pc |-> "roles", server |-> proc[p].server, user |-> proc[p].user, codes |-> CodesOf(proc[p].user)] \in ProcRun
    BY <1>1, KeyedHas, CodesType DEF ListCodes, ProcRun
  <2>2. QED
    BY <1>1, <2>1, GoType DEF ListCodes, TypeOK, rows, history
<1>2. ASSUME ListRoles(p) PROVE TypeOK'
  <2>1. roles[proc[p].user] \in SUBSET Roles
    BY <1>2, KeyedHas DEF ListRoles, TypeOK
  <2>2. [pc |-> "store", server |-> proc[p].server, user |-> proc[p].user,
         list |-> [codes |-> proc[p].codes, roles |-> roles[proc[p].user]]] \in ProcRun
    BY <1>2, <2>1, KeyedHas DEF ListRoles, ProcRun, Lists
  <2>3. QED
    BY <1>2, <2>2, GoType DEF ListRoles, TypeOK, rows, history
<1>3. ASSUME ListStore(p) PROVE TypeOK'
  <2>1. cache' \in [Servers -> [Users -> Lists \cup {Absent}]]
    BY <1>3, KeyedHas DEF ListStore, TypeOK
  <2>2. QED
    BY <1>3, <2>1, GoType DEF ListStore, TypeOK, rows, history
<1>4. QED
  BY <1>1, <1>2, <1>3 DEF ListStep

LEMMA PermitType ==
  ASSUME TypeOK, NEW p \in Procs, NEW s \in Servers, NEW u \in Users, Permit(p, s, u)
  PROVE  TypeOK'
<1>0. Invalidate(s, u) \in ProcRun
  BY DEF Invalidate, ProcRun
<1>1. ASSUME NEW c \in Codes, AssignToUser(p, s, u, c) PROVE TypeOK'
  <2>1. excused' \in SUBSET (Servers \X Users)
    BY <1>1, ChangedType DEF AssignToUser
  <2>2. grants' \in [Users -> SUBSET Codes]
    BY <1>1 DEF AssignToUser, TypeOK
  <2>3. QED
    BY <1>0, <1>1, <2>1, <2>2, BeginType DEF AssignToUser, TypeOK
<1>2. ASSUME NEW c \in Codes, RevokeFromUser(p, s, u, c) PROVE TypeOK'
  <2>1. excused' \in SUBSET (Servers \X Users)
    BY <1>2, ChangedType DEF RevokeFromUser
  <2>2. grants' \in [Users -> SUBSET Codes]
    BY <1>2 DEF RevokeFromUser, TypeOK
  <2>3. QED
    BY <1>0, <1>2, <2>1, <2>2, BeginType DEF RevokeFromUser, TypeOK
<1>3. ASSUME NEW r \in Roles, AssignRole(p, s, u, r) PROVE TypeOK'
  <2>1. excused' \in SUBSET (Servers \X Users) /\ contended' \in SUBSET Users
    BY <1>3, ChangedType, ContendType DEF AssignRole
  <2>2. roles' \in [Users -> SUBSET Roles] /\ removed' \in SUBSET Users
    BY <1>3 DEF AssignRole, TypeOK
  <2>3. QED
    BY <1>0, <1>3, <2>1, <2>2, BeginType DEF AssignRole, TypeOK
<1>4. ASSUME NEW r \in Roles, RevokeRole(p, s, u, r) PROVE TypeOK'
  <2>1. excused' \in SUBSET (Servers \X Users) /\ contended' \in SUBSET Users
    BY <1>4, ChangedType, ContendType DEF RevokeRole
  <2>2. roles' \in [Users -> SUBSET Roles]
    BY <1>4 DEF RevokeRole, TypeOK
  <2>3. QED
    BY <1>0, <1>4, <2>1, <2>2, BeginType DEF RevokeRole, TypeOK
<1>5. QED
  BY <1>1, <1>2, <1>3, <1>4 DEF Permit

LEMMA EmployType ==
  ASSUME TypeOK, NEW p \in Procs, NEW u \in Users, Employ(p, u)
  PROVE  TypeOK'
<1>1. ASSUME NEW r \in Roles, NEW q \in Roles, ChangeRole(p, u, r, q) PROVE TypeOK'
  <2>1. [pc |-> "holds", user |-> u, from |-> r, to |-> q] \in ProcRun
    BY DEF ProcRun
  <2>2. contended' \in SUBSET Users
    BY <1>1, ContendType DEF ChangeRole
  <2>3. QED
    BY <1>1, <2>1, <2>2, BeginType DEF ChangeRole, TypeOK, rows
<1>2. ASSUME RemoveStaff(p, u) PROVE TypeOK'
  <2>1. [pc |-> "remove", user |-> u] \in ProcRun
    BY DEF ProcRun
  <2>2. contended' \in SUBSET Users
    BY <1>2, ContendType DEF RemoveStaff
  <2>3. QED
    BY <1>2, <2>1, <2>2, BeginType DEF RemoveStaff, TypeOK, rows
<1>3. ASSUME RemoveFromSchool(p, u) PROVE TypeOK'
  <2>1. members' \in SUBSET Users
    BY <1>3 DEF RemoveFromSchool, TypeOK
  <2>2. QED
    BY <1>3, <2>1, BeginType DEF RemoveFromSchool, TypeOK, history
<1>4. ASSUME NEW r \in Roles, Join(p, u, r) PROVE TypeOK'
  <2>1. excused' \in SUBSET (Servers \X Users) /\ contended' \in SUBSET Users
    BY <1>4, ChangedType, ContendType DEF Join
  <2>2. roles' \in [Users -> SUBSET Roles] /\ members' \in SUBSET Users /\ removed' \in SUBSET Users
    BY <1>4 DEF Join, TypeOK
  <2>3. QED
    BY <1>4, <2>1, <2>2, BeginType DEF Join, TypeOK
<1>5. QED
  BY <1>1, <1>2, <1>3, <1>4 DEF Employ, CreateInSchool, CompleteRegistration

LEMMA ChangeType ==
  ASSUME TypeOK, NEW p \in Procs, ChangeStep(p)
  PROVE  TypeOK'
<1>0. Idle \in ProcRun \cup {Idle}
  OBVIOUS
<1>1. ASSUME ReadHolders(p) PROVE TypeOK'
  <2>1. [pc |-> "delete all", server |-> proc[p].server,
         users |-> {u \in Users : proc[p].role \in roles[u]}] \in ProcRun
    BY <1>1, HoldersHas DEF ReadHolders, ProcRun
  <2>2. excused' \in SUBSET (Servers \X Users)
    BY <1>1 DEF ReadHolders, TypeOK, Overtaken
  <2>3. QED
    BY <1>1, <2>1, <2>2, GoType DEF ReadHolders, TypeOK, rows
<1>2. ASSUME Delete(p) PROVE TypeOK'
  <2>1. proc[p].server \in Servers
    BY <1>2, KeyedHas, HoldersHas DEF Delete
  <2>2. (IF proc[p].pc = "delete" THEN {proc[p].user} ELSE proc[p].users) \in SUBSET Users
    BY <1>2, KeyedHas, HoldersHas DEF Delete
  <2>3. /\ cache' \in [Servers -> [Users -> Lists \cup {Absent}]]
        /\ excused' \in SUBSET (Servers \X Users)
    BY <1>2, <2>1, <2>2, ForgetType DEF Delete
  <2>4. QED
    BY <1>0, <1>2, <2>3, GoType DEF Delete, TypeOK, rows
<1>3. ASSUME ChangeHolds(p) PROVE TypeOK'
  <2>1. [proc[p] EXCEPT !.pc = "commit"] \in ProcRun
    BY <1>3, ChangerHas DEF ChangeHolds, ProcRun
  <2>2. QED
    BY <1>0, <1>3, <2>1, GoType DEF ChangeHolds, TypeOK, rows, history
<1>4. ASSUME ChangeCommit(p) PROVE TypeOK'
  <2>1. proc[p].user \in Users /\ proc[p].to \in Roles
    BY <1>4, WorkerHas, ChangerHas DEF ChangeCommit
  <2>2. excused' \in SUBSET (Servers \X Users)
    BY <1>4, <2>1, ChangedType DEF ChangeCommit, TypeOK
  <2>3. roles' \in [Users -> SUBSET Roles]
    BY <1>4, <2>1 DEF ChangeCommit, TypeOK
  <2>4. QED
    BY <1>0, <1>4, <2>2, <2>3, GoType DEF ChangeCommit, TypeOK
<1>5. ASSUME RemoveCommit(p) PROVE TypeOK'
  <2>1. proc[p].user \in Users
    BY <1>5, WorkerHas DEF RemoveCommit
  <2>2. excused' \in SUBSET (Servers \X Users)
    BY <1>5, <2>1, ChangedType DEF RemoveCommit
  <2>3. /\ roles' \in [Users -> SUBSET Roles]
        /\ members' \in SUBSET Users
        /\ removed' \in SUBSET Users
    BY <1>5, <2>1 DEF RemoveCommit, TypeOK
  <2>4. QED
    BY <1>0, <1>5, <2>2, <2>3, GoType DEF RemoveCommit, TypeOK
<1>6. QED
  BY <1>1, <1>2, <1>3, <1>4, <1>5 DEF ChangeStep

LEMMA LookType ==
  ASSUME TypeOK, NEW p \in Procs, NEW s \in Servers, NEW u \in Users, ListLook(p, s, u)
  PROVE  TypeOK'
<1>1. [pc |-> "codes", server |-> s, user |-> u] \in ProcRun
  BY DEF ProcRun
<1>2. QED
  BY <1>1, BeginType DEF ListLook, TypeOK, rows, history

LEMMA AssignAllType ==
  ASSUME TypeOK, NEW p \in Procs, NEW s \in Servers, NEW r \in Roles, NEW c \in Codes, AssignToRole(p, s, r, c)
  PROVE  TypeOK'
<1>1. [pc |-> "holders", server |-> s, role |-> r] \in ProcRun
  BY DEF ProcRun
<1>2. excused' \in SUBSET (Servers \X Users)
  BY DEF AssignToRole, Changed, Overtaken, TypeOK
<1>3. grants' \in [Users -> SUBSET Codes]
  BY DEF AssignToRole, TypeOK
<1>4. QED
  BY <1>1, <1>2, <1>3, BeginType DEF AssignToRole, TypeOK

LEMMA FaultType ==
  ASSUME TypeOK
  PROVE  /\ \A p \in Procs : Fails(p) => TypeOK'
         /\ \A s \in Servers : Restart(s) => TypeOK'
         /\ \A s \in Servers, u \in Users : Expire(s, u) => TypeOK'
<1>1. ASSUME NEW p \in Procs, Fails(p) PROVE TypeOK'
  <2>1. faults' \in 0..MaxFaults
    BY <1>1, MaxFaultsNat DEF Fails, TypeOK
  <2>2. excused' \in SUBSET (Servers \X Users)
    BY <1>1 DEF Fails, TypeOK, Overtaken
  <2>3. QED
    BY <1>1, <2>1, <2>2, BecomeType DEF Fails, TypeOK, rows
<1>2. ASSUME NEW s \in Servers, Restart(s) PROVE TypeOK'
  <2>1. faults' \in 0..MaxFaults
    BY <1>2, MaxFaultsNat DEF Restart, TypeOK
  <2>2. cache' \in [Servers -> [Users -> Lists \cup {Absent}]]
    BY <1>2 DEF Restart, TypeOK
  <2>3. proc' \in [Procs -> ProcRun \cup {Idle}]
    BY <1>2 DEF Restart, TypeOK
  <2>4. QED
    BY <1>2, <2>1, <2>2, <2>3 DEF Restart, TypeOK, rows
<1>3. ASSUME NEW s \in Servers, NEW u \in Users, Expire(s, u) PROVE TypeOK'
  <2>1. /\ cache' \in [Servers -> [Users -> Lists \cup {Absent}]]
        /\ excused' \in SUBSET (Servers \X Users)
    BY <1>3, ForgetType DEF Expire
  <2>2. QED
    BY <1>3, <2>1 DEF Expire, TypeOK, rows
<1>4. QED
  BY <1>1, <1>2, <1>3

(* Every row and every local state of Access has its type, whatever requests *)
(* the servers work on at a time and whichever of them fail.                 *)
THEOREM TypeCorrect == Spec => []TypeOK
<1>1. ASSUME TypeOK, [Next]_vars PROVE TypeOK'
  <2>1. CASE UNCHANGED vars
    BY <1>1, <2>1 DEF TypeOK, vars
  <2>2. ASSUME NEW p \in Procs, ListStep(p) \/ ChangeStep(p) \/ Fails(p) PROVE TypeOK'
    BY <1>1, <2>2, ListType, ChangeType, FaultType
  <2>3. ASSUME NEW p \in Procs, NEW u \in Users, Employ(p, u) PROVE TypeOK'
    BY <1>1, <2>3, EmployType
  <2>4. ASSUME NEW p \in Procs, NEW s \in Servers, NEW u \in Users, ListLook(p, s, u) \/ Permit(p, s, u)
        PROVE TypeOK'
    BY <1>1, <2>4, LookType, PermitType
  <2>5. ASSUME NEW p \in Procs, NEW s \in Servers, NEW r \in Roles, NEW c \in Codes, AssignToRole(p, s, r, c)
        PROVE TypeOK'
    BY <1>1, <2>5, AssignAllType
  <2>6. ASSUME NEW s \in Servers, Restart(s) \/ \E u \in Users : Expire(s, u) PROVE TypeOK'
    BY <1>1, <2>6, FaultType
  <2>7. QED
    BY <1>1, <2>1, <2>2, <2>3, <2>4, <2>5, <2>6 DEF Next
<1>2. QED
  BY <1>1, InitType, PTL DEF Spec

-----------------------------------------------------------------------------
(* Requests that work on the roles of a user.                               *)

WorkPcs == {"holds", "commit", "remove"}

WorkInv ==
  /\ OneWorker
  /\ NobodyWorksOnRemoved
  /\ RemovedStaysOut
  /\ ChangeIsFresh

LEMMA BecomeIs ==
  ASSUME TypeOK, NEW p \in Procs, NEW state, Become(p, state)
  PROVE  proc'[p] = state /\ \A q \in Procs \ {p} : proc'[q] = proc[q]
BY DEF TypeOK, Become

\* Steps that touch neither roles nor the requests that work on them.
LEMMA WorkKept ==
  ASSUME TypeOK, WorkInv,
         UNCHANGED <<roles, removed, contended>>, members' \subseteq members,
         \A q \in Procs : proc'[q] = proc[q] \/ proc'[q].pc \notin WorkPcs
  PROVE  WorkInv'
<1>1. \A u \in Users : Working(u)' \subseteq Working(u)
  BY DEF Working, WorkPcs
<1>2. OneWorker' /\ NobodyWorksOnRemoved' /\ RemovedStaysOut'
  <2>1. removed \subseteq Users
    BY DEF TypeOK
  <2>2. QED
    BY <1>1, <2>1 DEF WorkInv, OneWorker, NobodyWorksOnRemoved, RemovedStaysOut
<1>3. ChangeIsFresh'
  BY DEF WorkInv, ChangeIsFresh, WorkPcs
<1>4. QED
  BY <1>2, <1>3 DEF WorkInv

LEMMA ListWork ==
  ASSUME TypeOK, WorkInv, NEW p \in Procs, ListStep(p) \/ ReadHolders(p) \/ Delete(p) \/ Fails(p)
  PROVE  WorkInv'
<1>1. UNCHANGED <<roles, members, removed, contended>>
  BY DEF ListStep, ListCodes, ListRoles, ListStore, ReadHolders, Delete, Fails, rows, history
<1>2. \A q \in Procs \ {p} : proc'[q] = proc[q]
  BY DEF ListStep, ListCodes, ListRoles, ListStore, ReadHolders, Delete, Fails, Go, Become, TypeOK
<1>3. proc'[p].pc \notin WorkPcs
  <2>1. CASE ListStep(p)
    BY <2>1 DEF ListStep, ListCodes, ListRoles, ListStore, Go, Become, TypeOK, Idle, WorkPcs
  <2>2. CASE ReadHolders(p)
    BY <2>2 DEF ReadHolders, Go, Become, TypeOK, WorkPcs
  <2>3. CASE Delete(p) \/ Fails(p)
    <3>1. Become(p, Idle)
      BY <2>3 DEF Delete, Fails, Go
    <3>2. QED
      BY <3>1, BecomeIs DEF Idle, WorkPcs
  <2>4. QED
    BY <2>1, <2>2, <2>3
<1>4. QED
  BY <1>1, <1>2, <1>3, WorkKept

\* A request that begins and works on no roles.
LEMMA OtherWork ==
  ASSUME TypeOK, WorkInv, NEW p \in Procs, NEW s, NEW u, NEW r, NEW c,
         \/ ListLook(p, s, u)
         \/ AssignToUser(p, s, u, c) \/ RevokeFromUser(p, s, u, c) \/ AssignToRole(p, s, r, c)
         \/ RemoveFromSchool(p, u)
  PROVE  WorkInv'
<1>1. UNCHANGED <<roles, removed, contended>> /\ members' \subseteq members
  BY DEF ListLook, AssignToUser, RevokeFromUser, AssignToRole, RemoveFromSchool, rows, history
<1>2. \A q \in Procs \ {p} : proc'[q] = proc[q]
  BY DEF ListLook, AssignToUser, RevokeFromUser, AssignToRole, RemoveFromSchool, Begin, Become, TypeOK
<1>3. proc'[p].pc \notin WorkPcs
  BY DEF ListLook, AssignToUser, RevokeFromUser, AssignToRole, RemoveFromSchool, Begin, Become, TypeOK,
         Invalidate, Idle, WorkPcs
<1>4. QED
  BY <1>1, <1>2, <1>3, WorkKept

LEMMA RestartWork ==
  ASSUME TypeOK, WorkInv, NEW s \in Servers, Restart(s) \/ \E u \in Users : Expire(s, u)
  PROVE  WorkInv'
<1>1. UNCHANGED <<roles, members, removed, contended>>
  BY DEF Restart, Expire, rows
<1>2. \A q \in Procs : proc'[q] = proc[q] \/ proc'[q] = Idle
  BY DEF Restart, Expire
<1>3. \A q \in Procs : proc'[q] = proc[q] \/ proc'[q].pc \notin WorkPcs
  BY <1>2 DEF Idle, WorkPcs
<1>4. QED
  BY <1>1, <1>3, WorkKept

\* A request that begins to work on the roles of u is the only one, or u is
\* contended from now on.
LEMMA BeginWork ==
  ASSUME TypeOK, WorkInv, NEW p \in Procs, NEW u \in Users, NEW r, NEW q,
         ChangeRole(p, u, r, q) \/ RemoveStaff(p, u)
  PROVE  WorkInv'
<1>1. /\ UNCHANGED <<roles, members, removed>>
      /\ Contend(u)
      /\ roles[u] # {}
  BY DEF ChangeRole, RemoveStaff, rows
<1>2. /\ \A x \in Procs \ {p} : proc'[x] = proc[x]
      /\ proc[p] = Idle
      /\ proc'[p].user = u
      /\ proc'[p].pc # "commit"
      /\ proc'[p].pc = "holds" => proc'[p].from = r /\ proc'[p].to = q /\ r \in roles[u] /\ r # q
  BY DEF ChangeRole, RemoveStaff, Begin, Become, TypeOK
<1>3. \A v \in Users : Working(v)' \subseteq Working(v) \cup {p}
  BY <1>2 DEF Working
<1>4. \A v \in Users \ {u} : Working(v)' \subseteq Working(v)
  BY <1>2 DEF Working
<1>5. contended \subseteq contended' /\ (u \notin contended' => Working(u) = {})
  BY <1>1 DEF Contend
<1>6. removed \subseteq Users /\ (u \in removed => u \in contended)
  BY <1>1 DEF TypeOK, WorkInv, RemovedStaysOut
<1>7. OneWorker'
  BY <1>3, <1>4, <1>5 DEF WorkInv, OneWorker
<1>8. NobodyWorksOnRemoved' /\ RemovedStaysOut'
  BY <1>1, <1>4, <1>5, <1>6 DEF WorkInv, NobodyWorksOnRemoved, RemovedStaysOut
<1>9. ChangeIsFresh'
  BY <1>1, <1>2, <1>5 DEF WorkInv, ChangeIsFresh
<1>10. QED
  BY <1>7, <1>8, <1>9 DEF WorkInv

\* A request that writes the roles of u at once: who works on them meanwhile
\* is excused.
LEMMA AtOnceWork ==
  ASSUME TypeOK, WorkInv, NEW p \in Procs, NEW s, NEW u \in Users, NEW r,
         AssignRole(p, s, u, r) \/ RevokeRole(p, s, u, r) \/ Join(p, u, r)
  PROVE  WorkInv'
<1>1. /\ \A v \in Users \ {u} : roles'[v] = roles[v]
      /\ members' \subseteq members \cup {u}
      /\ removed' \subseteq removed
      /\ Contend(u)
      /\ u \in removed' => roles'[u] \subseteq roles[u] /\ members' = members
  BY DEF AssignRole, RevokeRole, Join, TypeOK
<1>2. /\ \A x \in Procs \ {p} : proc'[x] = proc[x]
      /\ proc[p] = Idle
      /\ proc'[p].pc \notin WorkPcs
  BY DEF AssignRole, RevokeRole, Join, Begin, Become, TypeOK, Invalidate, Idle, WorkPcs
<1>3. \A v \in Users : Working(v)' \subseteq Working(v)
  BY <1>2 DEF Working, WorkPcs
<1>4. /\ removed \subseteq Users
      /\ contended \subseteq contended'
      /\ u \notin contended' => Working(u) = {}
  BY <1>1 DEF Contend, TypeOK
<1>5. OneWorker' /\ NobodyWorksOnRemoved'
  BY <1>1, <1>3, <1>4 DEF WorkInv, OneWorker, NobodyWorksOnRemoved
<1>6. RemovedStaysOut'
  BY <1>1, <1>4 DEF WorkInv, RemovedStaysOut
<1>7. ChangeIsFresh'
  <2>1. SUFFICES ASSUME NEW x \in Procs, proc'[x].pc \in {"holds", "commit"}, proc'[x].user \notin contended'
                 PROVE  /\ proc'[x].from \in roles'[proc'[x].user]
                        /\ proc'[x].from # proc'[x].to
                        /\ proc'[x].pc = "commit" => proc'[x].to \notin roles'[proc'[x].user]
    BY DEF ChangeIsFresh
  <2>2. x # p /\ proc'[x] = proc[x]
    BY <1>2, <2>1 DEF WorkPcs
  <2>3. proc[x].user # u
    BY <1>4, <2>1, <2>2 DEF Working
  <2>4. roles'[proc[x].user] = roles[proc[x].user]
    BY <1>1, <2>1, <2>2, <2>3, WorkerHas
  <2>5. QED
    BY <1>4, <2>1, <2>2, <2>4 DEF WorkInv, ChangeIsFresh
<1>8. QED
  BY <1>5, <1>6, <1>7 DEF WorkInv

LEMMA HoldsWork ==
  ASSUME TypeOK, WorkInv, NEW p \in Procs, ChangeHolds(p)
  PROVE  WorkInv'
<1>1. UNCHANGED <<roles, members, removed, contended>>
  BY DEF ChangeHolds, rows, history
<1>2. CASE proc[p].to \in roles[proc[p].user]
  <2>1. \A q \in Procs : proc'[q] = proc[q] \/ proc'[q].pc \notin WorkPcs
    BY <1>2 DEF ChangeHolds, Go, Become, TypeOK, Idle, WorkPcs
  <2>2. QED
    BY <1>1, <2>1, WorkKept
<1>3. CASE proc[p].to \notin roles[proc[p].user]
  <2>1. /\ \A x \in Procs \ {p} : proc'[x] = proc[x]
        /\ proc[p].pc = "holds" /\ proc'[p].pc = "commit"
        /\ proc'[p].user = proc[p].user /\ proc'[p].from = proc[p].from /\ proc'[p].to = proc[p].to
    <3>1. proc'[p] = [proc[p] EXCEPT !.pc = "commit"] /\ proc[p].pc = "holds"
      BY <1>3 DEF ChangeHolds, Go, Become, TypeOK
    <3>2. proc[p] \in [pc : {"holds", "commit"}, user : Users, from : Roles, to : Roles]
      BY <3>1, ChangerHas
    <3>3. QED
      BY <1>3, <3>1, <3>2 DEF ChangeHolds, Go, Become, TypeOK
  <2>2. \A v \in Users : Working(v)' = Working(v)
    BY <2>1 DEF Working
  <2>3. OneWorker' /\ NobodyWorksOnRemoved' /\ RemovedStaysOut'
    BY <1>1, <2>2 DEF TypeOK, WorkInv, OneWorker, NobodyWorksOnRemoved, RemovedStaysOut
  <2>4. ChangeIsFresh'
    BY <1>1, <1>3, <2>1 DEF WorkInv, ChangeIsFresh
  <2>5. QED
    BY <2>3, <2>4 DEF WorkInv
<1>4. QED
  BY <1>2, <1>3

\* A request that is done with the roles of its user was alone with them, or
\* the user is contended.
LEMMA CommitWork ==
  ASSUME TypeOK, WorkInv, NEW p \in Procs, ChangeCommit(p) \/ RemoveCommit(p)
  PROVE  WorkInv'
<1>1. /\ proc[p].pc \in WorkPcs
      /\ UNCHANGED contended
  BY DEF ChangeCommit, RemoveCommit, WorkPcs
<1>2. /\ \A x \in Procs \ {p} : proc'[x] = proc[x]
      /\ proc'[p] = Idle
  BY DEF ChangeCommit, RemoveCommit, Go, Become, TypeOK
<1>3. PICK u \in Users : u = proc[p].user
  BY <1>1, WorkerHas DEF WorkPcs
<1>4. /\ \A v \in Users \ {u} : roles'[v] = roles[v]
      /\ members' \subseteq members
      /\ removed' \subseteq removed \cup {u}
      /\ u \in removed' => u \in removed \/ (roles'[u] = {} /\ u \notin members')
  BY <1>3 DEF ChangeCommit, RemoveCommit, TypeOK
<1>5. p \in Working(u) /\ p \notin Working(u)' /\ \A v \in Users : Working(v)' \subseteq Working(v)
  BY <1>1, <1>2, <1>3 DEF Working, Idle, WorkPcs
<1>6. removed \subseteq Users /\ (u \notin contended => Working(u)' = {} /\ u \notin removed)
  BY <1>5 DEF TypeOK, WorkInv, OneWorker, NobodyWorksOnRemoved
<1>7. OneWorker' /\ NobodyWorksOnRemoved'
  BY <1>1, <1>4, <1>5, <1>6 DEF WorkInv, OneWorker, NobodyWorksOnRemoved
<1>8. RemovedStaysOut'
  BY <1>1, <1>4, <1>6 DEF WorkInv, RemovedStaysOut
<1>9. ChangeIsFresh'
  <2>1. SUFFICES ASSUME NEW x \in Procs, proc'[x].pc \in {"holds", "commit"}, proc'[x].user \notin contended'
                 PROVE  /\ proc'[x].from \in roles'[proc'[x].user]
                        /\ proc'[x].from # proc'[x].to
                        /\ proc'[x].pc = "commit" => proc'[x].to \notin roles'[proc'[x].user]
    BY DEF ChangeIsFresh
  <2>2. x # p /\ proc'[x] = proc[x]
    BY <1>2, <2>1 DEF Idle
  <2>3. proc[x].user # u
    BY <1>1, <1>6, <2>1, <2>2 DEF Working
  <2>4. roles'[proc[x].user] = roles[proc[x].user]
    BY <1>4, <2>1, <2>2, <2>3, WorkerHas
  <2>5. QED
    BY <1>1, <2>1, <2>2, <2>4 DEF WorkInv, ChangeIsFresh
<1>10. QED
  BY <1>7, <1>8, <1>9 DEF WorkInv

LEMMA NextWork ==
  ASSUME TypeOK, WorkInv, [Next]_vars
  PROVE  WorkInv'
<1>1. CASE UNCHANGED vars
  BY <1>1 DEF vars, WorkInv, OneWorker, NobodyWorksOnRemoved, RemovedStaysOut, ChangeIsFresh, Working
<1>2. ASSUME NEW p \in Procs, ListStep(p) \/ ChangeStep(p) \/ Fails(p) PROVE WorkInv'
  BY <1>2, ListWork, HoldsWork, CommitWork DEF ChangeStep
<1>3. ASSUME NEW p \in Procs, NEW u \in Users, Employ(p, u) PROVE WorkInv'
  BY <1>3, BeginWork, AtOnceWork, OtherWork DEF Employ, CreateInSchool, CompleteRegistration
<1>4. ASSUME NEW p \in Procs, NEW s \in Servers, NEW u \in Users, ListLook(p, s, u) \/ Permit(p, s, u)
      PROVE WorkInv'
  BY <1>4, AtOnceWork, OtherWork DEF Permit
<1>5. ASSUME NEW p \in Procs, NEW s \in Servers, NEW r \in Roles, NEW c \in Codes, AssignToRole(p, s, r, c)
      PROVE WorkInv'
  BY <1>5, OtherWork
<1>6. ASSUME NEW s \in Servers, Restart(s) \/ \E u \in Users : Expire(s, u) PROVE WorkInv'
  BY <1>6, RestartWork
<1>7. QED
  BY <1>1, <1>2, <1>3, <1>4, <1>5, <1>6 DEF Next

(* Who was removed from the staff stays without roles and membership until   *)
(* a request gives them back, whatever is cached, fails or runs meanwhile.   *)
THEOREM RemovedStayOut == Spec => []RemovedStaysOut
<1>1. Init => WorkInv
  BY DEF Init, WorkInv, OneWorker, NobodyWorksOnRemoved, RemovedStaysOut, ChangeIsFresh, Working, Idle
<1>2. WorkInv => RemovedStaysOut
  BY DEF WorkInv
<1>3. QED
  BY <1>1, <1>2, NextWork, TypeCorrect, PTL DEF Spec

-----------------------------------------------------------------------------
(* Cached lists.                                                            *)

AllFresh == \A s \in Servers, u \in Users : <<s, u>> \notin excused => Fresh(s, u)

ListPcs == {"codes", "roles", "store"}

LEMMA CurrentKept ==
  ASSUME NEW u \in Users, roles'[u] = roles[u], grants'[u] = grants[u]
  PROVE  CodesOf(u)' = CodesOf(u) /\ Current(u)' = Current(u)
BY DEF CodesOf, Current

\* An entry stays fresh while the list in it stays current, and requests that
\* are to delete it stay at that until they have.
LEMMA FreshKept ==
  ASSUME NEW s \in Servers, NEW u \in Users, Fresh(s, u),
         CodesOf(u)' = CodesOf(u), Current(u)' = Current(u),
         cache'[s][u] \in {cache[s][u], Absent, Current(u)},
         \A q \in Listing(s, u)' :
           \/ proc'[q] = proc[q]
           \/ proc'[q].pc = "codes"
           \/ proc'[q].pc = "roles" /\ proc'[q].codes = CodesOf(u)
           \/ proc'[q].pc = "store" /\ proc'[q].list = Current(u),
         \A q \in Deleting(s, u) : q \in Deleting(s, u)' \/ cache'[s][u] = Absent
  PROVE  Fresh(s, u)'
<1>1. cache'[s][u] # Absent /\ Deleting(s, u)' = {} => cache'[s][u] = Current(u)
  BY DEF Fresh
<1>2. ASSUME NEW q \in Listing(s, u)'
      PROVE  /\ proc'[q].pc = "roles" => proc'[q].codes = CodesOf(u)
             /\ proc'[q].pc = "store" => proc'[q].list = Current(u)
  <2>1. CASE proc'[q] = proc[q]
    <3>1. q \in Listing(s, u)
      BY <1>2, <2>1 DEF Listing
    <3>2. QED
      BY <2>1, <3>1 DEF Fresh
  <2>2. CASE proc'[q] # proc[q]
    BY <1>2, <2>2
  <2>3. QED
    BY <2>1, <2>2
<1>3. QED
  BY <1>1, <1>2 DEF Fresh

LEMMA FreshTold ==
  ASSUME NEW s \in Servers, NEW u \in Users,
         Listing(s, u)' = {}, cache'[s][u] = Absent \/ Deleting(s, u)' # {}
  PROVE  Fresh(s, u)'
BY DEF Fresh

\* A change of permissions or roles: whose list changes is excused, or has no
\* entry and nobody who makes one, or will be deleted by the one who changed it.
LEMMA FreshChanged ==
  ASSUME TypeOK, AllFresh, NEW p \in Procs,
         UNCHANGED cache, excused \subseteq excused',
         proc[p].pc \notin Cached, proc'[p].pc \notin ListPcs,
         \A q \in Procs \ {p} : proc'[q] = proc[q],
         \A s \in Servers, u \in Users : <<s, u>> \notin excused' =>
           \/ CodesOf(u)' = CodesOf(u) /\ Current(u)' = Current(u)
           \/ Listing(s, u) = {} /\ (cache[s][u] = Absent \/ p \in Deleting(s, u)')
  PROVE  AllFresh'
<1> SUFFICES ASSUME NEW s \in Servers, NEW u \in Users, <<s, u>> \notin excused'
             PROVE  Fresh(s, u)'
  BY DEF AllFresh
<1>1. Listing(s, u)' = Listing(s, u)
  BY DEF Listing, Cached, ListPcs
<1>2. Deleting(s, u) \subseteq Deleting(s, u)'
  BY DEF Deleting, Cached
<1>3. CASE CodesOf(u)' = CodesOf(u) /\ Current(u)' = Current(u)
  <2>1. Fresh(s, u)
    BY DEF AllFresh
  <2>2. \A q \in Listing(s, u)' : proc'[q] = proc[q]
    BY <1>1 DEF Listing, Cached
  <2>3. QED
    BY <1>2, <1>3, <2>1, <2>2, FreshKept
<1>4. CASE Listing(s, u) = {} /\ (cache[s][u] = Absent \/ p \in Deleting(s, u)')
  BY <1>1, <1>4, FreshTold
<1>5. QED
  BY <1>3, <1>4

LEMMA OvertakenIs ==
  ASSUME NEW us, NEW told, Changed(us, told),
         NEW s \in Servers, NEW u \in us, <<s, u>> \notin excused'
  PROVE  Listing(s, u) = {} /\ (cache[s][u] = Absent \/ s \in told)
BY DEF Changed, Overtaken

LEMMA ListFresh ==
  ASSUME TypeOK, AllFresh, NEW p \in Procs, ListStep(p)
  PROVE  AllFresh'
<1>1. /\ UNCHANGED <<roles, grants, excused>>
      /\ proc[p].pc \in ListPcs
      /\ \A q \in Procs \ {p} : proc'[q] = proc[q]
  BY DEF ListStep, ListCodes, ListRoles, ListStore, rows, history, Go, Become, ListPcs, TypeOK
<1> SUFFICES ASSUME NEW s \in Servers, NEW u \in Users, <<s, u>> \notin excused'
             PROVE  Fresh(s, u)'
  BY DEF AllFresh
<1>2. Fresh(s, u) /\ CodesOf(u)' = CodesOf(u) /\ Current(u)' = Current(u)
  BY <1>1, CurrentKept DEF AllFresh
<1>3. \A q \in Deleting(s, u) : q \in Deleting(s, u)'
  BY <1>1 DEF Deleting, ListPcs
<1>4. CASE ListCodes(p)
  <2>1. /\ UNCHANGED cache
        /\ proc'[p] = [pc |-> "roles", server |-> proc[p].server, user |-> proc[p].user, codes |-> CodesOf(proc[p].user)]
    BY <1>4 DEF ListCodes, Go, Become, TypeOK
  <2>2. \A q \in Listing(s, u)' : proc'[q] = proc[q] \/ (proc'[q].pc = "roles" /\ proc'[q].codes = CodesOf(u))
    BY <1>1, <2>1 DEF Listing
  <2>3. QED
    BY <1>2, <1>3, <2>1, <2>2, FreshKept
<1>5. CASE ListRoles(p)
  <2>1. /\ UNCHANGED cache
        /\ proc[p].pc = "roles"
        /\ proc'[p] = [pc |-> "store", server |-> proc[p].server, user |-> proc[p].user,
                       list |-> [codes |-> proc[p].codes, roles |-> roles[proc[p].user]]]
    BY <1>5 DEF ListRoles, Go, Become, TypeOK
  <2>2. ASSUME p \in Listing(s, u)' PROVE proc'[p].list = Current(u)
    <3>1. p \in Listing(s, u) /\ proc[p].user = u
      BY <2>1, <2>2 DEF Listing
    <3>2. proc[p].codes = CodesOf(u)
      BY <1>2, <2>1, <3>1 DEF Fresh
    <3>3. QED
      BY <2>1, <3>1, <3>2 DEF Current
  <2>3. \A q \in Listing(s, u)' : proc'[q] = proc[q] \/ (proc'[q].pc = "store" /\ proc'[q].list = Current(u))
    BY <1>1, <2>1, <2>2 DEF Listing
  <2>4. QED
    BY <1>2, <1>3, <2>1, <2>3, FreshKept
<1>6. CASE ListStore(p)
  <2>1. proc[p].pc = "store" /\ proc'[p] = Idle
    BY <1>6 DEF ListStore, Go, Become, TypeOK
  <2>2. cache'[s][u] \in {cache[s][u], Current(u)}
    <3>1. CASE p \in Listing(s, u)
      <4>1. proc[p].list = Current(u)
        BY <1>2, <2>1, <3>1 DEF Fresh
      <4>2. QED
        BY <1>6, <3>1, <4>1 DEF ListStore, TypeOK, Listing
    <3>2. CASE p \notin Listing(s, u)
      BY <1>6, <2>1, <3>2 DEF ListStore, TypeOK, Listing
    <3>3. QED
      BY <3>1, <3>2
  <2>3. \A q \in Listing(s, u)' : proc'[q] = proc[q]
    BY <1>1, <2>1 DEF Listing, Idle
  <2>4. QED
    BY <1>2, <1>3, <2>2, <2>3, FreshKept
<1>7. QED
  BY <1>4, <1>5, <1>6 DEF ListStep

LEMMA LookFresh ==
  ASSUME TypeOK, AllFresh, NEW p \in Procs, NEW s0, NEW u0, ListLook(p, s0, u0)
  PROVE  AllFresh'
<1>1. /\ UNCHANGED <<roles, grants, cache, excused>>
      /\ proc[p].pc = "idle" /\ proc'[p].pc = "codes"
      /\ \A q \in Procs \ {p} : proc'[q] = proc[q]
  BY DEF ListLook, rows, history, Begin, Become, TypeOK, Idle
<1> SUFFICES ASSUME NEW s \in Servers, NEW u \in Users, <<s, u>> \notin excused'
             PROVE  Fresh(s, u)'
  BY DEF AllFresh
<1>2. Fresh(s, u) /\ CodesOf(u)' = CodesOf(u) /\ Current(u)' = Current(u)
  BY <1>1, CurrentKept DEF AllFresh
<1>3. \A q \in Deleting(s, u) : q \in Deleting(s, u)'
  BY <1>1 DEF Deleting
<1>4. \A q \in Listing(s, u)' : proc'[q] = proc[q] \/ proc'[q].pc = "codes"
  BY <1>1 DEF Listing
<1>5. QED
  BY <1>1, <1>2, <1>3, <1>4, FreshKept

\* Entries that are gone are fresh, and nothing else changes.
LEMMA ForgetFresh ==
  ASSUME TypeOK, AllFresh, NEW s0 \in Servers, NEW us \in SUBSET Users, Forget(s0, us),
         UNCHANGED <<roles, grants>>,
         \A q \in Procs : proc'[q] = proc[q] \/ proc'[q] = Idle,
         \A s \in Servers, u \in Users : \A q \in Deleting(s, u) :
           proc'[q] = proc[q] \/ (s = s0 /\ u \in us)
  PROVE  AllFresh'
<1> SUFFICES ASSUME NEW s \in Servers, NEW u \in Users, <<s, u>> \notin excused'
             PROVE  Fresh(s, u)'
  BY DEF AllFresh
<1>1. cache'[s][u] = IF s = s0 /\ u \in us THEN Absent ELSE cache[s][u]
  BY DEF Forget, TypeOK
<1>2. \A q \in Listing(s, u)' : proc'[q] = proc[q]
  BY DEF Listing, Idle
<1>3. CASE <<s, u>> \in excused
  <2>1. s = s0 /\ u \in us /\ Listing(s, u) = {}
    BY <1>3 DEF Forget
  <2>2. Listing(s, u)' = {}
    BY <1>2, <2>1 DEF Listing
  <2>3. QED
    BY <1>1, <2>1, <2>2, FreshTold
<1>4. CASE <<s, u>> \notin excused
  <2>1. Fresh(s, u) /\ CodesOf(u)' = CodesOf(u) /\ Current(u)' = Current(u)
    BY <1>4, CurrentKept DEF AllFresh
  <2>2. \A q \in Deleting(s, u) : q \in Deleting(s, u)' \/ cache'[s][u] = Absent
    BY <1>1 DEF Deleting
  <2>3. cache'[s][u] \in {cache[s][u], Absent, Current(u)}
    BY <1>1
  <2>4. QED
    BY <1>2, <2>1, <2>2, <2>3, FreshKept
<1>5. QED
  BY <1>3, <1>4

LEMMA DeleteFresh ==
  ASSUME TypeOK, AllFresh, NEW p \in Procs, Delete(p)
  PROVE  AllFresh'
<1> DEFINE us == IF proc[p].pc = "delete" THEN {proc[p].user} ELSE proc[p].users
<1>1. /\ UNCHANGED <<roles, grants>>
      /\ proc[p].pc \in {"delete", "delete all"}
      /\ proc'[p] = Idle /\ \A q \in Procs \ {p} : proc'[q] = proc[q]
      /\ Forget(proc[p].server, us)
  BY DEF Delete, rows, Go, Become, TypeOK
<1>2. proc[p] \in ProcRun
  BY <1>1, ProcType
<1>3. proc[p].server \in Servers /\ us \in SUBSET Users
  BY <1>1, <1>2 DEF ProcRun
<1>4. \A q \in Procs : proc'[q] = proc[q] \/ proc'[q] = Idle
  BY <1>1
<1>5. \A s \in Servers, u \in Users : \A q \in Deleting(s, u) :
        proc'[q] = proc[q] \/ (s = proc[p].server /\ u \in us)
  BY <1>1 DEF Deleting
<1> HIDE DEF us
<1>6. QED
  BY <1>1, <1>3, <1>4, <1>5, ForgetFresh

LEMMA ExpireFresh ==
  ASSUME TypeOK, AllFresh, NEW s \in Servers, NEW u \in Users, Expire(s, u)
  PROVE  AllFresh'
<1>1. UNCHANGED <<roles, grants, proc>> /\ Forget(s, {u})
  BY DEF Expire, rows
<1>2. QED
  BY <1>1, ForgetFresh DEF Deleting

\* Requests that begin with a change and will delete the entry of its user.
LEMMA PermitFresh ==
  ASSUME TypeOK, AllFresh, NEW p \in Procs, NEW s \in Servers, NEW u \in Users, Permit(p, s, u)
  PROVE  AllFresh'
<1>1. /\ UNCHANGED cache
      /\ proc[p].pc = "idle" /\ proc'[p] = Invalidate(s, u)
      /\ \A q \in Procs \ {p} : proc'[q] = proc[q]
  BY DEF Permit, AssignToUser, RevokeFromUser, AssignRole, RevokeRole, Begin, Become, TypeOK, Idle
<1>2. proc[p].pc \notin Cached /\ proc'[p].pc \notin ListPcs /\ p \in Deleting(s, u)'
  <2>1. proc'[p].pc = "delete" /\ proc'[p].server = s /\ proc'[p].user = u
    BY <1>1 DEF Invalidate
  <2>2. QED
    BY <1>1, <2>1 DEF Cached, ListPcs, Deleting
<1>3. \A v \in Users \ {u} : CodesOf(v)' = CodesOf(v) /\ Current(v)' = Current(v)
  <2>1. \A v \in Users \ {u} : roles'[v] = roles[v] /\ grants'[v] = grants[v]
    BY DEF Permit, AssignToUser, RevokeFromUser, AssignRole, RevokeRole, TypeOK
  <2>2. QED
    BY <2>1, CurrentKept
<1>4. CASE Changed({u}, {s})
  <2>1. \A x \in Servers : <<x, u>> \notin excused' => Listing(x, u) = {} /\ (cache[x][u] = Absent \/ x = s)
    BY <1>4, OvertakenIs
  <2>2. excused \subseteq excused'
    BY <1>4 DEF Changed
  <2>3. \A x \in Servers, v \in Users : <<x, v>> \notin excused' =>
           \/ CodesOf(v)' = CodesOf(v) /\ Current(v)' = Current(v)
           \/ Listing(x, v) = {} /\ (cache[x][v] = Absent \/ p \in Deleting(x, v)')
    BY <1>2, <1>3, <2>1
  <2>4. QED
    BY <1>1, <1>2, <2>2, <2>3, FreshChanged
<1>5. CASE ~Changed({u}, {s})
  <2>1. PICK c \in Codes : AssignToUser(p, s, u, c) /\ c \in CodesOf(u)
    BY <1>5 DEF Permit, AssignToUser, RevokeFromUser, AssignRole, RevokeRole
  <2>2. UNCHANGED roles /\ grants'[u] = grants[u] \cup {c} /\ excused \subseteq excused'
    BY <2>1 DEF AssignToUser, TypeOK, Changed
  <2>3. CodesOf(u)' = CodesOf(u) /\ Current(u)' = Current(u)
    BY <2>1, <2>2 DEF CodesOf, Current
  <2>4. QED
    BY <1>1, <1>2, <1>3, <2>2, <2>3, FreshChanged
<1>6. QED
  BY <1>4, <1>5

LEMMA AssignToRoleFresh ==
  ASSUME TypeOK, AllFresh, NEW p \in Procs, NEW s \in Servers, NEW r \in Roles, NEW c \in Codes,
         AssignToRole(p, s, r, c)
  PROVE  AllFresh'
<1> DEFINE holders == {u \in Users : r \in roles[u]}
<1>1. /\ UNCHANGED <<roles, cache>>
      /\ proc[p].pc = "idle" /\ proc'[p] = [pc |-> "holders", server |-> s, role |-> r]
      /\ \A q \in Procs \ {p} : proc'[q] = proc[q]
      /\ Changed(holders, {s})
  BY DEF AssignToRole, Begin, Become, TypeOK, Idle
<1>2. proc[p].pc \notin Cached /\ proc'[p].pc \notin ListPcs /\ \A u \in Users : p \in Deleting(s, u)'
  <2>1. proc'[p].pc = "holders" /\ proc'[p].server = s
    BY <1>1
  <2>2. QED
    BY <1>1, <2>1 DEF Cached, ListPcs, Deleting
<1>3. \A v \in Users \ holders : CodesOf(v)' = CodesOf(v) /\ Current(v)' = Current(v)
  <2>1. \A v \in Users \ holders : roles'[v] = roles[v] /\ grants'[v] = grants[v]
    BY DEF AssignToRole, TypeOK
  <2>2. QED
    BY <2>1, CurrentKept
<1>4. \A x \in Servers : \A u \in holders :
        <<x, u>> \notin excused' => Listing(x, u) = {} /\ (cache[x][u] = Absent \/ x = s)
  BY <1>1, OvertakenIs
<1>5. excused \subseteq excused'
  BY <1>1 DEF Changed
<1> HIDE DEF holders
<1>6. QED
  BY <1>1, <1>2, <1>3, <1>4, <1>5, FreshChanged

\* Requests that change roles and tell nobody.
LEMMA UntoldFresh ==
  ASSUME TypeOK, AllFresh, NEW p \in Procs, NEW u \in Users,
         ChangeCommit(p) \/ RemoveCommit(p), proc[p].user = u
  PROVE  AllFresh'
<1>1. /\ UNCHANGED <<grants, cache>>
      /\ proc[p].pc \in {"commit", "remove"} /\ proc'[p].pc = "idle"
      /\ \A q \in Procs \ {p} : proc'[q] = proc[q]
      /\ \A v \in Users \ {u} : roles'[v] = roles[v]
      /\ UNCHANGED <<roles, excused>> \/ Changed({u}, {})
  BY DEF ChangeCommit, RemoveCommit, Go, Become, TypeOK, Idle
<1>2. proc[p].pc \notin Cached /\ proc'[p].pc \notin ListPcs /\ excused \subseteq excused'
  BY <1>1 DEF Cached, ListPcs, Changed
<1>3. \A v \in Users \ {u} : CodesOf(v)' = CodesOf(v) /\ Current(v)' = Current(v)
  BY <1>1, CurrentKept
<1>4. \/ CodesOf(u)' = CodesOf(u) /\ Current(u)' = Current(u)
      \/ \A x \in Servers : <<x, u>> \notin excused' => Listing(x, u) = {} /\ cache[x][u] = Absent
  <2>1. CASE UNCHANGED <<roles, excused>>
    BY <1>1, <2>1, CurrentKept
  <2>2. CASE Changed({u}, {})
    BY <2>2, OvertakenIs
  <2>3. QED
    BY <1>1, <2>1, <2>2
<1>5. QED
  BY <1>1, <1>2, <1>3, <1>4, FreshChanged

LEMMA EmployFresh ==
  ASSUME TypeOK, AllFresh, NEW p \in Procs, NEW u \in Users, Employ(p, u)
  PROVE  AllFresh'
<1>1. /\ UNCHANGED <<grants, cache>>
      /\ proc[p].pc = "idle" /\ proc'[p].pc \in {"idle", "holds", "remove"}
      /\ \A q \in Procs \ {p} : proc'[q] = proc[q]
      /\ \A v \in Users \ {u} : roles'[v] = roles[v]
      /\ UNCHANGED <<roles, excused>> \/ Changed({u}, {})
  <2>1. CASE \E r, q \in Roles : ChangeRole(p, u, r, q)
    BY <2>1 DEF ChangeRole, Begin, Become, TypeOK, Idle, rows
  <2>2. CASE RemoveStaff(p, u)
    BY <2>2 DEF RemoveStaff, Begin, Become, TypeOK, Idle, rows
  <2>3. CASE RemoveFromSchool(p, u)
    BY <2>3 DEF RemoveFromSchool, Begin, Become, TypeOK, Idle, history
  <2>4. CASE \E r \in Roles : Join(p, u, r)
    BY <2>4 DEF Join, Begin, Become, TypeOK, Idle
  <2>5. QED
    BY <2>1, <2>2, <2>3, <2>4 DEF Employ, CreateInSchool, CompleteRegistration
<1>2. proc[p].pc \notin Cached /\ proc'[p].pc \notin ListPcs /\ excused \subseteq excused'
  BY <1>1 DEF Cached, ListPcs, Changed
<1>3. \A v \in Users \ {u} : CodesOf(v)' = CodesOf(v) /\ Current(v)' = Current(v)
  BY <1>1, CurrentKept
<1>4. \/ CodesOf(u)' = CodesOf(u) /\ Current(u)' = Current(u)
      \/ \A x \in Servers : <<x, u>> \notin excused' => Listing(x, u) = {} /\ cache[x][u] = Absent
  <2>1. CASE UNCHANGED <<roles, excused>>
    BY <1>1, <2>1, CurrentKept
  <2>2. CASE Changed({u}, {})
    BY <2>2, OvertakenIs
  <2>3. QED
    BY <1>1, <2>1, <2>2
<1>5. QED
  BY <1>1, <1>2, <1>3, <1>4, FreshChanged

LEMMA HoldsFresh ==
  ASSUME TypeOK, AllFresh, NEW p \in Procs, ChangeHolds(p)
  PROVE  AllFresh'
<1>1. /\ UNCHANGED <<roles, grants, cache, excused>>
      /\ proc[p].pc = "holds"
      /\ \A q \in Procs \ {p} : proc'[q] = proc[q]
  BY DEF ChangeHolds, Go, Become, TypeOK, rows, history
<1>2. proc'[p].pc \in {"idle", "commit"}
  <2>1. proc'[p] = Idle \/ proc'[p] = [proc[p] EXCEPT !.pc = "commit"]
    BY DEF ChangeHolds, Go, Become, TypeOK
  <2>2. proc[p] \in [pc : {"holds", "commit"}, user : Users, from : Roles, to : Roles]
    BY <1>1, ChangerHas
  <2>3. QED
    BY <2>1, <2>2 DEF Idle
<1>3. proc[p].pc \notin Cached /\ proc'[p].pc \notin ListPcs
  BY <1>1, <1>2 DEF Cached, ListPcs
<1>4. \A v \in Users : CodesOf(v)' = CodesOf(v) /\ Current(v)' = Current(v)
  BY <1>1, CurrentKept
<1>5. QED
  BY <1>1, <1>3, <1>4, FreshChanged

\* Holders that are asked for again, or never: whose entry is not to be
\* deleted any more is excused or has none.
LEMMA HoldersFresh ==
  ASSUME TypeOK, AllFresh, NEW p \in Procs, ReadHolders(p) \/ Fails(p)
  PROVE  AllFresh'
<1>1. /\ UNCHANGED <<roles, grants, cache>> /\ excused \subseteq excused'
      /\ \A q \in Procs \ {p} : proc'[q] = proc[q]
      /\ proc'[p].pc \in {"idle", "delete all"}
      /\ proc[p].pc \notin {"delete", "delete all"}
  <2>1. CASE ReadHolders(p)
    BY <2>1 DEF ReadHolders, rows, Go, Become, TypeOK
  <2>2. CASE Fails(p)
    BY <2>2 DEF Fails, rows, Become, TypeOK, Idle
  <2>3. QED
    BY <2>1, <2>2
<1> SUFFICES ASSUME NEW s \in Servers, NEW u \in Users, <<s, u>> \notin excused'
             PROVE  Fresh(s, u)'
  BY DEF AllFresh
<1>2. Fresh(s, u) /\ CodesOf(u)' = CodesOf(u) /\ Current(u)' = Current(u)
  BY <1>1, CurrentKept DEF AllFresh
<1>3. \A q \in Listing(s, u)' : proc'[q] = proc[q]
  BY <1>1 DEF Listing
<1>4. ASSUME p \in Deleting(s, u) PROVE p \in Deleting(s, u)' \/ cache[s][u] = Absent
  <2>1. proc[p].pc = "holders" /\ proc[p].server = s
    BY <1>1, <1>4 DEF Deleting
  <2>2. CASE ReadHolders(p)
    <3>1. proc'[p].pc = "delete all" /\ proc'[p].server = s
      BY <2>1, <2>2 DEF ReadHolders, Go, Become, TypeOK
    <3>2. proc[p].role \in roles[u] => u \in proc'[p].users
      BY <2>1, <2>2 DEF ReadHolders, Go, Become, TypeOK
    <3>3. CASE proc[p].role \in roles[u]
      BY <3>1, <3>2, <3>3 DEF Deleting
    <3>4. CASE proc[p].role \notin roles[u]
      BY <2>1, <2>2, <3>4 DEF ReadHolders, Overtaken
    <3>5. QED
      BY <3>3, <3>4
  <2>3. CASE Fails(p)
    BY <2>1, <2>3 DEF Fails, Overtaken
  <2>4. QED
    BY <2>2, <2>3
<1>5. \A q \in Deleting(s, u) : q \in Deleting(s, u)' \/ cache'[s][u] = Absent
  BY <1>1, <1>4 DEF Deleting
<1>6. QED
  BY <1>1, <1>2, <1>3, <1>5, FreshKept

LEMMA RestartFresh ==
  ASSUME TypeOK, AllFresh, NEW s0 \in Servers, Restart(s0)
  PROVE  AllFresh'
<1>1. /\ UNCHANGED <<roles, grants>>
      /\ \A q \in Procs : \/ proc'[q] = proc[q] /\ ~(proc[q].pc \in Cached /\ proc[q].server = s0)
                          \/ proc'[q].pc = "idle" /\ proc[q].pc \in Cached /\ proc[q].server = s0
      /\ \A u \in Users : cache'[s0][u] = Absent
      /\ \A s \in Servers \ {s0} : cache'[s] = cache[s]
  BY DEF Restart, rows, TypeOK, Idle
<1> SUFFICES ASSUME NEW s \in Servers, NEW u \in Users, <<s, u>> \notin excused'
             PROVE  Fresh(s, u)'
  BY DEF AllFresh
<1>2. \A q \in Listing(s, u)' : proc'[q] = proc[q] /\ s # s0
  BY <1>1 DEF Listing, Cached
<1>3. CASE s = s0
  BY <1>1, <1>2, <1>3, FreshTold
<1>4. CASE s # s0
  <2>1. <<s, u>> \notin excused
    BY <1>4 DEF Restart
  <2>2. Fresh(s, u) /\ CodesOf(u)' = CodesOf(u) /\ Current(u)' = Current(u)
    BY <1>1, <2>1, CurrentKept DEF AllFresh
  <2>3. \A q \in Deleting(s, u) : q \in Deleting(s, u)'
    <3>1. \A q \in Deleting(s, u) : proc'[q] = proc[q]
      BY <1>1, <1>4 DEF Deleting
    <3>2. QED
      BY <3>1 DEF Deleting
  <2>4. cache'[s][u] = cache[s][u]
    BY <1>1, <1>4
  <2>5. QED
    BY <1>2, <2>2, <2>3, <2>4, FreshKept
<1>5. QED
  BY <1>3, <1>4

LEMMA NextFresh ==
  ASSUME TypeOK, AllFresh, [Next]_vars
  PROVE  AllFresh'
<1>1. CASE UNCHANGED vars
  <2>1. \A s \in Servers, u \in Users : Fresh(s, u)' <=> Fresh(s, u)
    BY <1>1 DEF vars, Fresh, Current, CodesOf, Listing, Deleting
  <2>2. QED
    BY <1>1, <2>1 DEF vars, AllFresh
<1>2. ASSUME NEW p \in Procs, ListStep(p) \/ ChangeStep(p) \/ Fails(p) PROVE AllFresh'
  <2>1. CASE ChangeCommit(p) \/ RemoveCommit(p)
    <3>1. proc[p].user \in Users
      BY <2>1, WorkerHas DEF ChangeCommit, RemoveCommit
    <3>2. QED
      BY <2>1, <3>1, UntoldFresh
  <2>2. QED
    BY <1>2, <2>1, ListFresh, HoldersFresh, DeleteFresh, HoldsFresh DEF ChangeStep
<1>3. ASSUME NEW p \in Procs, NEW u \in Users, Employ(p, u) PROVE AllFresh'
  BY <1>3, EmployFresh
<1>4. ASSUME NEW p \in Procs, NEW s \in Servers, NEW u \in Users, ListLook(p, s, u) \/ Permit(p, s, u)
      PROVE AllFresh'
  BY <1>4, LookFresh, PermitFresh
<1>5. ASSUME NEW p \in Procs, NEW s \in Servers, NEW r \in Roles, NEW c \in Codes, AssignToRole(p, s, r, c)
      PROVE AllFresh'
  BY <1>5, AssignToRoleFresh
<1>6. ASSUME NEW s \in Servers, Restart(s) \/ \E u \in Users : Expire(s, u) PROVE AllFresh'
  BY <1>6, RestartFresh, ExpireFresh
<1>7. QED
  BY <1>1, <1>2, <1>3, <1>4, <1>5, <1>6 DEF Next

(* A list that the guards answer from is the one the database would give,    *)
(* for every number of servers, users and requests, but for the changes that *)
(* listUserPermissions is not told of or that overtake it.                   *)
THEOREM CacheIsCurrent == Spec => []CachedIsCurrent
<1>1. Init => AllFresh
  BY DEF Init, AllFresh, Fresh, Listing, Idle
<1>2. AllFresh => CachedIsCurrent
  BY DEF AllFresh, Fresh, CachedIsCurrent
<1>3. QED
  BY <1>1, <1>2, NextFresh, TypeCorrect, PTL DEF Spec

-----------------------------------------------------------------------------
(* changeRole.                                                              *)

\* A set with another element in the place of one of its own.
LEMMA ReplaceOne ==
  ASSUME NEW S, IsFiniteSet(S), NEW a \in S, NEW b, b \notin S
  PROVE  Cardinality((S \ {a}) \cup {b}) = Cardinality(S)
<1>1. IsFiniteSet(S \ {a}) /\ Cardinality(S \ {a}) = Cardinality(S) - 1 /\ Cardinality(S) \in Nat
  BY FS_RemoveElement, FS_CardinalityType
<1>2. Cardinality((S \ {a}) \cup {b}) = Cardinality(S \ {a}) + 1
  BY <1>1, FS_AddElement
<1>3. QED
  BY <1>1, <1>2

LEMMA CommitReplaces ==
  ASSUME TypeOK, WorkInv, NEW p \in Procs, ChangeCommit(p), proc[p].user \notin contended
  PROVE  Cardinality(roles'[proc[p].user]) = Cardinality(roles[proc[p].user])
<1>1. proc[p].pc = "commit" /\ proc[p].user \in Users
  BY WorkerHas DEF ChangeCommit
<1>2. proc[p].from \in roles[proc[p].user] /\ proc[p].to \notin roles[proc[p].user]
  BY <1>1 DEF WorkInv, ChangeIsFresh
<1>3. roles'[proc[p].user] = (roles[proc[p].user] \ {proc[p].from}) \cup {proc[p].to}
  BY <1>1, <1>2 DEF ChangeCommit, TypeOK
<1>4. IsFiniteSet(roles[proc[p].user])
  BY <1>1, RolesFinite, FS_Subset DEF TypeOK
<1>5. QED
  BY <1>2, <1>3, <1>4, ReplaceOne

\* Nothing but its own steps ends a changeRole, and the others keep the roles.
LEMMA OnlyCommitEnds ==
  ASSUME TypeOK, [Next]_vars, NEW p \in Procs, proc[p].pc = "commit", proc'[p] = Idle
  PROVE  ChangeCommit(p) \/ Fails(p)
<1>1. proc'[p] # proc[p]
  BY DEF Idle
<1>2. ~ UNCHANGED vars
  BY <1>1 DEF vars
<1>3. ASSUME NEW q \in Procs, ListStep(q) \/ ChangeStep(q) \/ Fails(q) PROVE ChangeCommit(p) \/ Fails(p)
  <2>1. q = p
    BY <1>1, <1>3 DEF ListStep, ChangeStep, ListCodes, ListRoles, ListStore, ReadHolders, Delete, ChangeHolds,
                      ChangeCommit, RemoveCommit, Fails, Go, Become, TypeOK
  <2>2. QED
    BY <1>3, <2>1 DEF ListStep, ChangeStep, ListCodes, ListRoles, ListStore, ReadHolders, Delete, ChangeHolds, RemoveCommit
<1>4. ASSUME NEW q \in Procs, NEW u \in Users, Employ(q, u) PROVE FALSE
  BY <1>1, <1>4 DEF Employ, ChangeRole, RemoveStaff, RemoveFromSchool, CreateInSchool, CompleteRegistration, Join,
                   Begin, Become, TypeOK, Idle
<1>5. ASSUME NEW q \in Procs, NEW s \in Servers, NEW u \in Users, ListLook(q, s, u) \/ Permit(q, s, u)
      PROVE FALSE
  BY <1>1, <1>5 DEF Permit, ListLook, AssignToUser, RevokeFromUser, AssignRole, RevokeRole, Begin, Become, TypeOK, Idle
<1>6. ASSUME NEW q \in Procs, NEW s \in Servers, NEW r \in Roles, NEW c \in Codes, AssignToRole(q, s, r, c)
      PROVE FALSE
  BY <1>1, <1>6 DEF AssignToRole, Begin, Become, TypeOK, Idle
<1>7. ASSUME NEW s \in Servers, Restart(s) \/ \E u \in Users : Expire(s, u) PROVE FALSE
  BY <1>1, <1>7 DEF Restart, Expire, Cached
<1>8. QED
  BY <1>2, <1>3, <1>4, <1>5, <1>6, <1>7 DEF Next

(* A user that one request works on at a time comes out of changeRole with   *)
(* as many roles as before, whoever else is changed and whatever fails.      *)
THEOREM ChangesReplace == Spec => ChangeReplaces
<1> DEFINE Replaces ==
      \A p \in Procs : proc[p].pc = "commit" /\ proc'[p] = Idle =>
        LET u == proc[p].user
        IN  u \in contended' \/ Cardinality(roles'[u]) = Cardinality(roles[u])
<1>1. TypeOK /\ WorkInv /\ [Next]_vars => Replaces
  <2> SUFFICES ASSUME TypeOK, WorkInv, [Next]_vars, NEW p \in Procs, proc[p].pc = "commit", proc'[p] = Idle
               PROVE  proc[p].user \in contended' \/ Cardinality(roles'[proc[p].user]) = Cardinality(roles[proc[p].user])
    OBVIOUS
  <2>1. CASE Fails(p)
    BY <2>1 DEF Fails, rows
  <2>2. CASE ChangeCommit(p)
    <3>1. contended' = contended
      BY <2>2 DEF ChangeCommit
    <3>2. QED
      BY <2>2, <3>1, CommitReplaces
  <2>3. QED
    BY <2>1, <2>2, OnlyCommitEnds
<1>2. TypeOK /\ WorkInv /\ [Next]_vars => [Replaces]_vars
  BY <1>1
<1>3. Init => WorkInv
  BY DEF Init, WorkInv, OneWorker, NobodyWorksOnRemoved, RemovedStaysOut, ChangeIsFresh, Working, Idle
<1> HIDE DEF Replaces
<1>4. Spec => [][Replaces]_vars
  BY <1>2, <1>3, NextWork, TypeCorrect, PTL DEF Spec
<1>5. QED
  BY <1>4 DEF ChangeReplaces, Replaces

(* The inductive invariant of Access: alone with the roles of a user, and    *)
(* fresh lists wherever nobody is excused.                                   *)
THEOREM InvariantHolds == Spec => []IInv
<1>1. Init => WorkInv /\ AllFresh
  BY DEF Init, WorkInv, OneWorker, NobodyWorksOnRemoved, RemovedStaysOut, ChangeIsFresh, Working, Idle,
         AllFresh, Fresh, Listing
<1>2. TypeOK /\ WorkInv /\ AllFresh => IInv
  BY DEF IInv, WorkInv, AllFresh
<1>3. QED
  BY <1>1, <1>2, NextWork, NextFresh, TypeCorrect, PTL DEF Spec

=============================================================================
