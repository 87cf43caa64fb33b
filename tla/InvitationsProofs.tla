------------------------- MODULE InvitationsProofs -------------------------
(* Theorems about Invitations for every value of its constants.             *)
EXTENDS Invitations, TLAPS

-----------------------------------------------------------------------------
(* Types.                                                                   *)

LEMMA WorkerHasInvite ==
  ASSUME TypeOK, NEW p \in Procs, proc[p].pc \notin {"idle", "duplicate", "insert"}
  PROVE  /\ proc[p].invite \in Invites
         /\ proc[p].pc \in Writing \cup Completing \cup Others
BY DEF TypeOK, ProcRun, Idle

LEMMA CreatorHasOffer ==
  ASSUME TypeOK, NEW p \in Procs, proc[p].pc \in {"duplicate", "insert"}
  PROVE  proc[p] = [pc |-> proc[p].pc, offer |-> proc[p].offer] /\ proc[p].offer \in Offer
BY DEF TypeOK, ProcRun, Idle, Writing, Completing, Others

LEMMA WorkerState ==
  ASSUME NEW i \in Invites, NEW pc \in Writing \cup Completing \cup Others
  PROVE  [pc |-> pc, invite |-> i] \in ProcRun
BY DEF ProcRun, Writing, Completing, Others

LEMMA InitType == Init => TypeOK
BY MaxCallsNat, MaxFaultsNat DEF Init, TypeOK, Status

LEMMA WriteType ==
  ASSUME TypeOK, NEW i \in Invites, NEW s \in Status, Write(i, s)
  PROVE  status' \in [Invites -> Status]
BY DEF TypeOK, Write

LEMMA BecomeType ==
  ASSUME TypeOK, NEW p \in Procs, NEW state \in ProcRun \cup {Idle}, Become(p, state)
  PROVE  proc' \in [Procs -> ProcRun \cup {Idle}]
BY DEF TypeOK, Become

LEMMA CallType ==
  ASSUME TypeOK, NEW p \in Procs, Call(p)
  PROVE  TypeOK'
<1>0. ASSUME NEW state \in ProcRun, Begin(p, state)
      PROVE  /\ proc' \in [Procs -> ProcRun \cup {Idle}]
             /\ calls' \in 0..MaxCalls
             /\ faults' \in 0..MaxFaults
  BY <1>0, BecomeType, MaxCallsNat DEF Begin, TypeOK
<1>1. ASSUME NEW o \in Offer, CreateLook(p, o) PROVE TypeOK'
  <2>1. [pc |-> "duplicate", offer |-> o] \in ProcRun
    BY DEF ProcRun
  <2>2. QED
    BY <1>0, <1>1, <2>1 DEF CreateLook, TypeOK, tables
<1>2. ASSUME NEW i \in Invites,
             ResendRead(p, i) \/ CancelRead(p, i) \/ ValidateRead(p, i) \/ CompleteRead(p, i)
      PROVE  TypeOK'
  <2>1. PICK pc \in Writing \cup Others : BeginOn(p, i, pc)
    BY <1>2 DEF ResendRead, CancelRead, ValidateRead, CompleteRead, Writing, Others
  <2>2. UNCHANGED tables
    BY <1>2 DEF ResendRead, CancelRead, ValidateRead, CompleteRead
  <2>3. contended' \in SUBSET Invites
    BY <2>1 DEF BeginOn, TypeOK
  <2>4. QED
    BY <1>0, <2>1, <2>2, <2>3, WorkerState DEF BeginOn, TypeOK, tables
<1>3. QED
  BY <1>1, <1>2 DEF Call

LEMMA ServeType ==
  ASSUME TypeOK, NEW p \in Procs, Serve(p)
  PROVE  TypeOK'
<1>0. ASSUME Done(p)
      PROVE  proc' \in [Procs -> ProcRun \cup {Idle}]
  BY <1>0, BecomeType DEF Done
<1>a. ASSUME NEW pc \in Writing \cup Completing \cup Others, Go(p, pc),
             proc[p].pc \notin {"idle", "duplicate", "insert"}
      PROVE  proc' \in [Procs -> ProcRun \cup {Idle}]
  BY <1>a, BecomeType, WorkerHasInvite, WorkerState DEF Go
<1>1. ASSUME CreateDuplicate(p) PROVE TypeOK'
  <2>1. proc[p] = [pc |-> "duplicate", offer |-> proc[p].offer] /\ proc[p].offer \in Offer
    BY <1>1, CreatorHasOffer DEF CreateDuplicate
  <2>2. [proc[p] EXCEPT !.pc = "insert"] \in ProcRun
    BY <2>1 DEF ProcRun
  <2>3. QED
    BY <1>1, <2>2, BecomeType DEF CreateDuplicate, TypeOK, tables
<1>2. ASSUME NEW i \in Invites, CreateInsert(p, i) PROVE TypeOK'
  BY <1>0, <1>2, WriteType DEF CreateInsert, TypeOK, Done, Status
<1>3. ASSUME ResendRefresh(p) \/ CancelWrite(p) \/ ExpireWrite(p) \/ CompleteRollback(p)
      PROVE  TypeOK'
  <2>1. proc[p].invite \in Invites
    BY <1>3, WorkerHasInvite DEF ResendRefresh, CancelWrite, ExpireWrite, CompleteRollback
  <2>2. status' \in [Invites -> Status]
    BY <1>3, <2>1, WriteType DEF ResendRefresh, CancelWrite, ExpireWrite, CompleteRollback, Status
  <2>3. overdue' \in SUBSET Invites
    BY <1>3 DEF ResendRefresh, CancelWrite, ExpireWrite, CompleteRollback, TypeOK
  <2>4. QED
    BY <1>0, <1>3, <2>2, <2>3
    DEF ResendRefresh, CancelWrite, ExpireWrite, CompleteRollback, Done, TypeOK
<1>4. ASSUME CompleteProcess(p) \/ CompleteAccept(p) PROVE TypeOK'
  <2>1. proc[p].invite \in Invites
    BY <1>4, WorkerHasInvite DEF CompleteProcess, CompleteAccept
  <2>2. status' \in [Invites -> Status]
    BY <1>4, <2>1, WriteType DEF CompleteProcess, CompleteAccept, Status
  <2>3. proc' \in [Procs -> ProcRun \cup {Idle}]
    BY <1>a, <1>4 DEF CompleteProcess, CompleteAccept, Completing, Others
  <2>4. QED
    BY <1>4, <2>2, <2>3 DEF CompleteProcess, CompleteAccept, Go, TypeOK
<1>5. ASSUME CompleteLook(p) \/ CompleteReturn(p) PROVE TypeOK'
  <2>1. proc' \in [Procs -> ProcRun \cup {Idle}]
    BY <1>0, <1>a, <1>5 DEF CompleteLook, CompleteReturn, Completing
  <2>2. QED
    BY <1>5, <2>1 DEF CompleteLook, CompleteReturn, Go, Done, TypeOK, tables
<1>6. ASSUME CompleteCommit(p) PROVE TypeOK'
  <2>1. proc[p].invite \in Invites
    BY <1>6, WorkerHasInvite DEF CompleteCommit
  <2>2. offer[proc[p].invite] \in Offer
    BY <2>1 DEF TypeOK
  <2>3. proc' \in [Procs -> ProcRun \cup {Idle}]
    BY <1>a, <1>6 DEF CompleteCommit, Completing
  <2>4. CASE UNCHANGED tables
    BY <1>6, <2>3, <2>4 DEF CompleteCommit, Go, TypeOK, tables
  <2>5. CASE Registers(proc[p].invite)
    <3>1. /\ accounts' \in SUBSET People
          /\ staff' \in SUBSET (People \X Roles)
      BY <2>2, <2>5 DEF Registers, TypeOK, Offer
    <3>2. registered' \in [Invites -> Nat]
      BY <2>1, <2>5 DEF Registers, TypeOK
    <3>3. QED
      BY <1>6, <2>3, <2>5, <3>1, <3>2 DEF CompleteCommit, Go, Registers, TypeOK
  <2>6. QED
    BY <1>6, <2>4, <2>5 DEF CompleteCommit
<1>7. QED
  BY <1>1, <1>2, <1>3, <1>4, <1>5, <1>6 DEF Serve

LEMMA FaultType ==
  ASSUME TypeOK, NEW p \in Procs, StatementFails(p) \/ Crash(p)
  PROVE  TypeOK'
<1>1. faults' \in 0..MaxFaults
  BY MaxFaultsNat DEF StatementFails, Crash, Fault, TypeOK
<1>2. ASSUME proc[p].pc \in Guarded
      PROVE  [proc[p] EXCEPT !.pc = "rollback"] \in ProcRun
  <2>1. proc[p] = [pc |-> proc[p].pc, invite |-> proc[p].invite] /\ proc[p].invite \in Invites
    BY <1>2 DEF Guarded, TypeOK, ProcRun, Idle
  <2>2. [proc[p] EXCEPT !.pc = "rollback"] = [pc |-> "rollback", invite |-> proc[p].invite]
    BY <2>1
  <2>3. QED
    BY <2>1, <2>2, WorkerState DEF Completing
<1>3. proc' \in [Procs -> ProcRun \cup {Idle}]
  BY <1>2, BecomeType DEF StatementFails, Crash
<1>4. QED
  BY <1>1, <1>3 DEF StatementFails, Crash, TypeOK, tables

LEMMA OtherType ==
  ASSUME TypeOK,
         \/ \E i \in Invites : Expire(i)
         \/ \E e \in People : StaffRemove(e) \/ \E r \in Roles : UserCreate(e, r)
  PROVE  TypeOK'
BY DEF TypeOK, Expire, StaffRemove, UserCreate

LEMMA StepType == TypeOK /\ [Next]_vars => TypeOK'
<1>1. ASSUME TypeOK, UNCHANGED vars PROVE TypeOK'
  BY <1>1 DEF TypeOK, vars
<1>2. QED
  BY <1>1, CallType, ServeType, FaultType, OtherType DEF Next

(* Every row of the tables and every request's local state keeps its type,  *)
(* whatever number of invitations, people and requests there are.           *)
THEOREM TypeCorrect == Spec => []TypeOK
<1>1. Init => TypeOK
  BY InitType
<1>2. TypeOK /\ [Next]_vars => TypeOK'
  BY StepType
<1>3. QED
  BY <1>1, <1>2, PTL DEF Spec

-----------------------------------------------------------------------------
(* The inductive invariant.  Each kind of step keeps every part of it.      *)

Safe ==
  /\ AcceptedIsRegistered
  /\ AcceptersRegistered
  /\ ProcessingHasOwner
  /\ OneWorker
  /\ WorkersKnow
  /\ WorkersRegister
  /\ RegistersOnce

Working(p) == proc[p].pc \notin {"idle", "duplicate", "insert"}

LEMMA InitSafe == Init => Safe
<1> SUFFICES ASSUME Init PROVE Safe
  OBVIOUS
<1>1. AcceptedIsRegistered
  BY DEF Safe, AcceptedIsRegistered, Init, Idle
<1>2. AcceptersRegistered
  BY DEF Safe, AcceptersRegistered, Init, Idle
<1>3. ProcessingHasOwner
  BY DEF Safe, ProcessingHasOwner, Init, Idle
<1>4. OneWorker
  BY DEF Safe, OneWorker, Init, Idle, Workers
<1>5. WorkersKnow
  BY DEF Safe, WorkersKnow, Init, Idle, HeldStatus, Workers
<1>6. WorkersRegister
  BY DEF Safe, WorkersRegister, Init, Idle, Workers
<1>7. RegistersOnce
  BY DEF Safe, RegistersOnce, Init, Idle
<1>8. QED
  BY <1>1, <1>2, <1>3, <1>4, <1>5, <1>6, <1>7 DEF Safe

(* A step of a request that works on no invitation, or of no request.       *)

LEMMA ApartSafe ==
  ASSUME TypeOK, Safe, UNCHANGED <<status, registered, faults, contended>>,
         \A p \in Procs : proc'[p] = proc[p] \/ (~ Working(p) /\ ~ Working(p)')
  PROVE  Safe'
<1>1. AcceptedIsRegistered'
  BY DEF Safe, AcceptedIsRegistered, Working, Completing
<1>2. AcceptersRegistered'
  BY DEF Safe, AcceptersRegistered, Working, Completing
<1>3. ProcessingHasOwner'
  BY DEF Safe, ProcessingHasOwner, Working, Completing
<1>4. OneWorker'
  BY DEF Safe, OneWorker, Working, Completing, Workers
<1>5. WorkersKnow'
  BY DEF Safe, WorkersKnow, Working, Completing, HeldStatus, Workers
<1>6. WorkersRegister'
  BY DEF Safe, WorkersRegister, Working, Completing, Workers
<1>7. RegistersOnce'
  BY DEF Safe, RegistersOnce, Working, Completing
<1>8. QED
  BY <1>1, <1>2, <1>3, <1>4, <1>5, <1>6, <1>7 DEF Safe

(* A request begins to work on i and has read its status.                   *)

LEMMA BeginSafe ==
  ASSUME TypeOK, Safe, NEW p \in Procs, NEW i \in Invites,
         NEW pc \in Writing \cup {"process"},
         BeginOn(p, i, pc), UNCHANGED tables,
         status[i] \in HeldStatus(pc)
  PROVE  Safe'
<1>0. /\ \A j \in Invites : Workers(j)' = IF j = i THEN Workers(i) \cup {p} ELSE Workers(j)
      /\ i \notin contended' => Workers(i) = {}
      /\ \A q \in Procs : q # p => proc'[q] = proc[q]
      /\ proc'[p].pc = pc /\ proc'[p].invite = i
      /\ UNCHANGED <<status, registered, faults>> /\ contended \subseteq contended'
  <2>1. proc'[p] = [pc |-> pc, invite |-> i] /\ \A q \in Procs : q # p => proc'[q] = proc[q]
    BY DEF BeginOn, Begin, Become, TypeOK
  <2>2. p \notin Workers(i) /\ \A j \in Invites : p \notin Workers(j)
    BY DEF BeginOn, Begin, Workers, Idle
  <2>3. QED
    BY <2>1, <2>2 DEF Workers, Writing, BeginOn, Begin, tables
<1>1. AcceptedIsRegistered'
  BY DEF Safe, AcceptedIsRegistered, TypeOK, BeginOn, Begin, Become, Idle, tables, Writing, Completing, HeldStatus
<1>2. AcceptersRegistered'
  BY DEF Safe, AcceptersRegistered, TypeOK, BeginOn, Begin, Become, Idle, tables, Writing, Completing, HeldStatus
<1>3. ProcessingHasOwner'
  BY DEF Safe, ProcessingHasOwner, TypeOK, BeginOn, Begin, Become, Idle, tables, Writing, Completing, HeldStatus
<1>4. OneWorker'
  BY DEF Safe, OneWorker, TypeOK, BeginOn, Begin, Become, Idle, tables, Writing, Completing, HeldStatus, Workers
<1>5. WorkersKnow'
  BY DEF Safe, WorkersKnow, TypeOK, BeginOn, Begin, Become, Idle, tables, Writing, Completing, HeldStatus, Workers
<1>6. WorkersRegister'
  <2>1. i \notin contended' /\ faults = 0 => registered[i] = 0
    <3> SUFFICES ASSUME i \notin contended', faults = 0
                 PROVE  registered[i] = 0
      OBVIOUS
    <3>1. i \notin contended /\ Workers(i) = {}
      BY <1>0
    <3>2. status[i] \notin {"processing", "accepted"}
      BY <3>1 DEF Safe, ProcessingHasOwner, Workers, Completing, HeldStatus, Writing
    <3>3. QED
      BY <3>1, <3>2 DEF Safe, RegistersOnce, TypeOK
  <2>2. QED
    BY <1>0, <2>1 DEF Safe, WorkersRegister, Workers, Writing
<1>7. RegistersOnce'
  BY DEF Safe, RegistersOnce, TypeOK, BeginOn, Begin, Become, Idle, tables, Writing, Completing, HeldStatus
<1>8. QED
  BY <1>1, <1>2, <1>3, <1>4, <1>5, <1>6, <1>7 DEF Safe

(* A request that holds i writes its status and ends.                       *)

LEMMA EndSafe ==
  ASSUME TypeOK, Safe, NEW p \in Procs, NEW i \in Invites,
         proc[p].pc \in Writing \cup {"rollback"}, proc[p].invite = i,
         NEW s \in {"pending", "cancelled", "expired"}, Write(i, s),
         Done(p), UNCHANGED registered
  PROVE  Safe'
<1>0. /\ \A j \in Invites : Workers(j)' = IF j = i THEN Workers(i) \ {p} ELSE Workers(j)
      /\ i \notin contended => Workers(i) = {p}
      /\ \A j \in Invites : j # i => status'[j] = status[j]
      /\ \A q \in Procs : q # p => proc'[q] = proc[q]
      /\ UNCHANGED <<faults, contended>>
  <2>1. proc'[p] = Idle /\ \A q \in Procs : q # p => proc'[q] = proc[q]
    BY DEF Done, Become, TypeOK
  <2>2. p \in Workers(i) /\ \A j \in Invites : p \in Workers(j) => j = i
    BY DEF Workers, Writing
  <2>3. QED
    BY <2>1, <2>2 DEF Workers, Done, Idle, Write, TypeOK, Safe, OneWorker
<1>1. AcceptedIsRegistered'
  BY DEF Safe, AcceptedIsRegistered, TypeOK, Done, Become, Idle, Write, Writing, Completing
<1>2. AcceptersRegistered'
  BY DEF Safe, AcceptersRegistered, TypeOK, Done, Become, Idle, Write, Writing, Completing
<1>3. ProcessingHasOwner'
  BY DEF Safe, ProcessingHasOwner, TypeOK, Done, Become, Idle, Write, Writing, Completing
<1>4. OneWorker'
  BY DEF Safe, OneWorker, TypeOK, Done, Become, Idle, Write, Writing, Completing, Workers
<1>5. WorkersKnow'
  <2> SUFFICES ASSUME NEW j \in Invites, j \notin contended, NEW q \in Workers(j)'
               PROVE  status'[j] \in HeldStatus(proc[q].pc)'
    BY <1>0 DEF WorkersKnow
  <2>1. j # i /\ q \in Workers(j)
    BY <1>0
  <2>2. proc'[q] = proc[q]
    BY <2>1, <1>0 DEF Workers
  <2>3. QED
    BY <1>0, <2>1, <2>2 DEF Safe, WorkersKnow, HeldStatus
<1>6. WorkersRegister'
  BY DEF Safe, WorkersRegister, TypeOK, Done, Become, Idle, Write, Writing, Completing, Workers
<1>7. RegistersOnce'
  <2>1. i \notin contended /\ faults = 0 => registered[i] = 0
    BY <1>0 DEF Safe, WorkersRegister, Writing
  <2>2. QED
    BY <1>0, <2>1 DEF Safe, RegistersOnce
<1>8. QED
  BY <1>1, <1>2, <1>3, <1>4, <1>5, <1>6, <1>7 DEF Safe

(* A request that holds an invitation goes on: it is the same requests that *)
(* work on it.                                                              *)

LEMMA GoWorkers ==
  ASSUME TypeOK, Safe, NEW p \in Procs, Working(p),
         NEW pc \in Completing \cup {"returned"}, Go(p, pc)
  PROVE  /\ \A j \in Invites : Workers(j)' = Workers(j)
         /\ proc[p].invite \notin contended => Workers(proc[p].invite) = {p}
         /\ p \in Workers(proc[p].invite)
         /\ \A j \in Invites : j # proc[p].invite => p \notin Workers(j)
         /\ proc'[p].pc = pc /\ proc'[p].invite = proc[p].invite
         /\ \A q \in Procs : q # p => proc'[q] = proc[q]
         /\ UNCHANGED <<faults, contended>>
<1>0. proc[p].invite \in Invites
  BY WorkerHasInvite DEF Working
<1>1. /\ proc'[p] = [pc |-> pc, invite |-> proc[p].invite]
      /\ \A q \in Procs : q # p => proc'[q] = proc[q]
  BY DEF Go, Become, TypeOK
<1>2. p \in Workers(proc[p].invite) /\ \A j \in Invites : p \in Workers(j) => j = proc[p].invite
  BY DEF Workers, Working
<1>3. QED
  BY <1>0, <1>1, <1>2 DEF Workers, Go, Safe, OneWorker, Completing

LEMMA CompleteProcessSafe ==
  ASSUME TypeOK, Safe, NEW p \in Procs, CompleteProcess(p)
  PROVE  Safe'
<1> DEFINE i == proc[p].invite
<1>0. i \in Invites /\ Working(p)
  BY WorkerHasInvite DEF CompleteProcess, Working
<1>a. /\ \A j \in Invites : Workers(j)' = Workers(j)
      /\ i \notin contended => Workers(i) = {p}
      /\ p \in Workers(i) /\ \A j \in Invites : j # i => p \notin Workers(j)
      /\ proc'[p].invite = i /\ proc'[p].pc = "look"
      /\ \A q \in Procs : q # p => proc'[q] = proc[q]
      /\ UNCHANGED <<faults, contended>>
  <2>1. PICK pc \in {"look"} : Go(p, pc)
    BY DEF CompleteProcess
  <2>2. pc \in Completing \cup {"returned"}
    BY DEF Completing
  <2>3. QED
    BY <1>0, <2>1, <2>2, GoWorkers DEF Workers
<1>1. AcceptedIsRegistered'
  BY <1>0, <1>a DEF Safe, AcceptedIsRegistered, AcceptersRegistered, CompleteProcess, Write, TypeOK, tables
<1>2. AcceptersRegistered'
  BY <1>0, <1>a DEF Safe, AcceptersRegistered, CompleteProcess, Write, TypeOK, tables
<1>3. ProcessingHasOwner'
  BY <1>0, <1>a DEF Safe, ProcessingHasOwner, CompleteProcess, Write, TypeOK, Completing, tables
<1>4. OneWorker'
  BY <1>a DEF Safe, OneWorker
<1>5. WorkersKnow'
  <2> SUFFICES ASSUME NEW j \in Invites, j \notin contended, NEW q \in Workers(j)
               PROVE  status'[j] \in HeldStatus(proc[q].pc)'
    BY <1>a DEF WorkersKnow
  <2>1. status[j] \in HeldStatus(proc[q].pc)
    BY DEF Safe, WorkersKnow
  <2>2. CASE q = p
    BY <1>0, <1>a, <2>1, <2>2 DEF CompleteProcess, Write, HeldStatus, Completing, Status, TypeOK
  <2>3. CASE q # p
    <3>1. j # i /\ proc'[q] = proc[q] /\ q \in Procs
      BY <1>a, <2>3 DEF Workers
    <3>2. status'[j] = status[j]
      BY <1>0, <3>1 DEF CompleteProcess, Write, tables, TypeOK
    <3>3. QED
      BY <1>a, <2>1, <3>1, <3>2 DEF HeldStatus
  <2>4. QED
    BY <2>2, <2>3
<1>6. WorkersRegister'
  <2> SUFFICES ASSUME NEW j \in Invites, j \notin contended, faults = 0, NEW q \in Workers(j)
               PROVE  registered'[j] = IF proc'[q].pc \in {"accept", "returned"} THEN 1 ELSE 0
    BY <1>a DEF WorkersRegister
  <2>1. registered[j] = IF proc[q].pc \in {"accept", "returned"} THEN 1 ELSE 0
    BY DEF Safe, WorkersRegister
  <2>2. q # p => j # i /\ proc'[q] = proc[q]
    BY <1>a DEF Workers
  <2>3. QED
    BY <1>0, <1>a, <2>1, <2>2 DEF CompleteProcess, Write, TypeOK, tables
<1>7. RegistersOnce'
  <2> SUFFICES ASSUME NEW j \in Invites, j \notin contended, faults = 0
               PROVE  /\ registered'[j] <= 1
                      /\ registered'[j] = 1 => status'[j] \in {"processing", "accepted"}
    BY <1>a DEF RegistersOnce
  <2>1. CASE j = i
    <3>1. /\ registered[i] = IF proc[p].pc \in {"accept", "returned"} THEN 1 ELSE 0
          /\ status[i] \in HeldStatus(proc[p].pc)
      BY <1>0, <1>a, <2>1 DEF Safe, WorkersRegister, WorkersKnow
    <3>2. QED
      BY <1>0, <1>a, <2>1, <3>1 DEF CompleteProcess, Write, TypeOK, HeldStatus, Completing, tables
  <2>2. CASE j # i
    BY <1>0, <2>2 DEF CompleteProcess, Write, TypeOK, Safe, RegistersOnce, tables
  <2>3. QED
    BY <2>1, <2>2
<1>8. QED
  BY <1>1, <1>2, <1>3, <1>4, <1>5, <1>6, <1>7 DEF Safe

LEMMA CompleteLookSafe ==
  ASSUME TypeOK, Safe, NEW p \in Procs, CompleteLook(p)
  PROVE  Safe'
<1> DEFINE i == proc[p].invite
<1>0. i \in Invites /\ Working(p)
  BY WorkerHasInvite DEF CompleteLook, Working
<1>a. /\ \A j \in Invites : Workers(j)' = Workers(j)
      /\ i \notin contended => Workers(i) = {p}
      /\ p \in Workers(i) /\ \A j \in Invites : j # i => p \notin Workers(j)
      /\ proc'[p].invite = i /\ proc'[p].pc \in {"join", "create"}
      /\ \A q \in Procs : q # p => proc'[q] = proc[q]
      /\ UNCHANGED <<faults, contended>>
  <2>1. PICK pc \in {"join", "create"} : Go(p, pc)
    BY DEF CompleteLook
  <2>2. pc \in Completing \cup {"returned"}
    BY DEF Completing
  <2>3. QED
    BY <1>0, <2>1, <2>2, GoWorkers DEF Workers
<1>1. AcceptedIsRegistered'
  BY <1>0, <1>a DEF Safe, AcceptedIsRegistered, AcceptersRegistered, CompleteLook, TypeOK, tables
<1>2. AcceptersRegistered'
  BY <1>0, <1>a DEF Safe, AcceptersRegistered, CompleteLook, TypeOK, tables
<1>3. ProcessingHasOwner'
  BY <1>0, <1>a DEF Safe, ProcessingHasOwner, CompleteLook, TypeOK, Completing, tables
<1>4. OneWorker'
  BY <1>a DEF Safe, OneWorker
<1>5. WorkersKnow'
  <2> SUFFICES ASSUME NEW j \in Invites, j \notin contended, NEW q \in Workers(j)
               PROVE  status'[j] \in HeldStatus(proc[q].pc)'
    BY <1>a DEF WorkersKnow
  <2>1. status[j] \in HeldStatus(proc[q].pc)
    BY DEF Safe, WorkersKnow
  <2>2. CASE q = p
    BY <1>0, <1>a, <2>1, <2>2 DEF CompleteLook, HeldStatus, Completing, tables, TypeOK
  <2>3. CASE q # p
    <3>1. j # i /\ proc'[q] = proc[q] /\ q \in Procs
      BY <1>a, <2>3 DEF Workers
    <3>2. status'[j] = status[j]
      BY <1>0, <3>1 DEF CompleteLook, tables, TypeOK
    <3>3. QED
      BY <1>a, <2>1, <3>1, <3>2 DEF HeldStatus
  <2>4. QED
    BY <2>2, <2>3
<1>6. WorkersRegister'
  <2> SUFFICES ASSUME NEW j \in Invites, j \notin contended, faults = 0, NEW q \in Workers(j)
               PROVE  registered'[j] = IF proc'[q].pc \in {"accept", "returned"} THEN 1 ELSE 0
    BY <1>a DEF WorkersRegister
  <2>1. registered[j] = IF proc[q].pc \in {"accept", "returned"} THEN 1 ELSE 0
    BY DEF Safe, WorkersRegister
  <2>2. q # p => j # i /\ proc'[q] = proc[q]
    BY <1>a DEF Workers
  <2>3. QED
    BY <1>0, <1>a, <2>1, <2>2 DEF CompleteLook, TypeOK, tables
<1>7. RegistersOnce'
  <2> SUFFICES ASSUME NEW j \in Invites, j \notin contended, faults = 0
               PROVE  /\ registered'[j] <= 1
                      /\ registered'[j] = 1 => status'[j] \in {"processing", "accepted"}
    BY <1>a DEF RegistersOnce
  <2>1. CASE j = i
    <3>1. /\ registered[i] = IF proc[p].pc \in {"accept", "returned"} THEN 1 ELSE 0
          /\ status[i] \in HeldStatus(proc[p].pc)
      BY <1>0, <1>a, <2>1 DEF Safe, WorkersRegister, WorkersKnow
    <3>2. QED
      BY <1>0, <1>a, <2>1, <3>1 DEF CompleteLook, TypeOK, HeldStatus, Completing, tables
  <2>2. CASE j # i
    BY <1>0, <2>2 DEF CompleteLook, TypeOK, Safe, RegistersOnce, tables
  <2>3. QED
    BY <2>1, <2>2
<1>8. QED
  BY <1>1, <1>2, <1>3, <1>4, <1>5, <1>6, <1>7 DEF Safe

LEMMA CompleteCommitSafe ==
  ASSUME TypeOK, Safe, NEW p \in Procs, CompleteCommit(p)
  PROVE  Safe'
<1> DEFINE i == proc[p].invite
<1>0. i \in Invites /\ Working(p)
  BY WorkerHasInvite DEF CompleteCommit, Working
<1>a. /\ \A j \in Invites : Workers(j)' = Workers(j)
      /\ i \notin contended => Workers(i) = {p}
      /\ p \in Workers(i) /\ \A j \in Invites : j # i => p \notin Workers(j)
      /\ proc'[p].invite = i /\ proc'[p].pc \in {"rollback", "accept"}
      /\ \A q \in Procs : q # p => proc'[q] = proc[q]
      /\ UNCHANGED <<faults, contended>>
  <2>1. PICK pc \in {"rollback", "accept"} : Go(p, pc)
    BY DEF CompleteCommit
  <2>2. pc \in Completing \cup {"returned"}
    BY DEF Completing
  <2>3. QED
    BY <1>0, <2>1, <2>2, GoWorkers DEF Workers
<1>b. \/ proc'[p].pc = "rollback" /\ UNCHANGED <<status, registered>>
      \/ /\ proc'[p].pc = "accept" /\ UNCHANGED status
         /\ registered' = [registered EXCEPT ![i] = @ + 1]
  BY DEF CompleteCommit, Registers, tables, Go, Become, TypeOK
<1>1. AcceptedIsRegistered'
  BY <1>0, <1>b DEF Safe, AcceptedIsRegistered, TypeOK
<1>2. AcceptersRegistered'
  <2>1. \A j \in Invites : registered'[j] >= registered[j]
    BY <1>0, <1>b DEF TypeOK
  <2>2. ASSUME NEW q \in Procs, q # p, proc'[q].pc \in {"accept", "returned"}
        PROVE  registered'[proc'[q].invite] > 0
    <3>1. proc'[q] = proc[q] /\ proc[q].invite \in Invites
      BY <1>a, <2>2, WorkerHasInvite
    <3>2. registered[proc[q].invite] > 0
      BY <2>2, <3>1 DEF Safe, AcceptersRegistered
    <3>3. registered[proc[q].invite] \in Nat /\ registered'[proc[q].invite] \in Nat
      BY <1>0, <1>b, <3>1 DEF TypeOK
    <3>4. QED
      BY <2>1, <3>1, <3>2, <3>3
  <2>3. proc'[p].pc = "accept" => registered'[i] > 0
    BY <1>0, <1>b DEF TypeOK
  <2>4. QED
    BY <1>a, <2>2, <2>3 DEF AcceptersRegistered
<1>3. ProcessingHasOwner'
  BY <1>0, <1>a, <1>b DEF Safe, ProcessingHasOwner, TypeOK, Completing
<1>4. OneWorker'
  BY <1>a DEF Safe, OneWorker
<1>5. WorkersKnow'
  <2> SUFFICES ASSUME NEW j \in Invites, j \notin contended, NEW q \in Workers(j)
               PROVE  status'[j] \in HeldStatus(proc[q].pc)'
    BY <1>a DEF WorkersKnow
  <2>1. status[j] \in HeldStatus(proc[q].pc)
    BY DEF Safe, WorkersKnow
  <2>2. CASE q = p
    BY <1>0, <1>a, <2>1, <2>2, <1>b DEF CompleteCommit, HeldStatus, Completing, TypeOK
  <2>3. CASE q # p
    <3>1. j # i /\ proc'[q] = proc[q] /\ q \in Procs
      BY <1>a, <2>3 DEF Workers
    <3>2. status'[j] = status[j]
      BY <1>0, <3>1, <1>b DEF tables, TypeOK
    <3>3. QED
      BY <1>a, <2>1, <3>1, <3>2 DEF HeldStatus
  <2>4. QED
    BY <2>2, <2>3
<1>6. WorkersRegister'
  <2> SUFFICES ASSUME NEW j \in Invites, j \notin contended, faults = 0, NEW q \in Workers(j)
               PROVE  registered'[j] = IF proc'[q].pc \in {"accept", "returned"} THEN 1 ELSE 0
    BY <1>a DEF WorkersRegister
  <2>1. registered[j] = IF proc[q].pc \in {"accept", "returned"} THEN 1 ELSE 0
    BY DEF Safe, WorkersRegister
  <2>2. q # p => j # i /\ proc'[q] = proc[q]
    BY <1>a DEF Workers
  <2>3. QED
    BY <1>0, <1>a, <2>1, <2>2, <1>b DEF CompleteCommit, TypeOK
<1>7. RegistersOnce'
  <2> SUFFICES ASSUME NEW j \in Invites, j \notin contended, faults = 0
               PROVE  /\ registered'[j] <= 1
                      /\ registered'[j] = 1 => status'[j] \in {"processing", "accepted"}
    BY <1>a DEF RegistersOnce
  <2>1. CASE j = i
    <3>1. /\ registered[i] = IF proc[p].pc \in {"accept", "returned"} THEN 1 ELSE 0
          /\ status[i] \in HeldStatus(proc[p].pc)
      BY <1>0, <1>a, <2>1 DEF Safe, WorkersRegister, WorkersKnow
    <3>2. QED
      BY <1>0, <1>a, <2>1, <3>1, <1>b DEF CompleteCommit, TypeOK, HeldStatus, Completing
  <2>2. CASE j # i
    BY <1>0, <2>2, <1>b DEF TypeOK, Safe, RegistersOnce
  <2>3. QED
    BY <2>1, <2>2
<1>8. QED
  BY <1>1, <1>2, <1>3, <1>4, <1>5, <1>6, <1>7 DEF Safe

LEMMA CompleteAcceptSafe ==
  ASSUME TypeOK, Safe, NEW p \in Procs, CompleteAccept(p)
  PROVE  Safe'
<1> DEFINE i == proc[p].invite
<1>0. i \in Invites /\ Working(p)
  BY WorkerHasInvite DEF CompleteAccept, Working
<1>a. /\ \A j \in Invites : Workers(j)' = Workers(j)
      /\ i \notin contended => Workers(i) = {p}
      /\ p \in Workers(i) /\ \A j \in Invites : j # i => p \notin Workers(j)
      /\ proc'[p].invite = i /\ proc'[p].pc = "returned"
      /\ \A q \in Procs : q # p => proc'[q] = proc[q]
      /\ UNCHANGED <<faults, contended>>
  <2>1. PICK pc \in {"returned"} : Go(p, pc)
    BY DEF CompleteAccept
  <2>2. pc \in Completing \cup {"returned"}
    BY DEF Completing
  <2>3. QED
    BY <1>0, <2>1, <2>2, GoWorkers DEF Workers
<1>1. AcceptedIsRegistered'
  BY <1>0, <1>a DEF Safe, AcceptedIsRegistered, AcceptersRegistered, CompleteAccept, Write, TypeOK, tables
<1>2. AcceptersRegistered'
  BY <1>0, <1>a DEF Safe, AcceptersRegistered, CompleteAccept, Write, TypeOK, tables
<1>3. ProcessingHasOwner'
  BY <1>0, <1>a DEF Safe, ProcessingHasOwner, CompleteAccept, Write, TypeOK, Completing, tables
<1>4. OneWorker'
  BY <1>a DEF Safe, OneWorker
<1>5. WorkersKnow'
  <2> SUFFICES ASSUME NEW j \in Invites, j \notin contended, NEW q \in Workers(j)
               PROVE  status'[j] \in HeldStatus(proc[q].pc)'
    BY <1>a DEF WorkersKnow
  <2>1. status[j] \in HeldStatus(proc[q].pc)
    BY DEF Safe, WorkersKnow
  <2>2. CASE q = p
    BY <1>0, <1>a, <2>1, <2>2 DEF CompleteAccept, Write, HeldStatus, Completing, Status, TypeOK
  <2>3. CASE q # p
    <3>1. j # i /\ proc'[q] = proc[q] /\ q \in Procs
      BY <1>a, <2>3 DEF Workers
    <3>2. status'[j] = status[j]
      BY <1>0, <3>1 DEF CompleteAccept, Write, tables, TypeOK
    <3>3. QED
      BY <1>a, <2>1, <3>1, <3>2 DEF HeldStatus
  <2>4. QED
    BY <2>2, <2>3
<1>6. WorkersRegister'
  <2> SUFFICES ASSUME NEW j \in Invites, j \notin contended, faults = 0, NEW q \in Workers(j)
               PROVE  registered'[j] = IF proc'[q].pc \in {"accept", "returned"} THEN 1 ELSE 0
    BY <1>a DEF WorkersRegister
  <2>1. registered[j] = IF proc[q].pc \in {"accept", "returned"} THEN 1 ELSE 0
    BY DEF Safe, WorkersRegister
  <2>2. q # p => j # i /\ proc'[q] = proc[q]
    BY <1>a DEF Workers
  <2>3. QED
    BY <1>0, <1>a, <2>1, <2>2 DEF CompleteAccept, Write, TypeOK, tables
<1>7. RegistersOnce'
  <2> SUFFICES ASSUME NEW j \in Invites, j \notin contended, faults = 0
               PROVE  /\ registered'[j] <= 1
                      /\ registered'[j] = 1 => status'[j] \in {"processing", "accepted"}
    BY <1>a DEF RegistersOnce
  <2>1. CASE j = i
    <3>1. /\ registered[i] = IF proc[p].pc \in {"accept", "returned"} THEN 1 ELSE 0
          /\ status[i] \in HeldStatus(proc[p].pc)
      BY <1>0, <1>a, <2>1 DEF Safe, WorkersRegister, WorkersKnow
    <3>2. QED
      BY <1>0, <1>a, <2>1, <3>1 DEF CompleteAccept, Write, TypeOK, HeldStatus, Completing, tables
  <2>2. CASE j # i
    BY <1>0, <2>2 DEF CompleteAccept, Write, TypeOK, Safe, RegistersOnce, tables
  <2>3. QED
    BY <2>1, <2>2
<1>8. QED
  BY <1>1, <1>2, <1>3, <1>4, <1>5, <1>6, <1>7 DEF Safe

(* An accepted registration ends.                                           *)

LEMMA CompleteReturnSafe ==
  ASSUME TypeOK, Safe, NEW p \in Procs, CompleteReturn(p)
  PROVE  Safe'
<1>0. /\ \A j \in Invites : Workers(j)' = Workers(j) \ {p}
      /\ proc'[p] = Idle /\ \A q \in Procs : q # p => proc'[q] = proc[q]
      /\ UNCHANGED <<status, registered, faults, contended>>
  BY DEF CompleteReturn, Done, Become, Idle, TypeOK, Workers, tables
<1>1. AcceptedIsRegistered'
  BY <1>0 DEF Safe, AcceptedIsRegistered
<1>2. AcceptersRegistered'
  BY <1>0 DEF Safe, AcceptersRegistered, Idle
<1>3. ProcessingHasOwner'
  BY <1>0 DEF Safe, ProcessingHasOwner, CompleteReturn, Completing
<1>4. OneWorker'
  BY <1>0 DEF Safe, OneWorker
<1>5. WorkersKnow'
  BY <1>0 DEF Safe, WorkersKnow, HeldStatus, Workers
<1>6. WorkersRegister'
  BY <1>0 DEF Safe, WorkersRegister, Workers
<1>7. RegistersOnce'
  BY <1>0 DEF Safe, RegistersOnce
<1>8. QED
  BY <1>1, <1>2, <1>3, <1>4, <1>5, <1>6, <1>7 DEF Safe

(* An invitation is created: no request works on an absent row, unless two  *)
(* have.                                                                    *)

LEMMA CreateInsertSafe ==
  ASSUME TypeOK, Safe, NEW p \in Procs, NEW i \in Invites, CreateInsert(p, i)
  PROVE  Safe'
<1>0. /\ \A j \in Invites : Workers(j)' = Workers(j) /\ p \notin Workers(j)
      /\ proc'[p] = Idle /\ \A q \in Procs : q # p => proc'[q] = proc[q]
      /\ status'[i] = "pending" /\ \A j \in Invites : j # i => status'[j] = status[j]
      /\ UNCHANGED <<registered, faults, contended>>
  BY DEF CreateInsert, Done, Become, Idle, TypeOK, Workers, Write
<1>a. i \notin contended => Workers(i) = {}
  <2>1. ASSUME NEW q \in Workers(i) PROVE "absent" \notin HeldStatus(proc[q].pc)
    <3>1. proc[q].pc \in Writing \cup Completing \cup Others
      BY WorkerHasInvite DEF Workers
    <3>2. QED
      BY <3>1 DEF HeldStatus, Writing, Completing, Others
  <2>2. QED
    BY <2>1 DEF CreateInsert, Safe, WorkersKnow
<1>1. AcceptedIsRegistered'
  BY <1>0 DEF Safe, AcceptedIsRegistered
<1>2. AcceptersRegistered'
  BY <1>0 DEF Safe, AcceptersRegistered, Idle
<1>3. ProcessingHasOwner'
  BY <1>0 DEF Safe, ProcessingHasOwner, CreateInsert, Completing
<1>4. OneWorker'
  BY <1>0 DEF Safe, OneWorker
<1>5. WorkersKnow'
  <2> SUFFICES ASSUME NEW j \in Invites, j \notin contended, NEW q \in Workers(j)
               PROVE  status'[j] \in HeldStatus(proc[q].pc)'
    BY <1>0 DEF WorkersKnow
  <2>1. j # i /\ proc'[q] = proc[q]
    BY <1>0, <1>a DEF Workers
  <2>2. QED
    BY <1>0, <2>1 DEF Safe, WorkersKnow, HeldStatus
<1>6. WorkersRegister'
  BY <1>0 DEF Safe, WorkersRegister, Workers
<1>7. RegistersOnce'
  BY <1>0 DEF Safe, RegistersOnce, CreateInsert, TypeOK
<1>8. QED
  BY <1>1, <1>2, <1>3, <1>4, <1>5, <1>6, <1>7 DEF Safe

(* A request is broken off, or sent to the rollback.                        *)

LEMMA FaultSafe ==
  ASSUME TypeOK, Safe, NEW p \in Procs, StatementFails(p) \/ Crash(p)
  PROVE  Safe'
<1>0. /\ \/ proc'[p] = Idle
         \/ proc[p].pc \in Guarded /\ proc'[p].pc = "rollback" /\ proc'[p].invite = proc[p].invite
      /\ \A q \in Procs : q # p => proc'[q] = proc[q]
      /\ UNCHANGED <<status, registered, contended>>
      /\ faults \in Nat /\ faults' = faults + 1
  <2>1. proc[p].pc \in Guarded => /\ [proc[p] EXCEPT !.pc = "rollback"].pc = "rollback"
                                  /\ [proc[p] EXCEPT !.pc = "rollback"].invite = proc[p].invite
    BY DEF Guarded, TypeOK, ProcRun, Idle, Writing, Completing, Others
  <2>2. QED
    <3>1. proc'[p] = Idle \/ (proc[p].pc \in Guarded /\ proc'[p] = [proc[p] EXCEPT !.pc = "rollback"])
      BY DEF StatementFails, Crash, Become, TypeOK
    <3>2. faults \in Nat /\ faults' = faults + 1
      BY MaxFaultsNat DEF StatementFails, Crash, Fault, TypeOK
    <3>3. QED
      BY <2>1, <3>1, <3>2 DEF StatementFails, Crash, Become, TypeOK, tables
<1>a. \A j \in Invites : Workers(j)' \subseteq Workers(j)
  BY <1>0 DEF Workers, Idle, Guarded
<1>1. AcceptedIsRegistered'
  BY <1>0 DEF Safe, AcceptedIsRegistered
<1>2. AcceptersRegistered'
  BY <1>0 DEF Safe, AcceptersRegistered, Idle
<1>3. ProcessingHasOwner'
  BY <1>0 DEF ProcessingHasOwner
<1>4. OneWorker'
  BY <1>0, <1>a DEF Safe, OneWorker
<1>5. WorkersKnow'
  <2> SUFFICES ASSUME NEW j \in Invites, j \notin contended, NEW q \in Workers(j)'
               PROVE  status[j] \in HeldStatus(proc[q].pc)'
    BY <1>0 DEF WorkersKnow
  <2>1. q \in Workers(j) /\ status[j] \in HeldStatus(proc[q].pc)
    BY <1>a DEF Safe, WorkersKnow
  <2>2. CASE q = p
    <3>1. proc[p].pc \in Guarded /\ proc'[p].pc = "rollback"
      BY <1>0, <2>2 DEF Workers, Idle
    <3>2. status[j] \in {"processing", "accepted"}
      BY <2>1, <2>2, <3>1 DEF HeldStatus, Guarded, Completing
    <3>3. QED
      BY <1>0, <2>2, <3>1, <3>2 DEF HeldStatus, Status, Completing
  <2>3. CASE q # p
    <3>1. proc'[q] = proc[q] /\ proc[q].pc \in Writing \cup Completing \cup Others
      BY <1>0, <2>1, <2>3, WorkerHasInvite DEF Workers
    <3>2. QED
      BY <1>0, <2>1, <3>1 DEF HeldStatus, Writing, Completing, Others
  <2>4. QED
    BY <2>2, <2>3
<1>6. WorkersRegister'
  BY <1>0 DEF WorkersRegister
<1>7. RegistersOnce'
  BY <1>0 DEF RegistersOnce
<1>8. QED
  BY <1>1, <1>2, <1>3, <1>4, <1>5, <1>6, <1>7 DEF Safe

LEMMA CallSafe ==
  ASSUME TypeOK, Safe, NEW p \in Procs, Call(p)
  PROVE  Safe'
<1>1. ASSUME NEW o \in Offer, CreateLook(p, o) PROVE Safe'
  <2>1. \A q \in Procs : proc'[q] = proc[q] \/ (~ Working(q) /\ ~ Working(q)')
    BY <1>1 DEF CreateLook, Begin, Become, Working, Idle, TypeOK
  <2>2. UNCHANGED <<status, registered, faults, contended>>
    BY <1>1 DEF CreateLook, Begin, tables
  <2>3. QED
    BY <2>1, <2>2, ApartSafe
<1>2. ASSUME NEW i \in Invites, ResendRead(p, i) PROVE Safe'
  BY <1>2, BeginSafe DEF ResendRead, HeldStatus, Status, Writing
<1>3. ASSUME NEW i \in Invites, CancelRead(p, i) PROVE Safe'
  BY <1>3, BeginSafe DEF CancelRead, HeldStatus, Status, Writing
<1>4. ASSUME NEW i \in Invites, ValidateRead(p, i) PROVE Safe'
  BY <1>4, BeginSafe DEF ValidateRead, HeldStatus, Status, Writing
<1>5. ASSUME NEW i \in Invites, CompleteRead(p, i) PROVE Safe'
  <2>1. PICK pc \in {"expire", "process"} : BeginOn(p, i, pc)
    BY <1>5 DEF CompleteRead
  <2>2. status[i] \in HeldStatus(pc)
    BY <1>5, <2>1 DEF CompleteRead, HeldStatus, Status
  <2>3. QED
    BY <1>5, <2>1, <2>2, BeginSafe DEF CompleteRead, Writing
<1>6. QED
  BY <1>1, <1>2, <1>3, <1>4, <1>5 DEF Call

LEMMA ServeSafe ==
  ASSUME TypeOK, Safe, NEW p \in Procs, Serve(p)
  PROVE  Safe'
<1>1. ASSUME CreateDuplicate(p) PROVE Safe'
  <2>1. proc'[p].pc \in {"insert", "idle"}
    BY <1>1, CreatorHasOffer DEF CreateDuplicate, Become, TypeOK, Idle
  <2>2. \A q \in Procs : proc'[q] = proc[q] \/ (~ Working(q) /\ ~ Working(q)')
    BY <1>1, <2>1 DEF CreateDuplicate, Become, Working, TypeOK
  <2>3. UNCHANGED <<status, registered, faults, contended>>
    BY <1>1 DEF CreateDuplicate, tables
  <2>4. QED
    BY <2>2, <2>3, ApartSafe
<1>2. ASSUME ResendRefresh(p) \/ CancelWrite(p) \/ ExpireWrite(p) \/ CompleteRollback(p)
      PROVE  Safe'
  <2>1. proc[p].invite \in Invites /\ proc[p].pc \in Writing \cup {"rollback"}
    BY <1>2, WorkerHasInvite
    DEF ResendRefresh, CancelWrite, ExpireWrite, CompleteRollback, Writing
  <2>2. PICK s \in {"pending", "cancelled", "expired"} : Write(proc[p].invite, s)
    BY <1>2 DEF ResendRefresh, CancelWrite, ExpireWrite, CompleteRollback
  <2>3. Done(p) /\ UNCHANGED registered
    BY <1>2 DEF ResendRefresh, CancelWrite, ExpireWrite, CompleteRollback
  <2>4. QED
    BY <2>1, <2>2, <2>3, EndSafe
<1>3. QED
  BY <1>1, <1>2, CreateInsertSafe, CompleteProcessSafe, CompleteLookSafe,
     CompleteCommitSafe, CompleteAcceptSafe, CompleteReturnSafe
  DEF Serve

LEMMA StepSafe == TypeOK /\ Safe /\ [Next]_vars => Safe'
<1> SUFFICES ASSUME TypeOK, Safe, [Next]_vars PROVE Safe'
  OBVIOUS
<1>1. ASSUME UNCHANGED <<status, registered, faults, contended, proc>> PROVE Safe'
  BY <1>1, ApartSafe
<1>2. CASE UNCHANGED vars
  BY <1>1, <1>2 DEF vars
<1>3. ASSUME \/ \E i \in Invites : Expire(i)
             \/ \E e \in People : StaffRemove(e) \/ \E r \in Roles : UserCreate(e, r)
      PROVE  Safe'
  BY <1>1, <1>3 DEF Expire, StaffRemove, UserCreate
<1>4. QED
  BY <1>2, <1>3, CallSafe, ServeSafe, FaultSafe DEF Next

(* What a request has read or written of an invitation nobody else works on *)
(* stays so: the inductive invariant.                                       *)
THEOREM InvariantHolds == Spec => []IInv
<1>1. Init => TypeOK /\ Safe
  BY InitType, InitSafe
<1>2. TypeOK /\ Safe /\ [Next]_vars => (TypeOK /\ Safe)'
  BY StepType, StepSafe
<1>3. TypeOK /\ Safe => IInv
  BY DEF IInv, Safe
<1>4. QED
  BY <1>1, <1>2, <1>3, PTL DEF Spec

(* "accepted" means that somebody registered: whatever requests overlap and *)
(* whatever fails, no status runs ahead of the registration.                *)
THEOREM AcceptanceIsReal == Spec => []AcceptedIsRegistered
<1>1. IInv => AcceptedIsRegistered
  BY DEF IInv
<1>2. QED
  BY <1>1, InvariantHolds, PTL

(* Without faults no invitation is stuck in "processing".                   *)
THEOREM NothingStuck == Spec => []ProcessingHasOwner
<1>1. IInv => ProcessingHasOwner
  BY DEF IInv
<1>2. QED
  BY <1>1, InvariantHolds, PTL

(* Nobody registers twice by an invitation that is used by one at a time.   *)
THEOREM OneRegistration == Spec => []RegistersOnce
<1>1. IInv => RegistersOnce
  BY DEF IInv
<1>2. QED
  BY <1>1, InvariantHolds, PTL

-----------------------------------------------------------------------------
(* The life cycle.                                                          *)

LEMMA WritesFollow ==
  ASSUME TypeOK, Safe, NEW p \in Procs,
         \/ ResendRefresh(p) \/ CancelWrite(p) \/ ExpireWrite(p)
         \/ CompleteProcess(p) \/ CompleteAccept(p) \/ CompleteRollback(p)
  PROVE  LifecycleStep
<1> DEFINE i == proc[p].invite
<1>0. p \in Workers(i) /\ i \in Invites
  BY WorkerHasInvite
  DEF Workers, ResendRefresh, CancelWrite, ExpireWrite, CompleteProcess, CompleteAccept, CompleteRollback
<1>1. \A j \in Invites : j # i => status'[j] = status[j]
  BY DEF TypeOK, Write, ResendRefresh, CancelWrite, ExpireWrite, CompleteProcess, CompleteAccept, CompleteRollback
<1>2. i \notin contended => status[i] \in HeldStatus(proc[p].pc)
  BY <1>0 DEF Safe, WorkersKnow
<1>3. \/ i \in contended
      \/ status'[i] = status[i]
      \/ <<status[i], status'[i]>> \in Steps
      \/ faults > 0 /\ status[i] = "accepted" /\ status'[i] = "pending"
  <2>1. CASE ResendRefresh(p)
    BY <1>0, <1>2, <2>1 DEF ResendRefresh, Write, HeldStatus, Steps, TypeOK, Completing
  <2>2. CASE CancelWrite(p) \/ ExpireWrite(p) \/ CompleteProcess(p)
    BY <1>0, <1>2, <2>2 DEF CancelWrite, ExpireWrite, CompleteProcess, Write, HeldStatus, Steps, TypeOK, Completing
  <2>3. CASE CompleteAccept(p)
    BY <1>0, <1>2, <2>3 DEF CompleteAccept, Write, HeldStatus, Steps, TypeOK, Completing
  <2>4. CASE CompleteRollback(p)
    BY <1>0, <1>2, <2>4 DEF CompleteRollback, Write, HeldStatus, Steps, TypeOK, Completing
  <2>5. QED
    BY <2>1, <2>2, <2>3, <2>4
<1>4. QED
  BY <1>1, <1>3 DEF LifecycleStep

LEMMA StepsFollow == TypeOK /\ Safe /\ [Next]_vars => LifecycleStep
<1> SUFFICES ASSUME TypeOK, Safe, [Next]_vars PROVE LifecycleStep
  OBVIOUS
<1>1. ASSUME UNCHANGED status PROVE LifecycleStep
  BY <1>1 DEF LifecycleStep
<1>2. ASSUME NEW p \in Procs, NEW i \in Invites, CreateInsert(p, i) PROVE LifecycleStep
  BY <1>2 DEF CreateInsert, Write, LifecycleStep, Steps, TypeOK
<1>3. ASSUME NEW p \in Procs, Call(p) PROVE LifecycleStep
  BY <1>1, <1>3 DEF Call, CreateLook, ResendRead, CancelRead, ValidateRead, CompleteRead, tables
<1>4. ASSUME NEW p \in Procs, Serve(p) PROVE LifecycleStep
  <2>1. ASSUME CreateDuplicate(p) \/ CompleteLook(p) \/ CompleteCommit(p) \/ CompleteReturn(p)
        PROVE  UNCHANGED status
    BY <2>1 DEF CreateDuplicate, CompleteLook, CompleteCommit, CompleteReturn, Registers, tables
  <2>2. QED
    BY <1>1, <1>2, <1>4, <2>1, WritesFollow DEF Serve
<1>5. ASSUME NEW p \in Procs, StatementFails(p) \/ Crash(p) PROVE LifecycleStep
  BY <1>1, <1>5 DEF StatementFails, Crash, tables
<1>6. ASSUME \/ \E i \in Invites : Expire(i)
             \/ \E e \in People : StaffRemove(e) \/ \E r \in Roles : UserCreate(e, r)
      PROVE  LifecycleStep
  BY <1>1, <1>6 DEF Expire, StaffRemove, UserCreate
<1>7. CASE UNCHANGED vars
  BY <1>1, <1>7 DEF vars
<1>8. QED
  BY <1>3, <1>4, <1>5, <1>6, <1>7 DEF Next

(* An invitation that no two requests work on at a time goes through its    *)
(* life cycle only: what was accepted or cancelled stays so.                *)
THEOREM LifecycleHolds == Spec => UncontendedLifecycle
<1>1. IInv /\ [Next]_vars => [LifecycleStep]_vars
  BY StepsFollow DEF IInv, Safe
<1>2. QED
  BY <1>1, InvariantHolds, PTL DEF Spec, UncontendedLifecycle

=============================================================================
