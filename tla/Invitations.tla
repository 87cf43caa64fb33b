------------------------------ MODULE Invitations ------------------------------
(***************************************************************************)
(* Staff invitations of one school: somebody is invited by e-mail, opens   *)
(* the link and registers, unless the invitation is cancelled or too old.  *)
(*                                                                         *)
(* Statuses are written by id, whatever they have become since they were   *)
(* read, so each awaited statement is an action of its own.  Whether an    *)
(* actor's role permits a call is left out: a refused call writes nothing. *)
(***************************************************************************)
EXTENDS Naturals

CONSTANTS
  Invites,    \* ids of staff_invitations, each used once
  People,     \* e-mail addresses
  Roles,      \* roles one can be invited to
  Procs,      \* concurrent requests
  MaxCalls,   \* how many requests are made in a behaviour
  MaxFaults   \* how many statements fail or servers crash in a behaviour

ASSUME MaxCallsNat == MaxCalls \in Nat
ASSUME MaxFaultsNat == MaxFaults \in Nat

VARIABLES
  status,      \* status[i]: of the staff_invitations row i, or "absent"
  offer,       \* offer[i]: the e-mail address and role of row i
  overdue,     \* invitations whose expires_at has passed
  accounts,    \* addresses with a users row
  staff,       \* <<address, role>> with a user_roles row, and a membership
  registered,  \* registered[i]: audit_logs rows "invitation:completed" for i
  proc,        \* proc[p]: local state of a handler
  calls,       \* requests made so far
  faults,      \* faults so far
  contended    \* history: invitations two requests have worked on at a time

tables == <<status, offer, overdue, accounts, staff, registered>>
vars == <<status, offer, overdue, accounts, staff, registered, proc, calls, faults, contended>>

-----------------------------------------------------------------------------

Status == {"absent", "pending", "processing", "accepted", "expired", "cancelled"}

Offer == [email : People, role : Roles]

Idle == [pc |-> "idle"]

\* Where a handler that works on an invitation can be.
Writing == {"refresh", "cancel", "expire"}
Completing == {"look", "create", "join", "accept", "rollback"}
Others == {"process", "returned"}

ProcRun ==
       [pc : {"duplicate", "insert"}, offer : Offer]
  \cup [pc : Writing \cup Completing \cup Others, invite : Invites]

(* Every row and every local state is one the program can name.             *)
TypeOK ==
  /\ status \in [Invites -> Status]
  /\ offer \in [Invites -> Offer]
  /\ overdue \in SUBSET Invites
  /\ accounts \in SUBSET People
  /\ staff \in SUBSET (People \X Roles)
  /\ registered \in [Invites -> Nat]
  /\ proc \in [Procs -> ProcRun \cup {Idle}]
  /\ calls \in 0..MaxCalls
  /\ faults \in 0..MaxFaults
  /\ contended \in SUBSET Invites

Init ==
  /\ status = [i \in Invites |-> "absent"]
  /\ offer \in [Invites -> Offer]
  /\ overdue = {}
  /\ accounts = {}
  /\ staff = {}
  /\ registered = [i \in Invites |-> 0]
  /\ proc = [p \in Procs |-> Idle]
  /\ calls = 0
  /\ faults = 0
  /\ contended = {}

\* The handlers that work on invitation i.
Workers(i) == {p \in Procs : proc[p].pc \notin {"idle", "duplicate", "insert"} /\ proc[p].invite = i}

Become(p, state) == proc' = [proc EXCEPT ![p] = state]

Begin(p, state) ==
  /\ proc[p] = Idle
  /\ calls < MaxCalls
  /\ calls' = calls + 1
  /\ Become(p, state)
  /\ UNCHANGED faults

BeginOn(p, i, pc) ==
  /\ Begin(p, [pc |-> pc, invite |-> i])
  /\ contended' = IF Workers(i) = {} THEN contended ELSE contended \cup {i}

Go(p, pc) == Become(p, [pc |-> pc, invite |-> proc[p].invite]) /\ UNCHANGED <<calls, faults, contended>>

Done(p) == Become(p, Idle) /\ UNCHANGED <<calls, faults, contended>>

\* UPDATE staff_invitations SET status WHERE id.
Write(i, s) == status' = [status EXCEPT ![i] = s]

-----------------------------------------------------------------------------
(* create: refused when there is an account, or when the same address has   *)
(* been invited to the same role and the invitation is pending.  (The offer *)
(* of an unused id is whatever its first use makes it.)                     *)

CreateLook(p, o) ==
  /\ o.email \notin accounts
  /\ Begin(p, [pc |-> "duplicate", offer |-> o])
  /\ UNCHANGED <<tables, contended>>

PendingFor(o) == {i \in Invites : status[i] = "pending" /\ offer[i] = o}

CreateDuplicate(p) ==
  /\ proc[p].pc = "duplicate"
  /\ Become(p, IF PendingFor(proc[p].offer) = {} THEN [proc[p] EXCEPT !.pc = "insert"] ELSE Idle)
  /\ UNCHANGED <<tables, calls, faults, contended>>

CreateInsert(p, i) ==
  /\ proc[p].pc = "insert"
  /\ status[i] = "absent"
  /\ offer[i] = proc[p].offer
  /\ Write(i, "pending")
  /\ Done(p)
  /\ UNCHANGED <<offer, overdue, accounts, staff, registered>>

-----------------------------------------------------------------------------
(* resend, cancel, validateToken.                                           *)

\* Mutant: a cancelled invitation can be sent again.
ResendAny(p, i) ==
  /\ status[i] \in {"pending", "processing", "expired", "cancelled"}
  /\ BeginOn(p, i, "refresh")
  /\ UNCHANGED tables

ResendRead(p, i) ==
  /\ status[i] \in {"pending", "processing", "expired"}
  /\ BeginOn(p, i, "refresh")
  /\ UNCHANGED tables

\* Mutant: it gets a status of its own, which the others do not know.
ResendMarks(p) ==
  /\ proc[p].pc = "refresh"
  /\ Write(proc[p].invite, "resent")
  /\ overdue' = overdue \ {proc[p].invite}
  /\ Done(p)
  /\ UNCHANGED <<offer, accounts, staff, registered>>

\* refreshToken: a new token, expiry and status.
ResendRefresh(p) ==
  /\ proc[p].pc = "refresh"
  /\ Write(proc[p].invite, "pending")
  /\ overdue' = overdue \ {proc[p].invite}
  /\ Done(p)
  /\ UNCHANGED <<offer, accounts, staff, registered>>

CancelRead(p, i) ==
  /\ status[i] = "pending"
  /\ BeginOn(p, i, "cancel")
  /\ UNCHANGED tables

CancelWrite(p) ==
  /\ proc[p].pc = "cancel"
  /\ Write(proc[p].invite, "cancelled")
  /\ Done(p)
  /\ UNCHANGED <<offer, overdue, accounts, staff, registered>>

\* Only an overdue invitation is written by validateToken.
ValidateRead(p, i) ==
  /\ status[i] = "pending" /\ i \in overdue
  /\ BeginOn(p, i, "expire")
  /\ UNCHANGED tables

ExpireWrite(p) ==
  /\ proc[p].pc = "expire"
  /\ Write(proc[p].invite, "expired")
  /\ Done(p)
  /\ UNCHANGED <<offer, overdue, accounts, staff, registered>>

-----------------------------------------------------------------------------
(* completeRegistration.  The transaction looks for the account first; its  *)
(* INSERT fails on the unique address if somebody else was faster.          *)

\* Mutant: the status is not asked for, only that it was not cancelled.
CompleteAny(p, i) ==
  /\ status[i] \in {"pending", "accepted"}
  /\ BeginOn(p, i, IF i \in overdue THEN "expire" ELSE "process")
  /\ UNCHANGED tables

CompleteRead(p, i) ==
  /\ status[i] = "pending"
  /\ BeginOn(p, i, IF i \in overdue THEN "expire" ELSE "process")
  /\ UNCHANGED tables

CompleteProcess(p) ==
  /\ proc[p].pc = "process"
  /\ Write(proc[p].invite, "processing")
  /\ Go(p, "look")
  /\ UNCHANGED <<offer, overdue, accounts, staff, registered>>

CompleteLook(p) ==
  /\ proc[p].pc = "look"
  /\ Go(p, IF offer[proc[p].invite].email \in accounts THEN "join" ELSE "create")
  /\ UNCHANGED tables

Registers(i) ==
  /\ accounts' = accounts \cup {offer[i].email}
  /\ staff' = staff \cup {<<offer[i].email, offer[i].role>>}
  /\ registered' = [registered EXCEPT ![i] = @ + 1]
  /\ UNCHANGED <<status, offer, overdue>>

\* Mutant: that the address is taken is not an error.
CommitSwallows(p) ==
  /\ proc[p].pc \in {"create", "join"}
  /\ Go(p, "accept")
  /\ IF proc[p].pc = "create" /\ offer[proc[p].invite].email \in accounts
     THEN UNCHANGED tables
     ELSE Registers(proc[p].invite)

CompleteCommit(p) ==
  /\ proc[p].pc \in {"create", "join"}
  /\ IF proc[p].pc = "create" /\ offer[proc[p].invite].email \in accounts
     THEN Go(p, "rollback") /\ UNCHANGED tables
     ELSE Go(p, "accept") /\ Registers(proc[p].invite)

\* updateStatus writes the row and then reads it again.
CompleteAccept(p) ==
  /\ proc[p].pc = "accept"
  /\ Write(proc[p].invite, "accepted")
  /\ Go(p, "returned")
  /\ UNCHANGED <<offer, overdue, accounts, staff, registered>>

CompleteReturn(p) ==
  /\ proc[p].pc = "returned"
  /\ Done(p)
  /\ UNCHANGED tables

\* Mutant: the invitation is left as it is.
RollbackOnly(p) ==
  /\ proc[p].pc = "rollback"
  /\ Done(p)
  /\ UNCHANGED tables

CompleteRollback(p) ==
  /\ proc[p].pc = "rollback"
  /\ Write(proc[p].invite, "pending")
  /\ Done(p)
  /\ UNCHANGED <<offer, overdue, accounts, staff, registered>>

-----------------------------------------------------------------------------
(* Faults.  The transaction and the acceptance are in a try block whose     *)
(* handler sets the invitation back.                                        *)

Fault == faults < MaxFaults /\ faults' = faults + 1

Guarded == {"look", "create", "join", "accept", "returned"}

StatementFails(p) ==
  /\ proc[p] # Idle
  /\ Fault
  /\ Become(p, IF proc[p].pc \in Guarded THEN [proc[p] EXCEPT !.pc = "rollback"] ELSE Idle)
  /\ UNCHANGED <<tables, calls, contended>>

\* The server dies in the middle of a request.
Crash(p) ==
  /\ proc[p] # Idle
  /\ Fault
  /\ Become(p, Idle)
  /\ UNCHANGED <<tables, calls, contended>>

-----------------------------------------------------------------------------
(* The rest of the program: time passes, createInSchool and removeStaff.    *)

Expire(i) ==
  /\ status[i] # "absent"
  /\ i \notin overdue
  /\ overdue' = overdue \cup {i}
  /\ UNCHANGED <<status, offer, accounts, staff, registered, proc, calls, faults, contended>>

UserCreate(e, role) ==
  /\ \A r \in Roles : <<e, r>> \notin staff
  /\ accounts' = accounts \cup {e}
  /\ staff' = staff \cup {<<e, role>>}
  /\ UNCHANGED <<status, offer, overdue, registered, proc, calls, faults, contended>>

StaffRemove(e) ==
  /\ \E r \in Roles : <<e, r>> \in staff
  /\ staff' = {g \in staff : g[1] # e}
  /\ UNCHANGED <<status, offer, overdue, accounts, registered, proc, calls, faults, contended>>

-----------------------------------------------------------------------------
Call(p) ==
  \/ \E o \in Offer : CreateLook(p, o)
  \/ \E i \in Invites : \/ ResendRead(p, i) \/ CancelRead(p, i)
                        \/ ValidateRead(p, i) \/ CompleteRead(p, i)

Serve(p) ==
  \/ CreateDuplicate(p) \/ \E i \in Invites : CreateInsert(p, i)
  \/ ResendRefresh(p) \/ CancelWrite(p) \/ ExpireWrite(p)
  \/ CompleteProcess(p) \/ CompleteLook(p) \/ CompleteCommit(p)
  \/ CompleteAccept(p) \/ CompleteReturn(p) \/ CompleteRollback(p)

Next ==
  \/ \E p \in Procs : Call(p) \/ Serve(p) \/ StatementFails(p) \/ Crash(p)
  \/ \E i \in Invites : Expire(i)
  \/ \E e \in People : StaffRemove(e) \/ \E r \in Roles : UserCreate(e, r)

Spec == Init /\ [][Next]_vars

-----------------------------------------------------------------------------
(* Properties.                                                              *)

(* "accepted" is never a mere status: somebody registered by that           *)
(* invitation, and the audit log has it.  The acceptance is written only    *)
(* after the transaction, and nothing else writes it.                       *)
AcceptedIsRegistered ==
  \A i \in Invites : status[i] = "accepted" => registered[i] > 0

(* An invitation that is being processed is in the hands of a request that  *)
(* will set it to something else, whoever else submits, cancels or resends  *)
(* it; only a fault can leave it behind.                                    *)
ProcessingHasOwner ==
  \A i \in Invites : status[i] = "processing" /\ faults = 0 =>
    \E p \in Procs : proc[p].pc \in Completing /\ proc[p].invite = i

(* What may become of an invitation.  Accepted and cancelled are final; an  *)
(* expired one comes back only by being sent again.                         *)
Steps ==
  { <<"absent", "pending">>,
    <<"pending", "processing">>, <<"pending", "cancelled">>, <<"pending", "expired">>,
    <<"processing", "accepted">>, <<"processing", "pending">>,
    <<"expired", "pending">> }

(* As long as no two requests work on it at a time, an invitation follows   *)
(* that life cycle, whatever fails or crashes and whatever happens to other *)
(* invitations and accounts.  The one exception: an error after the         *)
(* acceptance was written, which sets it back.  (With two requests a        *)
(* rollback revives what was accepted, and a cancellation overwrites it.)   *)
LifecycleStep ==
  \A i \in Invites :
    \/ i \in contended
    \/ status'[i] = status[i]
    \/ <<status[i], status'[i]>> \in Steps
    \/ faults > 0 /\ status[i] = "accepted" /\ status'[i] = "pending"

UncontendedLifecycle == [][LifecycleStep]_vars

(* Without faults and without two requests at a time nobody registers twice *)
(* by one invitation, and none that has registered somebody is open again.  *)
RegistersOnce ==
  \A i \in Invites : i \notin contended /\ faults = 0 =>
    /\ registered[i] <= 1
    /\ registered[i] = 1 => status[i] \in {"processing", "accepted"}

(* Why they hold: an uncontended invitation has at most one request, and    *)
(* what that request has read or written is still so.                       *)
HeldStatus(pc) ==
  {s \in Status :
     \/ pc = "refresh" /\ s \in {"pending", "processing", "expired"}
     \/ pc \in {"cancel", "expire", "process"} /\ s = "pending"
     \/ pc \in Completing /\ s = "processing"
     \/ pc = "rollback" /\ s = "accepted" /\ faults > 0
     \/ pc = "returned" /\ s = "accepted"}

OneWorker ==
  \A i \in Invites : i \notin contended => \A p, q \in Workers(i) : p = q

WorkersKnow ==
  \A i \in Invites : i \notin contended =>
    \A p \in Workers(i) : status[i] \in HeldStatus(proc[p].pc)

WorkersRegister ==
  \A i \in Invites : i \notin contended /\ faults = 0 =>
    \A p \in Workers(i) : registered[i] = IF proc[p].pc \in {"accept", "returned"} THEN 1 ELSE 0

AcceptersRegistered ==
  \A p \in Procs : proc[p].pc \in {"accept", "returned"} => registered[proc[p].invite] > 0

IInv ==
  /\ TypeOK
  /\ AcceptedIsRegistered
  /\ AcceptersRegistered
  /\ ProcessingHasOwner
  /\ OneWorker
  /\ WorkersKnow
  /\ WorkersRegister
  /\ RegistersOnce

=============================================================================
