------------------------------ MODULE Promotion ------------------------------
(***************************************************************************)
(* The weekly timetable promotion of one school: an HoD opens a promotion  *)
(* cycle for a week, the lecturers answer for their slots, and a cron job  *)
(* resets on Sunday what nobody answered.  A second job repairs resets     *)
(* that stopped half way.                                                  *)
(*                                                                         *)
(* No handler of the promotion module runs in a transaction, so each       *)
(* awaited statement is an action of its own and everything read before an *)
(* await is kept in the record of the process that read it.  The handlers  *)
(* of other modules that write the same rows (timetable, sessions) are one *)
(* action each.                                                            *)
(***************************************************************************)
EXTENDS Naturals, FiniteSets

CONSTANTS
  Slots,       \* ids of timetable slots
  Weeks,       \* the weeks of the active academic year, in date order
  Triggers,    \* concurrent POST promotion-cycles requests
  Calls,       \* concurrent requests on slot promotions
  Kinds,       \* the kinds of calls that lecturers make
  Servers,     \* the processes of the API, each of which runs both cron jobs
  MaxFaults,   \* how many statements fail or crashes happen in a behaviour
  NoSlot       \* the null of sessions.timetable_slot_id

AllKinds == {"confirm", "modify", "reschedule", "cancel"}

ASSUME WeeksAreOrdered == Weeks \subseteq Nat
ASSUME NoSlotIsNull == NoSlot \notin Slots
ASSUME KindsAreKinds == Kinds \subseteq AllKinds
ASSUME MaxFaultsNat == MaxFaults \in Nat

VARIABLES
  cycle,     \* cycle[w]: status of the promotion_cycles row of week w
  promo,     \* promo[w][s]: status of the slot_promotions row of w's cycle
  slotRow,   \* slotRow[s]: the timetable_slots row
  session,   \* session[x]: the sessions row x
  trigger,   \* trigger[t]: local state of a triggerPromotion request
  call,      \* call[c]: local state of a lecturer's request
  reset,     \* reset[p]: local state of process p's run of handleWeeklyReset
  recon,     \* recon[p]: the same for reconcileOrphanedResets
  contested, \* history: the weeks that two runs of the reset job held at once
  faults     \* faults so far

tables == <<cycle, promo, slotRow, session>>
vars == <<cycle, promo, slotRow, session, trigger, call, reset, recon, contested, faults>>

-----------------------------------------------------------------------------
(* Rows.  The unique keys (school, week_start) of promotion_cycles and      *)
(* (cycle, slot) of slot_promotions make the week, and the week with the    *)
(* slot, identify the row; "none" is its absence.  Slot creation writes     *)
(* one session per slot and week, so that pair identifies a session.        *)

Sessions == Slots \X Weeks

CycleStatus == {"none", "active", "completed", "expired"}
PromoStatus == {"none", "pending", "confirmed", "modified", "reset"}
SlotStatus == {"unborn", "present", "deleted"}
SessionStatus ==
  {"absent", "pending_confirmation", "scheduled", "live", "completed", "cancelled"}

SessionRow == [slot : Slots \cup {NoSlot}, week : Weeks, status : SessionStatus]

(* Local states.  A request that answered is Idle, whatever it answered.    *)

Idle == [pc |-> "idle"]

TriggerRun ==
  [pc : {"create", "list", "scan", "insert", "transition"},
   week : Weeks, todo : SUBSET Slots, eligible : SUBSET Slots]

Seen == PromoStatus \ {"none"}

CallRun ==
  UNION {
    [pc : {"cycle"}, week : Weeks, slot : Slots, kind : AllKinds, seen : Seen],
    [pc : {"modify"}, week : Weeks, slot : Slots],
    [pc : {"reschedule"}, week : Weeks, slot : Slots, seen : Seen, ses : Sessions, to : Weeks],
    [pc : {"cancel"}, week : Weeks, slot : Slots, seen : Seen, ses : Sessions],
    [pc : {"mark"}, week : Weeks, slot : Slots, status : {"confirmed", "modified"}],
    [pc : {"release"}, week : Weeks, slot : Slots] }

ResetRun ==
  UNION {
    [pc : {"next"}, cycles : SUBSET Weeks],
    [pc : {"mark", "close"}, cycles : SUBSET Weeks, week : Weeks, todo : SUBSET Slots,
     hadResets : BOOLEAN],
    [pc : {"cancel", "delete"}, cycles : SUBSET Weeks, week : Weeks, todo : SUBSET Slots,
     hadResets : BOOLEAN, slot : Slots] }

Orphan == [week : Weeks, slot : Slots, exists : BOOLEAN, pending : BOOLEAN]

ReconRun ==
  UNION {
    [pc : {"next"}, todo : SUBSET Orphan],
    [pc : {"cancel", "fallback", "delete"}, todo : SUBSET Orphan, orphan : Orphan] }

(* Every table row and every local state is one the program can name.       *)
TypeOK ==
  /\ cycle \in [Weeks -> CycleStatus]
  /\ promo \in [Weeks -> [Slots -> PromoStatus]]
  /\ slotRow \in [Slots -> SlotStatus]
  /\ session \in [Sessions -> SessionRow]
  /\ trigger \in [Triggers -> TriggerRun \cup {Idle}]
  /\ call \in [Calls -> CallRun \cup {Idle}]
  /\ reset \in [Servers -> ResetRun \cup {Idle}]
  /\ recon \in [Servers -> ReconRun \cup {Idle}]
  /\ contested \in SUBSET Weeks
  /\ faults \in 0..MaxFaults

Init ==
  /\ cycle = [w \in Weeks |-> "none"]
  /\ promo = [w \in Weeks |-> [s \in Slots |-> "none"]]
  /\ slotRow = [s \in Slots |-> "unborn"]
  /\ session = [x \in Sessions |->
                  [slot |-> NoSlot, week |-> x[2], status |-> "absent"]]
  /\ trigger = [t \in Triggers |-> Idle]
  /\ call = [c \in Calls |-> Idle]
  /\ reset = [p \in Servers |-> Idle]
  /\ recon = [p \in Servers |-> Idle]
  /\ contested = {}
  /\ faults = 0

Fault == faults < MaxFaults /\ faults' = faults + 1

-----------------------------------------------------------------------------
(* The statements on sessions: which rows each one matches, what it sets.   *)

SetStatus(X, status) ==
  [x \in Sessions |-> IF x \in X THEN [session[x] EXCEPT !.status = status]
                                 ELSE session[x]]

PromotableSessions(S, w) ==
  {x \in Sessions : /\ session[x].slot \in S
                    /\ session[x].week = w
                    /\ session[x].status = "scheduled"}

\* Mutant: the week of the promotion itself is missed.
ReleasableAfter(s, w) ==
  {x \in Sessions : /\ session[x].slot = s
                    /\ session[x].week > w
                    /\ session[x].status = "pending_confirmation"}

ReleasableSessions(s, w) ==
  {x \in Sessions : /\ session[x].slot = s
                    /\ session[x].week = w
                    /\ session[x].status = "pending_confirmation"}

\* Mutant: the status filter is gone.
CancellableFromAnyStatus(s, w) ==
  {x \in Sessions : session[x].slot = s /\ session[x].week >= w}

CancellableFrom(s, w) ==
  {x \in Sessions : /\ session[x].slot = s
                    /\ session[x].week >= w
                    /\ session[x].status \in {"scheduled", "pending_confirmation"}}

UnlinkSlot(s) ==
  [x \in Sessions |-> IF session[x].slot = s THEN [session[x] EXCEPT !.slot = NoSlot]
                                             ELSE session[x]]

(* deleteSlotRecord: NULL the links and delete the row, or roll back when   *)
(* the row is gone already.                                                 *)
DeleteSlotRecord(s) ==
  \/ /\ slotRow[s] = "present"
     /\ session' = UnlinkSlot(s)
     /\ slotRow' = [slotRow EXCEPT ![s] = "deleted"]
  \/ slotRow[s] # "present" /\ UNCHANGED <<session, slotRow>>

-----------------------------------------------------------------------------
(* triggerPromotion.                                                        *)

GoTrigger(t, state) == trigger' = [trigger EXCEPT ![t] = state]

(* No cycle for the week: the request goes on to create one.  With a cycle  *)
(* the request answers (the cycle if active, else a conflict) and writes    *)
(* nothing.                                                                 *)
TriggerLookup(t, w) ==
  /\ trigger[t] = Idle
  /\ cycle[w] = "none"
  /\ GoTrigger(t, [pc |-> "create", week |-> w, todo |-> {}, eligible |-> {}])
  /\ UNCHANGED <<tables, call, reset, recon, contested, faults>>

(* The INSERT fails on the unique key when another request was faster.      *)
TriggerCreate(t) ==
  /\ trigger[t].pc = "create"
  /\ \/ /\ cycle[trigger[t].week] = "none"
        /\ cycle' = [cycle EXCEPT ![trigger[t].week] = "active"]
        /\ GoTrigger(t, [trigger[t] EXCEPT !.pc = "list"])
     \/ /\ cycle[trigger[t].week] # "none"
        /\ GoTrigger(t, Idle)
        /\ UNCHANGED cycle
  /\ UNCHANGED <<promo, slotRow, session, call, reset, recon, contested, faults>>

\* Mutant: the sessions are moved without the slot promotions being there.
InsertLast(todo, eligible) ==
  CASE todo # {} -> "scan"
    [] todo = {} /\ eligible # {} -> "transition"
    [] OTHER -> "idle"

AfterScan(todo, eligible) ==
  CASE todo # {} -> "scan"
    [] todo = {} /\ eligible # {} -> "insert"
    [] OTHER -> "idle"

ScanState(t, todo, eligible) ==
  IF AfterScan(todo, eligible) = "idle" THEN Idle
  ELSE [trigger[t] EXCEPT !.pc = AfterScan(todo, eligible),
                          !.todo = todo, !.eligible = eligible]

TriggerList(t) ==
  /\ trigger[t].pc = "list"
  /\ GoTrigger(t, ScanState(t, {s \in Slots : slotRow[s] = "present"}, {}))
  /\ UNCHANGED <<tables, call, reset, recon, contested, faults>>

HasSessionsInWeek(s, w) ==
  \E x \in Sessions : /\ session[x].slot = s
                      /\ session[x].week = w
                      /\ session[x].status \in {"scheduled", "pending_confirmation"}

TriggerScan(t) ==
  /\ trigger[t].pc = "scan"
  /\ \E s \in trigger[t].todo :
       GoTrigger(t, ScanState(t, trigger[t].todo \ {s},
                      IF HasSessionsInWeek(s, trigger[t].week)
                        THEN trigger[t].eligible \cup {s} ELSE trigger[t].eligible))
  /\ UNCHANGED <<tables, call, reset, recon, contested, faults>>

TriggerInsert(t) ==
  /\ trigger[t].pc = "insert"
  /\ promo' = [promo EXCEPT ![trigger[t].week] =
                 [s \in Slots |-> IF s \in trigger[t].eligible /\ @[s] = "none"
                                    THEN "pending" ELSE @[s]]]
  /\ GoTrigger(t, [trigger[t] EXCEPT !.pc = "transition"])
  /\ UNCHANGED <<cycle, slotRow, session, call, reset, recon, contested, faults>>

TriggerTransition(t) ==
  /\ trigger[t].pc = "transition"
  /\ session' = SetStatus(PromotableSessions(trigger[t].eligible, trigger[t].week),
                          "pending_confirmation")
  /\ GoTrigger(t, Idle)
  /\ UNCHANGED <<cycle, promo, slotRow, call, reset, recon, contested, faults>>

(* A statement of the request fails: it answers an error, nothing is undone. *)
TriggerFails(t) ==
  /\ trigger[t] # Idle
  /\ Fault
  /\ GoTrigger(t, Idle)
  /\ UNCHANGED <<tables, call, reset, recon, contested>>

-----------------------------------------------------------------------------
(* confirmSlot, modifySlotLevel, rescheduleSession and cancelWeekSession.   *)
(* The owner of the slot promotion makes the call: another actor is refused *)
(* before anything is written.  The session and the date of a request are   *)
(* any of the school's: nothing relates them to the slot promotion.         *)

GoCall(c, state) == call' = [call EXCEPT ![c] = state]

CallAccess(c, kind, w, s) ==
  /\ call[c] = Idle
  /\ promo[w][s] # "none"
  /\ GoCall(c, [pc |-> "cycle", week |-> w, slot |-> s, kind |-> kind,
                seen |-> promo[w][s]])
  /\ UNCHANGED <<tables, trigger, reset, recon, contested, faults>>

\* Mutant: confirming is not limited to pending slot promotions.
AnyUnreset(kind, seen) == seen # "reset"

MayAnswer(kind, seen) ==
  IF kind = "confirm" THEN seen = "pending" ELSE seen # "reset"

Marking(w, s, status) == [pc |-> "mark", week |-> w, slot |-> s, status |-> status]
Releasing(w, s) == [pc |-> "release", week |-> w, slot |-> s]

CallRefused(c) ==
  /\ call[c].pc = "cycle"
  /\ \/ cycle[call[c].week] # "active"
     \/ ~MayAnswer(call[c].kind, call[c].seen)
  /\ GoCall(c, Idle)
  /\ UNCHANGED <<tables, trigger, reset, recon, contested, faults>>

CallAccepted(c) ==
  /\ call[c].pc = "cycle"
  /\ cycle[call[c].week] = "active"
  /\ MayAnswer(call[c].kind, call[c].seen)
  /\ \/ /\ call[c].kind = "confirm"
        /\ GoCall(c, Marking(call[c].week, call[c].slot, "confirmed"))
     \/ /\ call[c].kind = "modify"
        /\ GoCall(c, [pc |-> "modify", week |-> call[c].week, slot |-> call[c].slot])
     \/ /\ call[c].kind = "reschedule"
        /\ \E x \in Sessions, w \in Weeks :
             GoCall(c, [pc |-> "reschedule", week |-> call[c].week,
                        slot |-> call[c].slot, seen |-> call[c].seen,
                        ses |-> x, to |-> w])
     \/ /\ call[c].kind = "cancel"
        /\ \E x \in Sessions :
             GoCall(c, [pc |-> "cancel", week |-> call[c].week,
                        slot |-> call[c].slot, seen |-> call[c].seen, ses |-> x])
  /\ UNCHANGED <<tables, trigger, reset, recon, contested, faults>>

(* updateSlotFields: times and venue are not modelled, only that the row    *)
(* must exist unless the body names no field.                               *)
CallModify(c) ==
  /\ call[c].pc = "modify"
  /\ \/ GoCall(c, Marking(call[c].week, call[c].slot, "modified"))
     \/ slotRow[call[c].slot] # "present" /\ GoCall(c, Idle)
  /\ UNCHANGED <<tables, trigger, reset, recon, contested, faults>>

(* A session edit counts as a confirmation of a slot promotion that was     *)
(* pending when it was read.                                                *)
AfterSessionEdit(c) ==
  GoCall(c, IF call[c].seen = "pending"
              THEN Marking(call[c].week, call[c].slot, "confirmed")
              ELSE Releasing(call[c].week, call[c].slot))

\* Mutant: the session moves and goes on waiting.
MovedOnly(row, w) == [row EXCEPT !.week = w]

Rescheduled(row, w) == [row EXCEPT !.week = w, !.status = "scheduled"]

CallReschedule(c) ==
  /\ call[c].pc = "reschedule"
  /\ session' =
       IF session[call[c].ses].status = "pending_confirmation"
         THEN [session EXCEPT ![call[c].ses] = Rescheduled(@, call[c].to)]
         ELSE session
  /\ AfterSessionEdit(c)
  /\ UNCHANGED <<cycle, promo, slotRow, trigger, reset, recon, contested, faults>>

CallCancel(c) ==
  /\ call[c].pc = "cancel"
  /\ session' =
       IF session[call[c].ses].status \in {"pending_confirmation", "scheduled"}
         THEN [session EXCEPT ![call[c].ses].status = "cancelled"]
         ELSE session
  /\ AfterSessionEdit(c)
  /\ UNCHANGED <<cycle, promo, slotRow, trigger, reset, recon, contested, faults>>

(* The UPDATE has no condition on the status that was read.                 *)
CallMark(c) ==
  /\ call[c].pc = "mark"
  /\ promo' = [promo EXCEPT ![call[c].week][call[c].slot] = call[c].status]
  /\ GoCall(c, Releasing(call[c].week, call[c].slot))
  /\ UNCHANGED <<cycle, slotRow, session, trigger, reset, recon, contested, faults>>

CallRelease(c) ==
  /\ call[c].pc = "release"
  /\ session' = SetStatus(ReleasableSessions(call[c].slot, call[c].week), "scheduled")
  /\ GoCall(c, Idle)
  /\ UNCHANGED <<cycle, promo, slotRow, trigger, reset, recon, contested, faults>>

CallFails(c) ==
  /\ call[c] # Idle
  /\ Fault
  /\ GoCall(c, Idle)
  /\ UNCHANGED <<tables, trigger, reset, recon, contested>>

-----------------------------------------------------------------------------
(* handleWeeklyReset and executeReset.  The window Sunday 12:00-12:29       *)
(* admits one firing of the half-hourly cron of a process, so a process has *)
(* one run at a time.  Runs of several processes overlap: nothing locks the *)
(* job, the cycles are listed by a plain read and closed by their id.       *)

GoReset(p, state) == reset' = [reset EXCEPT ![p] = state]

(* The cycles that a run has read as active and not closed yet.             *)
Held(p) ==
  {w \in Weeks : /\ reset[p] # Idle
                 /\ \/ w \in reset[p].cycles
                    \/ reset[p].pc # "next" /\ w = reset[p].week}

HeldElsewhere(p) == {w \in Weeks : \E q \in Servers : q # p /\ w \in Held(q)}

\* Mutant: cycles that are closed are taken again.
EveryCycle == {w \in Weeks : cycle[w] # "none"}

\* Mutant: only cycles with something to reset are taken.
CyclesWithPending ==
  {w \in Weeks : cycle[w] = "active" /\ \E s \in Slots : promo[w][s] = "pending"}

ActiveCycles == {w \in Weeks : cycle[w] = "active"}

ResetStart(p) ==
  /\ reset[p] = Idle
  /\ ActiveCycles # {}
  /\ GoReset(p, [pc |-> "next", cycles |-> ActiveCycles])
  /\ contested' = contested \cup (ActiveCycles \cap HeldElsewhere(p))
  /\ UNCHANGED <<tables, trigger, call, recon, faults>>

\* Mutant: slot promotions whose slot row is gone are joined away.
PendingOfPresentSlots(w) ==
  {s \in Slots : promo[w][s] = "pending" /\ slotRow[s] = "present"}

PendingSlots(w) == {s \in Slots : promo[w][s] = "pending"}

ResetNext(p) ==
  /\ reset[p].pc = "next"
  /\ \E w \in reset[p].cycles :
       GoReset(p, [pc |-> IF PendingSlots(w) = {} THEN "close" ELSE "mark",
                   cycles |-> reset[p].cycles \ {w}, week |-> w,
                   todo |-> PendingSlots(w), hadResets |-> FALSE])
  /\ UNCHANGED <<tables, trigger, call, recon, contested, faults>>

(* The slot promotion is marked, whatever its status has become.            *)
ResetMark(p) ==
  /\ reset[p].pc = "mark"
  /\ \E s \in reset[p].todo :
       /\ promo' = [promo EXCEPT ![reset[p].week][s] = "reset"]
       /\ GoReset(p, [pc |-> "cancel", cycles |-> reset[p].cycles,
                      week |-> reset[p].week, todo |-> reset[p].todo \ {s},
                      hadResets |-> reset[p].hadResets, slot |-> s])
  /\ UNCHANGED <<cycle, slotRow, session, trigger, call, recon, contested, faults>>

(* A failure of either clean-up statement is logged and the job goes on.    *)
ResetCancel(p) ==
  /\ reset[p].pc = "cancel"
  /\ \/ /\ session' = SetStatus(CancellableFrom(reset[p].slot, reset[p].week),
                                "cancelled")
        /\ UNCHANGED faults
     \/ Fault /\ UNCHANGED session
  /\ GoReset(p, [reset[p] EXCEPT !.pc = "delete"])
  /\ UNCHANGED <<cycle, promo, slotRow, trigger, call, recon, contested>>

ResetDelete(p) ==
  /\ reset[p].pc = "delete"
  /\ \/ DeleteSlotRecord(reset[p].slot) /\ UNCHANGED faults
     \/ Fault /\ UNCHANGED <<session, slotRow>>
  /\ GoReset(p, [pc |-> IF reset[p].todo = {} THEN "close" ELSE "mark",
                 cycles |-> reset[p].cycles, week |-> reset[p].week,
                 todo |-> reset[p].todo, hadResets |-> TRUE])
  /\ UNCHANGED <<cycle, promo, trigger, call, recon, contested>>

\* Mutant: a status the enum does not have.
MisnamedStatus(hadResets) == IF hadResets THEN "closed" ELSE "completed"

CloseStatus(hadResets) == IF hadResets THEN "expired" ELSE "completed"

(* The UPDATE names the row only: it overwrites what another run has        *)
(* written to a cycle that both have listed.                                *)
ResetClose(p) ==
  /\ reset[p].pc = "close"
  /\ cycle' = [cycle EXCEPT ![reset[p].week] = CloseStatus(reset[p].hadResets)]
  /\ GoReset(p, IF reset[p].cycles = {} THEN Idle
                ELSE [pc |-> "next", cycles |-> reset[p].cycles])
  /\ UNCHANGED <<promo, slotRow, session, trigger, call, recon, contested, faults>>

(* A statement outside the two inner try blocks fails: the run is over.     *)
ResetFails(p) ==
  /\ reset[p].pc \in {"next", "mark", "close"}
  /\ Fault
  /\ GoReset(p, Idle)
  /\ UNCHANGED <<tables, trigger, call, recon, contested>>

-----------------------------------------------------------------------------
(* reconcileOrphanedResets, once in each process.                           *)

GoRecon(p, state) == recon' = [recon EXCEPT ![p] = state]

StillPending(s, w) ==
  \E x \in Sessions : /\ session[x].slot = s
                      /\ session[x].week >= w
                      /\ session[x].status = "pending_confirmation"

OrphanOf(w, s) == [week |-> w, slot |-> s, exists |-> slotRow[s] = "present",
                   pending |-> StillPending(s, w)]

\* Mutant: only half (b) of the query, sessions still pending.
OrphansWithSessions ==
  {o \in {OrphanOf(w, s) : w \in Weeks, s \in Slots} :
     promo[o.week][o.slot] = "reset" /\ o.pending}

OrphanedResets ==
  {o \in {OrphanOf(w, s) : w \in Weeks, s \in Slots} :
     promo[o.week][o.slot] = "reset" /\ (o.exists \/ o.pending)}

ReconStart(p) ==
  /\ recon[p] = Idle
  /\ OrphanedResets # {}
  /\ GoRecon(p, [pc |-> "next", todo |-> OrphanedResets])
  /\ UNCHANGED <<tables, trigger, call, reset, contested, faults>>

ReconAdvance(p, todo) ==
  GoRecon(p, IF todo = {} THEN Idle ELSE [pc |-> "next", todo |-> todo])

ReconNext(p) ==
  /\ recon[p].pc = "next"
  /\ \E o \in recon[p].todo :
       GoRecon(p, [pc |-> IF o.pending THEN "cancel" ELSE "delete",
                   todo |-> recon[p].todo \ {o}, orphan |-> o])
  /\ UNCHANGED <<tables, trigger, call, reset, contested, faults>>

(* After the sessions of an orphan are dealt with: its slot, or the next.   *)
ReconAfterSessions(p) ==
  IF recon[p].orphan.exists THEN GoRecon(p, [recon[p] EXCEPT !.pc = "delete"])
                            ELSE ReconAdvance(p, recon[p].todo)

ReconCancel(p) ==
  /\ recon[p].pc = "cancel"
  /\ \/ /\ session' = SetStatus(CancellableFrom(recon[p].orphan.slot, recon[p].orphan.week),
                                "cancelled")
        /\ ReconAfterSessions(p)
        /\ UNCHANGED faults
     \/ /\ Fault
        /\ GoRecon(p, [recon[p] EXCEPT !.pc = "fallback"])
        /\ UNCHANGED session
  /\ UNCHANGED <<cycle, promo, slotRow, trigger, call, reset, contested>>

(* The range-based cancellation: every pending session of the week.         *)
ReconFallback(p) ==
  /\ recon[p].pc = "fallback"
  /\ \/ /\ session' = SetStatus({x \in Sessions :
                                   /\ session[x].week = recon[p].orphan.week
                                   /\ session[x].status = "pending_confirmation"},
                                "cancelled")
        /\ UNCHANGED faults
     \/ Fault /\ UNCHANGED session
  /\ ReconAfterSessions(p)
  /\ UNCHANGED <<cycle, promo, slotRow, trigger, call, reset, contested>>

ReconDelete(p) ==
  /\ recon[p].pc = "delete"
  /\ \/ DeleteSlotRecord(recon[p].orphan.slot) /\ UNCHANGED faults
     \/ Fault /\ UNCHANGED <<session, slotRow>>
  /\ ReconAdvance(p, recon[p].todo)
  /\ UNCHANGED <<cycle, promo, trigger, call, reset, contested>>

-----------------------------------------------------------------------------
(* The rest of the program on the same rows.                                *)

(* TimetableService.create: the slot and one session per week of the year.  *)
TimetableCreate(s) ==
  /\ slotRow[s] = "unborn"
  /\ slotRow' = [slotRow EXCEPT ![s] = "present"]
  /\ session' = [x \in Sessions |->
                   IF x[1] = s THEN [slot |-> s, week |-> x[2], status |-> "scheduled"]
                               ELSE session[x]]
  /\ UNCHANGED <<cycle, promo, trigger, call, reset, recon, contested, faults>>

(* TimetableService.remove with today in week d: scheduled sessions from d  *)
(* on are deleted, the others lose their link.                              *)
TimetableRemove(s, d) ==
  /\ slotRow[s] = "present"
  /\ slotRow' = [slotRow EXCEPT ![s] = "deleted"]
  /\ session' = [x \in Sessions |->
                   IF session[x].slot # s THEN session[x]
                   ELSE IF session[x].status = "scheduled" /\ session[x].week >= d
                     THEN [session[x] EXCEPT !.slot = NoSlot, !.status = "absent"]
                     ELSE [session[x] EXCEPT !.slot = NoSlot]]
  /\ UNCHANGED <<cycle, promo, trigger, call, reset, recon, contested, faults>>

(* The guarded UPDATEs of SessionsService.                                  *)
SessionMoves == {<<"scheduled", "live">>, <<"live", "completed">>,
                 <<"scheduled", "cancelled">>}

SessionMove(x) ==
  /\ \E m \in SessionMoves :
       session[x].status = m[1] /\ session' = SetStatus({x}, m[2])
  /\ UNCHANGED <<cycle, promo, slotRow, trigger, call, reset, recon, contested, faults>>

(* A process dies: its jobs and the requests it was serving, any of those   *)
(* under way, stop where they are.                                          *)
Crash(p) ==
  /\ Fault
  /\ \E T \in SUBSET Triggers : trigger' = [t \in Triggers |-> IF t \in T THEN Idle
                                                                    ELSE trigger[t]]
  /\ \E C \in SUBSET Calls : call' = [c \in Calls |-> IF c \in C THEN Idle ELSE call[c]]
  /\ GoReset(p, Idle)
  /\ GoRecon(p, Idle)
  /\ UNCHANGED <<tables, contested>>

-----------------------------------------------------------------------------
TriggerStep(t) ==
  \/ TriggerCreate(t) \/ TriggerList(t) \/ TriggerScan(t)
  \/ TriggerInsert(t) \/ TriggerTransition(t)

CallStep(c) ==
  \/ CallRefused(c) \/ CallAccepted(c)
  \/ CallModify(c) \/ CallReschedule(c) \/ CallCancel(c)
  \/ CallMark(c) \/ CallRelease(c)

ResetStep(p) ==
  \/ ResetNext(p) \/ ResetMark(p) \/ ResetCancel(p) \/ ResetDelete(p) \/ ResetClose(p)

ReconStep(p) == ReconNext(p) \/ ReconCancel(p) \/ ReconFallback(p) \/ ReconDelete(p)

\* The weeks today can be in: one of the year's, or one after it.
Today == Weeks \cup {w + 1 : w \in Weeks}

Timetable ==
  \E s \in Slots : TimetableCreate(s) \/ \E d \in Today : TimetableRemove(s, d)

Next ==
  \/ \E t \in Triggers : \/ \E w \in Weeks : TriggerLookup(t, w)
                         \/ TriggerStep(t) \/ TriggerFails(t)
  \/ \E c \in Calls : \/ \E kind \in Kinds, w \in Weeks, s \in Slots :
                           CallAccess(c, kind, w, s)
                      \/ CallStep(c) \/ CallFails(c)
  \/ \E p \in Servers : \/ ResetStart(p) \/ ResetStep(p) \/ ResetFails(p)
                        \/ ReconStart(p) \/ ReconStep(p)
                        \/ Crash(p)
  \/ Timetable
  \/ \E x \in Sessions : SessionMove(x)

Spec == Init /\ [][Next]_vars

(* Requests and jobs under way are served, and the cron of each process     *)
(* fires both jobs again as long as they have work, which takes a school    *)
(* whose status stays active: findAllSchoolTimezones lists no other.  No    *)
(* request is ever bound to be made.                                        *)
FairSpec ==
  /\ Spec
  /\ \A t \in Triggers : WF_vars(TriggerStep(t))
  /\ \A c \in Calls : WF_vars(CallStep(c))
  /\ \A p \in Servers : /\ WF_vars(ResetStart(p)) /\ WF_vars(ResetStep(p))
                         /\ WF_vars(ReconStart(p)) /\ WF_vars(ReconStep(p))

-----------------------------------------------------------------------------
(* Safety.                                                                  *)

(* A session that waits for confirmation and still has its slot is one for  *)
(* which somebody can be asked: its week has a cycle and the slot has a     *)
(* slot promotion in it.  triggerPromotion inserts the slot promotions      *)
(* before it moves the sessions, and no statement that moves a session to   *)
(* another week leaves it pending.                                          *)
PendingHasPromotion ==
  \A x \in Sessions :
    session[x].status = "pending_confirmation" /\ session[x].slot # NoSlot =>
      /\ cycle[session[x].week] # "none"
      /\ promo[session[x].week][session[x].slot] # "none"

(* Why it holds: what the processes under way still know to be true.        *)

PromoHasCycle ==
  \A w \in Weeks, s \in Slots : promo[w][s] # "none" => cycle[w] # "none"

TriggersKnow ==
  \A t \in Triggers :
    /\ trigger[t].pc \notin {"idle", "create"} => cycle[trigger[t].week] # "none"
    /\ trigger[t].pc = "transition" =>
         \A s \in trigger[t].eligible : promo[trigger[t].week][s] # "none"

CallsKnow ==
  \A c \in Calls : call[c] # Idle => promo[call[c].week][call[c].slot] # "none"

(* A run knows that the cycles it holds exist; that they are still active,  *)
(* and held by no other run, only where no other run has listed them too.   *)
ResetKnows ==
  \A p \in Servers :
    /\ \A w \in Held(p) :
         /\ cycle[w] # "none"
         /\ w \notin contested => cycle[w] = "active" /\ w \notin HeldElsewhere(p)
    /\ reset[p].pc \notin {"idle", "next"} =>
         /\ reset[p].week \notin reset[p].cycles
         /\ \A s \in reset[p].todo : promo[reset[p].week][s] # "none"

UnbornHasNone ==
  \A x \in Sessions : slotRow[x[1]] = "unborn" => session[x].status = "absent"

IInv ==
  /\ TypeOK
  /\ PendingHasPromotion
  /\ PromoHasCycle
  /\ TriggersKnow
  /\ CallsKnow
  /\ ResetKnows
  /\ UnbornHasNone

(* Teaching that has begun, and a cancellation, are out of the promotion's  *)
(* reach: whatever request or job holds a stale view of a session, a live   *)
(* session can only be completed, and completed and cancelled sessions keep *)
(* their status and week.                                                   *)
Settled == {"live", "completed", "cancelled"}

SettledKept ==
  \A x \in Sessions : session[x].status \in Settled =>
    /\ session'[x].week = session[x].week
    /\ \/ session'[x].status = session[x].status
       \/ session[x].status = "live" /\ session'[x].status = "completed"

SettledSessionsKept == [][SettledKept]_session

(* A closed cycle is never open again, whatever overlaps; and no late       *)
(* request, no repair and no later run of the reset job changes how it      *)
(* ended.  Only a run that had listed it before another one closed it may   *)
(* write `completed` over `expired` or the reverse: the excepted weeks.     *)
Closed == {"completed", "expired"}

ClosedKept ==
  \A w \in Weeks : cycle[w] \in Closed =>
    /\ cycle'[w] \in Closed
    /\ w \in contested \/ cycle'[w] = cycle[w]

CycleFinal == [][ClosedKept]_cycle

(* Every cycle that is opened is closed: the Sunday job takes every active  *)
(* cycle of a school whose status is active, whatever was answered, and a   *)
(* run that died is made up for.                                            *)
EveryCycleCloses ==
  \A w \in Weeks : cycle[w] = "active" ~> cycle[w] \in Closed

(* A slot whose promotion was reset does not stay in the timetable: if the  *)
(* reset job could not delete it, or died before it could, the daily repair *)
(* does, unless an answer that was under way has overwritten the reset.     *)
ResetSlotsLeave ==
  \A w \in Weeks, s \in Slots :
    promo[w][s] = "reset" /\ slotRow[s] = "present"
      ~> slotRow[s] = "deleted" \/ promo[w][s] # "reset"

=============================================================================
