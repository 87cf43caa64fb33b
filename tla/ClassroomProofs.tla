---------------------------- MODULE ClassroomProofs ----------------------------
(***************************************************************************)
(* What the calendar and the classroom keep, for any number of years,      *)
(* slots, sessions, students and requests: types, one active year, venues  *)
(* booked once, whole submissions, attendance that stays and a true audit  *)
(* log.                                                                    *)
(***************************************************************************)
EXTENDS Classroom, TLAPS

-----------------------------------------------------------------------------
(* Types.                                                                   *)

Runs == CalendarRun \cup RoomRun \cup {Idle}

CalendarRows ==
  /\ year \in [Years -> {"none", "inactive", "active"}]
  /\ slot \in [Slots -> Rows \cup {NoRow, Gone}]
  /\ missed \in SUBSET Years
  /\ unseen \in [Procs -> SUBSET Slots]
  /\ hasty \in SUBSET (SUBSET Slots)

RoomRows ==
  /\ status \in [Sessions -> SessionStatus \cup {"none", "deleted"}]
  /\ link \in [Sessions -> Slots \cup {NoSlot}]
  /\ mark \in [Sheets -> [Students -> Marks \cup {NoMark}]]
  /\ starts \in [Sessions -> Nat]
  /\ cancels \in [Sessions -> Nat]
  /\ contended \in SUBSET Sessions
  /\ pended \in SUBSET Sessions
  /\ patchy \in SUBSET Sheets

RemovedRows == gone \in SUBSET Students /\ erased \in SUBSET Sheets

Requests ==
  /\ proc \in [Procs -> Runs]
  /\ calls \in 0..MaxCalls
  /\ faults \in 0..MaxFaults

LEMMA TypeIs == TypeOK <=> CalendarRows /\ RoomRows /\ RemovedRows /\ Requests
BY DEF TypeOK, CalendarTypeOK, CalendarRows, RoomRows, RemovedRows, Requests, Runs

LEMMA BeginType ==
  ASSUME Requests, NEW p \in Procs, NEW state \in Runs, Begin(p, state)
  PROVE  /\ Requests'
         /\ proc[p].pc = "idle" /\ proc'[p] = state
         /\ \A q \in Procs \ {p} : proc'[q] = proc[q]
<1>1. proc' \in [Procs -> Runs] /\ proc'[p] = state /\ \A q \in Procs \ {p} : proc'[q] = proc[q]
  BY DEF Requests, Begin, Become
<1>2. proc[p].pc = "idle"
  BY DEF Begin, Idle
<1>3. calls' \in 0..MaxCalls /\ faults' \in 0..MaxFaults
  BY MaxCallsNat DEF Requests, Begin
<1>4. QED
  BY <1>1, <1>2, <1>3 DEF Requests

LEMMA GoType ==
  ASSUME Requests, NEW p \in Procs, NEW state \in Runs, Go(p, state)
  PROVE  /\ Requests' /\ proc'[p] = state
         /\ \A q \in Procs \ {p} : proc'[q] = proc[q]
BY DEF Requests, Go, Become

LEMMA IdleRuns == Idle \in Runs /\ Idle.pc = "idle"
BY DEF Runs, Idle

\* What a request under way has with it.
CalendarPcs == {"activate", "insert slot", "check slot", "write slot"}

WorkPcs == {"start", "start audit", "erase", "cancel", "cancel audit"}

LEMMA RunPcs ==
  /\ \A r \in CalendarRun : r.pc \in CalendarPcs
  /\ \A r \in RoomRun : r.pc \in WorkPcs \cup {"mark"}
  /\ Idle.pc = "idle"
<1>1. \A r \in CalendarRun : r.pc \in CalendarPcs
  BY DEF CalendarRun, CalendarPcs
<1>2. \A r \in RoomRun : r.pc \in WorkPcs \cup {"mark"}
  BY DEF RoomRun, WorkPcs
<1>3. QED
  BY <1>1, <1>2 DEF Idle

LEMMA RunIn ==
  ASSUME Requests, NEW p \in Procs
  PROVE  /\ proc[p].pc \in CalendarPcs => proc[p] \in CalendarRun
         /\ proc[p].pc \in WorkPcs \cup {"mark"} => proc[p] \in RoomRun
<1>1. proc[p] \in CalendarRun \/ proc[p] \in RoomRun \/ proc[p] = Idle
  BY DEF Requests, Runs
<1>2. QED
  BY <1>1, RunPcs DEF CalendarPcs, WorkPcs

LEMMA ActivateHas ==
  ASSUME Requests, NEW p \in Procs, proc[p].pc = "activate"
  PROVE  proc[p].year \in Years /\ proc[p].new \in BOOLEAN /\ proc[p].others \in SUBSET Years
<1>1. proc[p] \in CalendarRun
  BY RunIn DEF CalendarPcs
<1>2. QED
  BY <1>1 DEF CalendarRun

LEMMA InsertHas ==
  ASSUME Requests, NEW p \in Procs, proc[p].pc = "insert slot"
  PROVE  proc[p].row \in Rows
<1>1. proc[p] \in CalendarRun
  BY RunIn DEF CalendarPcs
<1>2. QED
  BY <1>1 DEF CalendarRun

LEMMA UpdateHas ==
  ASSUME Requests, NEW p \in Procs, proc[p].pc \in {"check slot", "write slot"}
  PROVE  /\ proc[p].slot \in Slots /\ proc[p].row \in Rows
         /\ [proc[p] EXCEPT !.pc = "write slot"] \in Runs
         /\ [proc[p] EXCEPT !.pc = "write slot"].pc = "write slot"
         /\ [proc[p] EXCEPT !.pc = "write slot"].slot = proc[p].slot
         /\ [proc[p] EXCEPT !.pc = "write slot"].row = proc[p].row
<1> DEFINE Checked == [pc : {"check slot", "write slot"}, slot : Slots, row : Rows]
<1>1. proc[p] \in CalendarRun
  BY RunIn DEF CalendarPcs
<1>2. proc[p] \in Checked
  BY <1>1 DEF CalendarRun
<1>3. [proc[p] EXCEPT !.pc = "write slot"] \in Checked
  BY <1>2
<1>4. Checked \subseteq Runs
  BY DEF Runs, CalendarRun
<1>5. QED
  BY <1>2, <1>3, <1>4

LEMMA WorkHas ==
  ASSUME Requests, NEW p \in Procs, proc[p].pc \in WorkPcs
  PROVE  /\ proc[p].session \in Sessions
         /\ \A pc \in WorkPcs : /\ [proc[p] EXCEPT !.pc = pc] \in Runs
                                /\ [proc[p] EXCEPT !.pc = pc].pc = pc
                                /\ [proc[p] EXCEPT !.pc = pc].session = proc[p].session
<1>1. proc[p] \in RoomRun
  BY RunIn
<1>2. proc[p] \in [pc : WorkPcs, session : Sessions]
  BY <1>1 DEF RoomRun, WorkPcs
<1>3. \A pc \in WorkPcs : [proc[p] EXCEPT !.pc = pc] \in [pc : WorkPcs, session : Sessions]
  BY <1>2
<1>4. [pc : WorkPcs, session : Sessions] \subseteq Runs
  BY DEF Runs, RoomRun, WorkPcs
<1>5. QED
  BY <1>2, <1>3, <1>4

LEMMA MarkHas ==
  ASSUME Requests, NEW p \in Procs, proc[p].pc = "mark"
  PROVE  /\ proc[p].sheet \in Sheets /\ proc[p].mark \in Marks
         /\ proc[p].todo \in SUBSET Students /\ proc[p].done \in SUBSET Students
         /\ \A st \in Students :
              /\ [proc[p] EXCEPT !.todo = @ \ {st}, !.done = @ \cup {st}] \in Runs
              /\ [proc[p] EXCEPT !.todo = @ \ {st}, !.done = @ \cup {st}].pc = "mark"
<1> DEFINE Entering == [pc : {"mark"}, sheet : Sheets, mark : Marks, todo : SUBSET Students, done : SUBSET Students]
<1>1. proc[p] \in RoomRun
  BY RunIn
<1>2. proc[p] \in Entering
  BY <1>1 DEF RoomRun
<1>3. \A st \in Students : [proc[p] EXCEPT !.todo = @ \ {st}, !.done = @ \cup {st}] \in Entering
  BY <1>2
<1>4. Entering \subseteq Runs /\ \A r \in Entering : r.pc = "mark"
  BY DEF Runs, RoomRun
<1>5. QED
  BY <1>2, <1>3, <1>4

(* The steps of one request, by what they work on.                          *)

YearStep(p) ==
  YearCommit(p) \/ \E y \in Years : YearCreate(p, y) \/ YearActivate(p, y) \/ YearDeactivate(p, y)

SlotStep(p) ==
  \/ SlotCheck(p) \/ SlotWrite(p)
  \/ \E row \in Rows : SlotCreate(p, row)
  \/ \E s \in Slots : SlotUpdate(p, s) \/ SlotModify(p, s)

TimetableStep(p) == \E s \in Slots : TimetableInsert(p, s) \/ TimetableRemove(p, s)

RemoveStep(p) ==
  \/ \E st \in Students : StudentRemove(p, st)
  \/ \E old \in SUBSET Slots, sheets \in SUBSET Sheets : TeachingRemove(p, old, sheets)

WorkStep(p) == StartUpdate(p) \/ StartAudit(p) \/ CancelErase(p) \/ CancelUpdate(p) \/ CancelAudit(p)

EnterStep(p) ==
  \/ \E x \in Sheets, m \in Marks, listed \in SUBSET Students : Enter(p, x, m, listed)
  \/ \E st \in Students : Upsert(p, st)
  \/ EnterCommit(p) \/ EnterAbort(p)

SessionStep(p) ==
  \E x \in Sessions :
    \/ Start(p, x) \/ End(p, x) \/ Cancel(p, x) \/ Propose(p, x) \/ Settle(p, x)
    \/ \E s \in Slots \cup {NoSlot} : SessionCreate(p, x, s)

RoomStep(p) == WorkStep(p) \/ EnterStep(p) \/ SessionStep(p)

LEMMA StepIsOne ==
  ASSUME [Next]_vars
  PROVE  \/ UNCHANGED vars
         \/ \E p \in Procs :
              \/ (YearStep(p) \/ SlotStep(p)) /\ UNCHANGED room
              \/ TimetableStep(p)
              \/ RemoveStep(p)
              \/ RoomStep(p)
              \/ Fails(p)
BY DEF Next, Step, Call, CalendarStep, CalendarCall, YearStep, SlotStep, TimetableStep, RoomStep,
       RemoveStep, WorkStep, EnterStep, SessionStep

LEMMA NothingRemoved ==
  ASSUME NEW p \in Procs, TimetableStep(p) \/ RoomStep(p) \/ Fails(p)
  PROVE  UNCHANGED <<gone, erased>>
<1>1. UNCHANGED removed
  BY DEF RoomStep, WorkStep, EnterStep, SessionStep, Enter, Upsert, EnterCommit, EnterAbort,
         StartUpdate, StartAudit, CancelErase, CancelUpdate, CancelAudit,
         Start, End, Cancel, Propose, Settle, SessionCreate,
         TimetableStep, TimetableInsert, TimetableRemove, Fails, room
<1>2. QED
  BY <1>1 DEF removed

LEMMA RoomStepIs ==
  ASSUME NEW p \in Procs, RoomStep(p)
  PROVE  UNCHANGED calendar
BY DEF RoomStep, WorkStep, EnterStep, SessionStep, Enter, Upsert, EnterCommit, EnterAbort,
       StartUpdate, StartAudit, CancelErase, CancelUpdate, CancelAudit,
       Start, End, Cancel, Propose, Settle, SessionCreate

LEMMA YearsType ==
  ASSUME CalendarRows, Requests, NEW p \in Procs, YearStep(p)
  PROVE  CalendarRows' /\ Requests'
<1>1. ASSUME NEW y \in Years, YearCreate(p, y) PROVE CalendarRows' /\ Requests'
  <2>1. Requests'
    BY <1>1, BeginType, IdleRuns DEF YearCreate
  <2>2. CalendarRows'
    BY <1>1 DEF YearCreate, Stored, CalendarRows
  <2>3. QED
    BY <2>1, <2>2
<1>2. ASSUME NEW y \in Years, YearActivate(p, y) PROVE CalendarRows' /\ Requests'
  <2>1. PICK new \in BOOLEAN :
          Begin(p, [pc |-> "activate", year |-> y, new |-> new,
                    others |-> {x \in Years : year[x] # "none" /\ x # y}])
    BY <1>2 DEF YearActivate
  <2>2. PICK others \in SUBSET Years : others = {x \in Years : year[x] # "none" /\ x # y}
    OBVIOUS
  <2>3. [pc |-> "activate", year |-> y, new |-> new, others |-> others] \in Runs
    BY DEF Runs, CalendarRun
  <2>4. Requests'
    BY <2>1, <2>2, <2>3, BeginType
  <2>5. CalendarRows'
    BY <1>2 DEF YearActivate, CalendarRows, calendar
  <2>6. QED
    BY <2>4, <2>5
<1>3. CASE YearCommit(p)
  <2>1. Requests'
    BY <1>3, GoType, IdleRuns DEF YearCommit
  <2>2. proc[p].year \in Years
    BY <1>3, ActivateHas DEF YearCommit
  <2>3. missed' \in SUBSET Years
    BY <1>3, <2>2 DEF YearCommit, Stored, CalendarRows
  <2>4. year' \in [Years -> {"none", "inactive", "active"}]
    BY <1>3, <2>2 DEF YearCommit, CalendarRows
  <2>5. QED
    BY <1>3, <2>1, <2>3, <2>4 DEF YearCommit, CalendarRows
<1>4. ASSUME NEW y \in Years, YearDeactivate(p, y) PROVE CalendarRows' /\ Requests'
  <2>1. Requests'
    BY <1>4, BeginType, IdleRuns DEF YearDeactivate
  <2>2. CalendarRows'
    BY <1>4 DEF YearDeactivate, CalendarRows
  <2>3. QED
    BY <2>1, <2>2
<1>5. QED
  BY <1>1, <1>2, <1>3, <1>4 DEF YearStep

LEMMA MergedRows ==
  ASSUME NEW r \in Rows, NEW row \in Merged(r)
  PROVE  row \in Rows
BY DEF Merged, Rows

LEMMA WriteSlotType ==
  ASSUME CalendarRows, NEW p \in Procs, NEW s \in Slots, NEW row \in Rows, WriteSlot(p, s, row)
  PROVE  CalendarRows'
<1>1. \A t \in unseen[p] : {s, t} \in SUBSET Slots
  BY DEF CalendarRows
<1>2. hasty' \in SUBSET (SUBSET Slots)
  BY <1>1 DEF WriteSlot, CalendarRows
<1>3. unseen' \in [Procs -> SUBSET Slots]
  BY DEF WriteSlot, CalendarRows
<1>4. QED
  BY <1>2, <1>3 DEF WriteSlot, CalendarRows

LEMMA BookedHas ==
  ASSUME CalendarRows, NEW s \in Booked
  PROVE  s \in Slots /\ slot[s] \in Rows
BY DEF Booked, CalendarRows

LEMMA SlotsType ==
  ASSUME CalendarRows, Requests, NEW p \in Procs,
         SlotStep(p) \/ \E s \in Slots : SlotInsert(p, s) \/ SlotRemove(p, s)
  PROVE  CalendarRows' /\ Requests'
<1>1. ASSUME NEW row \in Rows, SlotCreate(p, row) PROVE CalendarRows' /\ Requests'
  <2>1. [pc |-> "insert slot", row |-> row] \in Runs
    BY DEF Runs, CalendarRun
  <2>2. Requests'
    BY <1>1, <2>1, BeginType DEF SlotCreate
  <2>3. CalendarRows'
    BY <1>1 DEF SlotCreate, Look, CalendarRows
  <2>4. QED
    BY <2>2, <2>3
<1>2. ASSUME NEW s \in Slots, SlotInsert(p, s) PROVE CalendarRows' /\ Requests'
  <2>1. Requests'
    BY <1>2, GoType, IdleRuns DEF SlotInsert
  <2>2. CalendarRows'
    BY <1>2, InsertHas, WriteSlotType DEF SlotInsert
  <2>3. QED
    BY <2>1, <2>2
<1>3. ASSUME NEW s \in Slots, SlotUpdate(p, s) PROVE CalendarRows' /\ Requests'
  <2>1. PICK new \in Merged(slot[s]) : Begin(p, [pc |-> "check slot", slot |-> s, row |-> new])
    BY <1>3 DEF SlotUpdate
  <2>2. [pc |-> "check slot", slot |-> s, row |-> new] \in Runs
    <3>1. new \in Rows
      BY <1>3, BookedHas, MergedRows DEF SlotUpdate
    <3>2. QED
      BY <3>1 DEF Runs, CalendarRun
  <2>3. Requests'
    BY <2>1, <2>2, BeginType
  <2>4. CalendarRows'
    BY <1>3 DEF SlotUpdate, CalendarRows, calendar
  <2>5. QED
    BY <2>3, <2>4
<1>4. CASE SlotCheck(p)
  <2>1. PICK state \in Runs : Go(p, state)
    BY <1>4, UpdateHas, IdleRuns DEF SlotCheck
  <2>2. Requests'
    BY <2>1, GoType
  <2>3. CalendarRows'
    BY <1>4 DEF SlotCheck, Look, CalendarRows
  <2>4. QED
    BY <2>2, <2>3
<1>5. CASE SlotWrite(p)
  <2>1. Requests'
    BY <1>5, GoType, IdleRuns DEF SlotWrite
  <2>2. CalendarRows'
    <3>1. CASE WriteSlot(p, proc[p].slot, proc[p].row)
      BY <1>5, <3>1, UpdateHas, WriteSlotType DEF SlotWrite
    <3>2. CASE UNCHANGED calendar
      BY <3>2 DEF calendar, CalendarRows
    <3>3. QED
      BY <1>5, <3>1, <3>2 DEF SlotWrite
  <2>3. QED
    BY <2>1, <2>2
<1>6. ASSUME NEW s \in Slots, SlotModify(p, s) PROVE CalendarRows' /\ Requests'
  <2>1. Requests'
    BY <1>6, BeginType, IdleRuns DEF SlotModify
  <2>2. PICK new \in Rows : slot' = [slot EXCEPT ![s] = new]
    BY <1>6, BookedHas, MergedRows DEF SlotModify
  <2>3. \A t \in Slots : {s, t} \in SUBSET Slots
    OBVIOUS
  <2>4. hasty' \in SUBSET (SUBSET Slots)
    BY <1>6, <2>3 DEF SlotModify, CalendarRows
  <2>5. unseen' \in [Procs -> SUBSET Slots]
    BY <1>6 DEF SlotModify, CalendarRows
  <2>6. QED
    BY <1>6, <2>1, <2>2, <2>4, <2>5 DEF SlotModify, CalendarRows
<1>7. ASSUME NEW s \in Slots, SlotRemove(p, s) PROVE CalendarRows' /\ Requests'
  <2>1. Requests'
    BY <1>7, BeginType, IdleRuns DEF SlotRemove
  <2>2. CalendarRows'
    BY <1>7 DEF SlotRemove, CalendarRows
  <2>3. QED
    BY <2>1, <2>2
<1>8. QED
  BY <1>1, <1>2, <1>3, <1>4, <1>5, <1>6, <1>7 DEF SlotStep

\* Steps of startSession and cancelSession.
LEMMA WorkType ==
  ASSUME RoomRows, Requests, NEW p \in Procs, WorkStep(p)
  PROVE  RoomRows' /\ Requests'
<1>1. proc[p].pc \in WorkPcs
  BY DEF WorkStep, StartUpdate, StartAudit, CancelErase, CancelUpdate, CancelAudit, WorkPcs
<1>2. proc[p].session \in Sessions /\ proc[p].session \in Sheets
  BY <1>1, WorkHas DEF Sheets
<1>3. Requests'
  <2>1. CASE StartUpdate(p)
    <3>1. Go(p, [proc[p] EXCEPT !.pc = "start audit"]) /\ "start audit" \in WorkPcs
      BY <2>1 DEF StartUpdate, WorkPcs
    <3>2. [proc[p] EXCEPT !.pc = "start audit"] \in Runs
      BY <1>1, <3>1, WorkHas
    <3>3. QED
      BY <3>1, <3>2, GoType
  <2>2. CASE StartAudit(p) \/ CancelAudit(p)
    BY <2>2, IdleRuns, GoType DEF StartAudit, CancelAudit
  <2>3. CASE CancelErase(p)
    BY <1>1, <2>3, WorkHas, GoType DEF CancelErase, WorkPcs
  <2>4. CASE CancelUpdate(p)
    <3>1. Go(p, [proc[p] EXCEPT !.pc = "cancel audit"]) /\ "cancel audit" \in WorkPcs
      BY <2>4 DEF CancelUpdate, WorkPcs
    <3>2. [proc[p] EXCEPT !.pc = "cancel audit"] \in Runs
      BY <1>1, <3>1, WorkHas
    <3>3. QED
      BY <3>1, <3>2, GoType
  <2>5. QED
    BY <2>1, <2>2, <2>3, <2>4 DEF WorkStep
<1>4. RoomRows'
  <2>1. CASE StartUpdate(p)
    BY <2>1, <1>2 DEF StartUpdate, SetStatus, RoomRows, SessionStatus
  <2>2. CASE StartAudit(p)
    <3>1. PICK x \in Sessions : x = proc[p].session
      BY <1>2
    <3>2. starts' = [starts EXCEPT ![x] = starts[x] + 1]
      BY <2>2, <3>1 DEF StartAudit
    <3>3. starts[x] \in Nat
      BY DEF RoomRows
    <3>4. starts' \in [Sessions -> Nat]
      BY <3>2, <3>3 DEF RoomRows
    <3>5. QED
      BY <2>2, <3>4 DEF StartAudit, RoomRows
  <2>3. CASE CancelErase(p)
    BY <2>3, <1>2 DEF CancelErase, RoomRows
  <2>4. CASE CancelUpdate(p)
    BY <2>4, <1>2 DEF CancelUpdate, SetStatus, RoomRows, SessionStatus
  <2>5. CASE CancelAudit(p)
    <3>1. PICK x \in Sessions : x = proc[p].session
      BY <1>2
    <3>2. cancels' = [cancels EXCEPT ![x] = cancels[x] + 1]
      BY <2>5, <3>1 DEF CancelAudit
    <3>3. cancels[x] \in Nat
      BY DEF RoomRows
    <3>4. cancels' \in [Sessions -> Nat]
      BY <3>2, <3>3 DEF RoomRows
    <3>5. QED
      BY <2>5, <3>4 DEF CancelAudit, RoomRows
  <2>6. QED
    BY <2>1, <2>2, <2>3, <2>4, <2>5 DEF WorkStep
<1>5. QED
  BY <1>3, <1>4

\* Steps of bulkMark and submitGrades.
LEMMA EnterType ==
  ASSUME RoomRows, Requests, NEW p \in Procs, EnterStep(p)
  PROVE  RoomRows' /\ Requests'
<1>1. CASE \E x \in Sheets, m \in Marks, listed \in SUBSET Students : Enter(p, x, m, listed)
  <2>1. PICK x \in Sheets, m \in Marks, listed \in SUBSET Students : Enter(p, x, m, listed)
    BY <1>1
  <2>2. [pc |-> "mark", sheet |-> x, mark |-> m, todo |-> listed, done |-> {}] \in Runs
    BY DEF Runs, RoomRun
  <2>3. Requests'
    BY <2>1, <2>2, BeginType DEF Enter
  <2>4. RoomRows'
    BY <2>1 DEF Enter, room, RoomRows
  <2>5. QED
    BY <2>3, <2>4
<1>2. CASE \E st \in Students : Upsert(p, st)
  <2>1. Requests'
    BY <1>2, MarkHas, GoType DEF Upsert
  <2>2. RoomRows'
    BY <1>2 DEF Upsert, room, RoomRows
  <2>3. QED
    BY <2>1, <2>2
<1>3. CASE EnterCommit(p)
  <2>1. Requests'
    BY <1>3, IdleRuns, GoType DEF EnterCommit
  <2>2. proc[p].sheet \in Sheets /\ proc[p].mark \in Marks
    BY <1>3, MarkHas DEF EnterCommit
  <2>3. patchy' \in SUBSET Sheets
    BY <1>3, <2>2 DEF EnterCommit, RoomRows
  <2>4. mark' \in [Sheets -> [Students -> Marks \cup {NoMark}]]
    BY <1>3, <2>2 DEF EnterCommit, RoomRows
  <2>5. QED
    BY <1>3, <2>1, <2>3, <2>4 DEF EnterCommit, RoomRows
<1>4. CASE EnterAbort(p)
  <2>1. Requests'
    BY <1>4, IdleRuns, GoType DEF EnterAbort
  <2>2. RoomRows'
    BY <1>4 DEF EnterAbort, room, RoomRows
  <2>3. QED
    BY <2>1, <2>2
<1>5. QED
  BY <1>1, <1>2, <1>3, <1>4 DEF EnterStep

LEMMA TouchType ==
  ASSUME RoomRows, NEW xs \in SUBSET Sessions, Touch(xs)
  PROVE  contended' \in SUBSET Sessions
BY DEF Touch, RoomRows

\* Requests of one statement, and the first statements of others.
LEMMA SessionType ==
  ASSUME RoomRows, Requests, NEW p \in Procs, SessionStep(p)
  PROVE  RoomRows' /\ Requests'
<1> PICK x \in Sessions :
      \/ Start(p, x) \/ End(p, x) \/ Cancel(p, x) \/ Propose(p, x) \/ Settle(p, x)
      \/ \E s \in Slots \cup {NoSlot} : SessionCreate(p, x, s)
  BY DEF SessionStep
<1>1. Requests'
  <2>1. CASE Start(p, x)
    <3>1. [pc |-> "start", session |-> x] \in Runs
      BY DEF Runs, RoomRun
    <3>2. QED
      BY <2>1, <3>1, BeginType DEF Start
  <2>2. CASE Cancel(p, x)
    <3>1. [pc |-> "erase", session |-> x] \in Runs
      BY DEF Runs, RoomRun
    <3>2. QED
      BY <2>2, <3>1, BeginType DEF Cancel
  <2>3. CASE Begin(p, Idle)
    BY <2>3, BeginType, IdleRuns
  <2>4. QED
    BY <2>1, <2>2, <2>3 DEF End, Propose, Settle, SessionCreate
<1>2. RoomRows'
  <2>1. CASE Start(p, x)
    BY <2>1, TouchType DEF Start, RoomRows
  <2>2. CASE End(p, x)
    BY <2>2 DEF End, SetStatus, RoomRows, SessionStatus
  <2>3. CASE Cancel(p, x)
    BY <2>3, TouchType DEF Cancel, RoomRows
  <2>4. CASE Propose(p, x)
    <3>1. contended' \in SUBSET Sessions
      BY <2>4, TouchType DEF Propose
    <3>2. QED
      BY <2>4, <3>1 DEF Propose, SetStatus, RoomRows, SessionStatus
  <2>5. CASE Settle(p, x)
    <3>1. contended' \in SUBSET Sessions
      BY <2>5, TouchType DEF Settle
    <3>2. PICK s \in SessionStatus : status' = [status EXCEPT ![x] = s]
      BY <2>5 DEF Settle, SetStatus, SessionStatus
    <3>3. QED
      BY <2>5, <3>1, <3>2 DEF Settle, RoomRows
  <2>6. CASE \E s \in Slots \cup {NoSlot} : SessionCreate(p, x, s)
    BY <2>6 DEF SessionCreate, SetStatus, RoomRows, SessionStatus
  <2>7. QED
    BY <2>1, <2>2, <2>3, <2>4, <2>5, <2>6
<1>3. QED
  BY <1>1, <1>2

\* The timetable makes and deletes sessions.
LEMMA TimetableType ==
  ASSUME RoomRows, NEW p \in Procs, NEW s \in Slots, TimetableInsert(p, s) \/ TimetableRemove(p, s)
  PROVE  RoomRows'
<1>1. CASE TimetableInsert(p, s)
  BY <1>1 DEF TimetableInsert, RoomRows, SessionStatus
<1>2. CASE TimetableRemove(p, s)
  <2>1. PICK old \in SUBSET Sessions :
          /\ status' = [x \in Sessions |-> IF x \in old THEN "deleted" ELSE status[x]]
          /\ mark' = [x \in Sheets |-> IF x \in old THEN [st \in Students |-> NoMark] ELSE mark[x]]
          /\ Touch(old)
    BY <1>2 DEF TimetableRemove
  <2>2. contended' \in SUBSET Sessions
    BY <2>1, TouchType
  <2>3. status' \in [Sessions -> SessionStatus \cup {"none", "deleted"}]
    BY <2>1 DEF RoomRows
  <2>4. mark' \in [Sheets -> [Students -> Marks \cup {NoMark}]]
    BY <2>1 DEF RoomRows
  <2>5. link' \in [Sessions -> Slots \cup {NoSlot}]
    BY <1>2 DEF TimetableRemove, RoomRows
  <2>6. QED
    BY <1>2, <2>2, <2>3, <2>4, <2>5 DEF TimetableRemove, RoomRows
<1>3. QED
  BY <1>1, <1>2

\* Students, and the sessions and grades of a course or class, are deleted.
LEMMA RemoveType ==
  ASSUME CalendarRows, RoomRows, RemovedRows, Requests, NEW p \in Procs, RemoveStep(p)
  PROVE  CalendarRows' /\ RoomRows' /\ RemovedRows' /\ Requests'
<1>1. Requests'
  BY BeginType, IdleRuns DEF RemoveStep, StudentRemove, TeachingRemove
<1>2. ASSUME NEW st \in Students, StudentRemove(p, st)
      PROVE  CalendarRows' /\ RoomRows' /\ RemovedRows'
  <2>1. mark' \in [Sheets -> [Students -> Marks \cup {NoMark}]]
    BY <1>2 DEF StudentRemove, RoomRows
  <2>2. RoomRows'
    BY <1>2, <2>1 DEF StudentRemove, RoomRows
  <2>3. CalendarRows' /\ RemovedRows'
    BY <1>2 DEF StudentRemove, CalendarRows, calendar, RemovedRows
  <2>4. QED
    BY <2>2, <2>3
<1>3. ASSUME NEW old \in SUBSET Slots, NEW sheets \in SUBSET Sheets,
             TeachingRemove(p, old, sheets)
      PROVE  CalendarRows' /\ RoomRows' /\ RemovedRows'
  <2>1. CalendarRows'
    BY <1>3 DEF TeachingRemove, CalendarRows
  <2>2. status' \in [Sessions -> SessionStatus \cup {"none", "deleted"}]
    BY <1>3 DEF TeachingRemove, RoomRows
  <2>3. mark' \in [Sheets -> [Students -> Marks \cup {NoMark}]]
    BY <1>3 DEF TeachingRemove, RoomRows
  <2>4. link' \in [Sessions -> Slots \cup {NoSlot}]
    BY <1>3 DEF TeachingRemove, RoomRows
  <2>5. contended' \in SUBSET Sessions
    <3>1. Touch(sheets \cap Sessions)
      BY <1>3 DEF TeachingRemove
    <3>2. QED
      BY <3>1, TouchType
  <2>6. RoomRows'
    BY <1>3, <2>2, <2>3, <2>4, <2>5 DEF TeachingRemove, RoomRows
  <2>7. RemovedRows'
    BY <1>3 DEF TeachingRemove, RemovedRows
  <2>8. QED
    BY <2>1, <2>6, <2>7
<1>4. QED
  BY <1>1, <1>2, <1>3 DEF RemoveStep

LEMMA FailsType ==
  ASSUME Requests, NEW p \in Procs, Fails(p)
  PROVE  Requests' /\ UNCHANGED <<calendar, room>>
<1>1. proc' \in [Procs -> Runs]
  BY IdleRuns DEF Fails, Become, Requests
<1>2. faults' \in 0..MaxFaults
  BY MaxFaultsNat DEF Fails, Requests
<1>3. QED
  BY <1>1, <1>2 DEF Fails, Requests

LEMMA RowsKept ==
  /\ CalendarRows /\ UNCHANGED calendar => CalendarRows'
  /\ RoomRows /\ UNCHANGED room => RoomRows'
  /\ RemovedRows /\ UNCHANGED room => RemovedRows'
  /\ RemovedRows /\ UNCHANGED <<gone, erased>> => RemovedRows'
BY DEF CalendarRows, RoomRows, RemovedRows, calendar, room, removed

LEMMA NextType ==
  ASSUME TypeOK, [Next]_vars
  PROVE  TypeOK'
<1>1. CalendarRows /\ RoomRows /\ RemovedRows /\ Requests
  BY TypeIs
<1>2. CASE UNCHANGED vars
  BY <1>2 DEF vars, removed, TypeOK, CalendarTypeOK
<1>3. ASSUME NEW p \in Procs, (YearStep(p) \/ SlotStep(p)) /\ UNCHANGED room
      PROVE  CalendarRows' /\ RoomRows' /\ RemovedRows' /\ Requests'
  BY <1>1, <1>3, YearsType, SlotsType, RowsKept
<1>4. ASSUME NEW p \in Procs, TimetableStep(p)
      PROVE  CalendarRows' /\ RoomRows' /\ RemovedRows' /\ Requests'
  BY <1>1, <1>4, SlotsType, TimetableType, NothingRemoved, RowsKept
  DEF TimetableStep, TimetableInsert, TimetableRemove
<1>5. ASSUME NEW p \in Procs, RoomStep(p)
      PROVE  CalendarRows' /\ RoomRows' /\ RemovedRows' /\ Requests'
  BY <1>1, <1>5, RoomStepIs, NothingRemoved, RowsKept, WorkType, EnterType, SessionType
  DEF RoomStep
<1>6. ASSUME NEW p \in Procs, Fails(p)
      PROVE  CalendarRows' /\ RoomRows' /\ RemovedRows' /\ Requests'
  BY <1>1, <1>6, FailsType, RowsKept
<1>7. (CalendarRows /\ RoomRows /\ RemovedRows /\ Requests)' => TypeOK'
  BY DEF TypeOK, CalendarTypeOK, CalendarRows, RoomRows, RemovedRows, Requests, Runs
<1>8. QED
  BY <1>1, <1>2, <1>3, <1>4, <1>5, <1>6, <1>7, StepIsOne, RemoveType

LEMMA InitType == Init => TypeOK
<1> SUFFICES ASSUME Init PROVE TypeOK
  OBVIOUS
<1>1. CalendarRows
  BY DEF Init, CalendarInit, CalendarRows
<1>2. RoomRows /\ RemovedRows
  BY DEF Init, RoomRows, RemovedRows, SessionStatus
<1>3. Requests
  BY MaxCallsNat, MaxFaultsNat, IdleRuns DEF Init, CalendarInit, Requests
<1>4. QED
  BY <1>1, <1>2, <1>3, TypeIs

(* Every row and every local state of the calendar and the classroom is one *)
(* the program can name.                                                    *)
THEOREM TypeCorrect == Spec => []TypeOK
BY InitType, NextType, PTL DEF Spec

(* Where a request is after its step; the others are where they were.       *)

BeginsAt(p, pcs) == \E state \in Runs : state.pc \in pcs /\ (Begin(p, state) \/ Go(p, state))

LEMMA BeginsIs ==
  ASSUME Requests, NEW p \in Procs, NEW pcs, BeginsAt(p, pcs)
  PROVE  proc'[p].pc \in pcs /\ \A q \in Procs \ {p} : proc'[q] = proc[q]
<1>1. PICK state \in Runs : state.pc \in pcs /\ (Begin(p, state) \/ Go(p, state))
  BY DEF BeginsAt
<1>2. QED
  BY <1>1, BeginType, GoType

SlotPcs == {"insert slot", "check slot", "write slot"}

LEMMA SlotAfter ==
  ASSUME TypeOK, NEW p \in Procs, SlotStep(p)
  PROVE  proc'[p].pc \in SlotPcs \cup {"idle"} /\ \A q \in Procs \ {p} : proc'[q] = proc[q]
<1>1. CalendarRows /\ Requests
  BY TypeIs
<1>2. ASSUME NEW row \in Rows, SlotCreate(p, row) PROVE BeginsAt(p, SlotPcs \cup {"idle"})
  <2>1. [pc |-> "insert slot", row |-> row] \in Runs
    BY DEF Runs, CalendarRun
  <2>2. QED
    BY <1>2, <2>1 DEF SlotCreate, BeginsAt, SlotPcs
<1>3. ASSUME NEW s \in Slots, SlotUpdate(p, s) PROVE BeginsAt(p, SlotPcs \cup {"idle"})
  <2>1. PICK new \in Merged(slot[s]) : Begin(p, [pc |-> "check slot", slot |-> s, row |-> new])
    BY <1>3 DEF SlotUpdate
  <2>2. [pc |-> "check slot", slot |-> s, row |-> new] \in Runs
    <3>1. new \in Rows
      BY <1>1, <1>3, BookedHas, MergedRows DEF SlotUpdate
    <3>2. QED
      BY <3>1 DEF Runs, CalendarRun
  <2>3. QED
    BY <2>1, <2>2 DEF BeginsAt, SlotPcs
<1>4. CASE SlotCheck(p)
  BY <1>1, <1>4, UpdateHas, IdleRuns, BeginsIs DEF SlotCheck, BeginsAt, SlotPcs
<1>5. CASE SlotWrite(p) \/ \E s \in Slots : SlotModify(p, s)
  BY <1>1, <1>5, IdleRuns, BeginsIs DEF SlotWrite, SlotModify, BeginsAt
<1>6. QED
  BY <1>1, <1>2, <1>3, <1>4, <1>5, BeginsIs DEF SlotStep

LEMMA YearAfter ==
  ASSUME TypeOK, NEW p \in Procs, YearStep(p)
  PROVE  proc'[p].pc \in {"activate", "idle"} /\ \A q \in Procs \ {p} : proc'[q] = proc[q]
<1>1. Requests
  BY TypeIs
<1>2. ASSUME NEW y \in Years, YearActivate(p, y)
      PROVE  proc'[p].pc \in {"activate", "idle"} /\ \A q \in Procs \ {p} : proc'[q] = proc[q]
  <2>1. PICK state : Begin(p, state) /\ state.pc = "activate"
    BY <1>2 DEF YearActivate
  <2>2. QED
    BY <1>1, <2>1 DEF Begin, Become, Requests
<1>3. CASE YearCommit(p) \/ \E y \in Years : YearCreate(p, y) \/ YearDeactivate(p, y)
  BY <1>1, <1>3, IdleRuns, BeginType, GoType DEF YearCommit, YearCreate, YearDeactivate
<1>4. QED
  BY <1>2, <1>3 DEF YearStep

LEMMA TimetableAfter ==
  ASSUME TypeOK, NEW p \in Procs, TimetableStep(p) \/ RemoveStep(p) \/ Fails(p)
  PROVE  proc'[p] = Idle /\ proc'[p].pc = "idle" /\ \A q \in Procs \ {p} : proc'[q] = proc[q]
<1>1. Requests
  BY TypeIs
<1>2. proc'[p] = Idle /\ \A q \in Procs \ {p} : proc'[q] = proc[q]
  BY <1>1, IdleRuns, BeginType, GoType
     DEF TimetableStep, TimetableInsert, TimetableRemove, SlotInsert, SlotRemove,
         RemoveStep, StudentRemove, TeachingRemove, Fails, Become, Requests
<1>3. QED
  BY <1>2, IdleRuns

LEMMA RoomAfter ==
  ASSUME TypeOK, NEW p \in Procs, RoomStep(p)
  PROVE  proc'[p].pc \in WorkPcs \cup {"mark", "idle"} /\ \A q \in Procs \ {p} : proc'[q] = proc[q]
<1>1. Requests
  BY TypeIs
<1> DEFINE pcs == WorkPcs \cup {"mark", "idle"}
<1>2. ASSUME WorkStep(p) PROVE BeginsAt(p, pcs)
  <2>1. proc[p].pc \in WorkPcs
    BY <1>2 DEF WorkStep, StartUpdate, StartAudit, CancelErase, CancelUpdate, CancelAudit, WorkPcs
  <2>2. PICK pc \in {"start audit", "cancel", "cancel audit", "idle"} :
          Go(p, IF pc = "idle" THEN Idle ELSE [proc[p] EXCEPT !.pc = pc])
    BY <1>2 DEF WorkStep, StartUpdate, StartAudit, CancelErase, CancelUpdate, CancelAudit
  <2>3. CASE pc = "idle"
    BY <2>2, <2>3, IdleRuns DEF BeginsAt
  <2>4. CASE pc # "idle"
    <3>1. pc \in WorkPcs
      BY <2>4 DEF WorkPcs
    <3>2. [proc[p] EXCEPT !.pc = pc] \in Runs /\ [proc[p] EXCEPT !.pc = pc].pc = pc
      BY <1>1, <2>1, <3>1, WorkHas
    <3>3. QED
      BY <2>2, <2>4, <3>1, <3>2 DEF BeginsAt
  <2>5. QED
    BY <2>3, <2>4
<1>3. ASSUME NEW x \in Sessions,
             \/ Start(p, x) \/ End(p, x) \/ Cancel(p, x) \/ Propose(p, x) \/ Settle(p, x)
             \/ \E s \in Slots \cup {NoSlot} : SessionCreate(p, x, s)
      PROVE  BeginsAt(p, pcs)
  <2>1. ASSUME NEW pc \in {"start", "erase"}, Begin(p, [pc |-> pc, session |-> x]) PROVE BeginsAt(p, pcs)
    <3>1. [pc |-> pc, session |-> x] \in Runs
      BY DEF Runs, RoomRun
    <3>2. QED
      BY <2>1, <3>1 DEF BeginsAt, WorkPcs
  <2>2. Begin(p, Idle) => BeginsAt(p, pcs)
    BY IdleRuns DEF BeginsAt
  <2>3. QED
    BY <1>3, <2>1, <2>2 DEF Start, End, Cancel, Propose, Settle, SessionCreate
<1>4. ASSUME NEW x \in Sheets, NEW m \in Marks, NEW listed \in SUBSET Students, Enter(p, x, m, listed)
      PROVE  BeginsAt(p, pcs)
  <2>1. [pc |-> "mark", sheet |-> x, mark |-> m, todo |-> listed, done |-> {}] \in Runs
    BY DEF Runs, RoomRun
  <2>2. QED
    BY <1>4, <2>1 DEF Enter, BeginsAt
<1>5. ASSUME NEW st \in Students, Upsert(p, st) PROVE BeginsAt(p, pcs)
  <2>1. PICK state \in Runs : Go(p, state) /\ state.pc = "mark"
    BY <1>1, <1>5, MarkHas DEF Upsert
  <2>2. QED
    BY <2>1 DEF BeginsAt
<1>6. CASE EnterCommit(p) \/ EnterAbort(p)
  BY <1>1, <1>6, IdleRuns, BeginsIs DEF EnterCommit, EnterAbort, BeginsAt
<1>7. QED
  BY <1>1, <1>2, <1>3, <1>4, <1>5, <1>6, BeginsIs DEF RoomStep, EnterStep, SessionStep

-----------------------------------------------------------------------------
(* One active year.  What an activation does not switch off has been        *)
(* stored since it looked, and is in missed.                                *)

YearsKnown(p) ==
  proc[p].pc = "activate" =>
    /\ \A x \in proc[p].others : year[x] # "none" /\ x # proc[p].year
    /\ \A x \in Years : year[x] # "none" => x \in proc[p].others \cup missed \cup {proc[p].year}

YearsInv == OneActiveYear /\ \A p \in Procs : YearsKnown(p)

LEMMA YearsQuiet ==
  ASSUME YearsInv, UNCHANGED <<year, missed>>,
         \A p \in Procs : proc'[p] = proc[p] \/ proc'[p].pc # "activate"
  PROVE  YearsInv'
BY DEF YearsInv, OneActiveYear, YearsKnown

LEMMA YearActivateKnows ==
  ASSUME TypeOK, YearsInv, NEW p \in Procs, NEW y \in Years, YearActivate(p, y)
  PROVE  YearsInv'
<1>1. PICK new : Begin(p, [pc |-> "activate", year |-> y, new |-> new,
                           others |-> {x \in Years : year[x] # "none" /\ x # y}])
  BY DEF YearActivate
<1>2. PICK others : others = {x \in Years : year[x] # "none" /\ x # y}
  OBVIOUS
<1>3. proc'[p] = [pc |-> "activate", year |-> y, new |-> new, others |-> others]
  BY <1>1, <1>2 DEF Begin, Become, TypeOK
<1>4. proc'[p].year = y /\ proc'[p].others = others
  BY <1>3
<1>5. UNCHANGED <<year, missed>> /\ \A q \in Procs \ {p} : proc'[q] = proc[q]
  BY <1>1 DEF YearActivate, calendar, Begin, Become, TypeOK
<1>6. \A q \in Procs : YearsKnown(q)'
  BY <1>2, <1>4, <1>5 DEF YearsInv, YearsKnown
<1>7. QED
  BY <1>5, <1>6 DEF YearsInv, OneActiveYear

\* A year is stored by a request that is done with it.
LEMMA YearStored ==
  ASSUME TypeOK, YearsInv, NEW p \in Procs, NEW y \in Years,
         Stored(p, y), \A x \in Years : year'[x] # "none" => year[x] # "none" \/ x = y,
         \A x \in Years : year[x] # "none" => year'[x] # "none",
         proc'[p].pc # "activate", \A q \in Procs \ {p} : proc'[q] = proc[q]
  PROVE  missed \subseteq missed' /\ \A q \in Procs : YearsKnown(q)'
<1>1. missed \subseteq missed' /\ \A q \in Procs \ {p} : proc[q].pc = "activate" => y \in missed'
  BY DEF Stored, Activating
<1>2. ASSUME NEW q \in Procs, proc'[q].pc = "activate"
      PROVE  YearsKnown(q)'
  <2>1. q # p /\ proc'[q] = proc[q] /\ y \in missed'
    BY <1>1, <1>2
  <2>2. proc[q].others \subseteq Years
    BY <1>2, <2>1, TypeIs, ActivateHas
  <2>3. /\ \A x \in proc[q].others : year[x] # "none" /\ x # proc[q].year
        /\ \A x \in Years : year[x] # "none" => x \in proc[q].others \cup missed \cup {proc[q].year}
    BY <1>2, <2>1 DEF YearsInv, YearsKnown
  <2>4. QED
    BY <1>1, <2>1, <2>2, <2>3 DEF YearsKnown
<1>3. QED
  BY <1>1, <1>2 DEF YearsKnown

LEMMA YearCommitKnows ==
  ASSUME TypeOK, YearsInv, NEW p \in Procs, YearCommit(p)
  PROVE  YearsInv'
<1>1. PICK y \in Years : y = proc[p].year
  BY TypeIs, ActivateHas DEF YearCommit
<1>2. PICK others \in SUBSET Years : others = proc[p].others
  BY TypeIs, ActivateHas DEF YearCommit
<1>3. proc[p].pc = "activate" /\ Go(p, Idle)
  BY DEF YearCommit
<1>4. proc'[p].pc = "idle" /\ \A q \in Procs \ {p} : proc'[q] = proc[q]
  BY <1>3, TypeIs, GoType, IdleRuns
<1>5. \A x \in Years : year'[x] = CASE x \in others -> "inactive"
                                   [] x = y /\ (proc[p].new \/ year[y] # "none") -> "active"
                                   [] OTHER -> year[x]
  BY <1>1, <1>2 DEF YearCommit
<1>6. /\ \A x \in others : year[x] # "none" /\ x # y
      /\ \A x \in Years : year[x] # "none" => x \in others \cup missed \cup {y}
  BY <1>1, <1>2, <1>3 DEF YearsInv, YearsKnown
<1>7. /\ \A x \in others : year'[x] = "inactive"
      /\ \A x \in Years \ (others \cup {y}) : year'[x] = year[x]
      /\ year'[y] = year[y] \/ year'[y] = "active"
      /\ ~proc[p].new /\ year[y] = "none" => year'[y] = "none"
  BY <1>5, <1>6
<1>8. missed \subseteq missed' /\ \A q \in Procs : YearsKnown(q)'
  <2>1. CASE Stored(p, y)
    <3>1. /\ \A x \in Years : year'[x] # "none" => year[x] # "none" \/ x = y
          /\ \A x \in Years : year[x] # "none" => year'[x] # "none"
      BY <1>6, <1>7
    <3>2. QED
      BY <1>4, <2>1, <3>1, YearStored
  <2>2. CASE UNCHANGED missed /\ ~proc[p].new
    <3>1. \A x \in Years : year'[x] # "none" <=> year[x] # "none"
      BY <1>6, <1>7, <2>2
    <3>2. ASSUME NEW q \in Procs, proc'[q].pc = "activate" PROVE YearsKnown(q)'
      <4>1. q # p /\ proc'[q] = proc[q]
        BY <1>4, <3>2
      <4>2. proc[q].others \subseteq Years
        BY <3>2, <4>1, TypeIs, ActivateHas
      <4>3. QED
        BY <2>2, <3>1, <4>1, <4>2 DEF YearsInv, YearsKnown
    <3>3. QED
      BY <2>2, <3>2 DEF YearsKnown
  <2>3. QED
    BY <1>1, <2>1, <2>2 DEF YearCommit
<1>9. OneActiveYear'
  <2>1. \A x \in Years : year'[x] = "active" => x = y \/ x \in missed
    BY <1>6, <1>7
  <2>2. QED
    BY <1>8, <2>1 DEF OneActiveYear
<1>10. QED
  BY <1>8, <1>9 DEF YearsInv

LEMMA YearsInvKept ==
  ASSUME TypeOK, YearsInv, [Next]_vars
  PROVE  YearsInv'
<1>1. CASE UNCHANGED vars
  BY <1>1 DEF vars, YearsInv, OneActiveYear, YearsKnown
<1>2. ASSUME NEW p \in Procs, NEW y \in Years, YearCreate(p, y) PROVE YearsInv'
  <2>1. proc'[p].pc # "activate" /\ \A q \in Procs \ {p} : proc'[q] = proc[q]
    BY <1>2, TypeIs, BeginType, IdleRuns DEF YearCreate
  <2>2. Stored(p, y) /\ year[y] = "none" /\ year' = [year EXCEPT ![y] = "inactive"]
    BY <1>2 DEF YearCreate
  <2>3. /\ \A x \in Years : year'[x] = "active" => year[x] = "active"
        /\ \A x \in Years : year'[x] # "none" => year[x] # "none" \/ x = y
        /\ \A x \in Years : year[x] # "none" => year'[x] # "none"
    BY <2>2, TypeIs DEF CalendarRows
  <2>4. missed \subseteq missed' /\ \A q \in Procs : YearsKnown(q)'
    BY <2>1, <2>2, <2>3, YearStored
  <2>5. QED
    BY <2>3, <2>4 DEF YearsInv, OneActiveYear
<1>3. ASSUME NEW p \in Procs, NEW y \in Years, YearDeactivate(p, y) PROVE YearsInv'
  <2>1. proc'[p].pc # "activate" /\ \A q \in Procs \ {p} : proc'[q] = proc[q]
    BY <1>3, TypeIs, BeginType, IdleRuns DEF YearDeactivate
  <2>2. UNCHANGED missed /\ year[y] = "active" /\ year' = [year EXCEPT ![y] = "inactive"]
    BY <1>3 DEF YearDeactivate
  <2>3. \A x \in Years : (year'[x] = "active" => year[x] = "active") /\ (year'[x] # "none" <=> year[x] # "none")
    BY <2>2, TypeIs DEF CalendarRows
  <2>4. ASSUME NEW q \in Procs, proc'[q].pc = "activate" PROVE YearsKnown(q)'
    <3>1. proc'[q] = proc[q] /\ proc[q].others \subseteq Years
      BY <2>1, <2>4, TypeIs, ActivateHas
    <3>2. QED
      BY <2>2, <2>3, <3>1 DEF YearsInv, YearsKnown
  <2>5. QED
    BY <2>2, <2>3, <2>4 DEF YearsInv, OneActiveYear, YearsKnown
<1>4. ASSUME NEW p \in Procs, SlotStep(p) PROVE YearsInv'
  <2>1. UNCHANGED <<year, missed>>
    BY <1>4 DEF SlotStep, SlotCreate, SlotUpdate, SlotCheck, SlotWrite, SlotModify, WriteSlot, Look, calendar
  <2>2. QED
    BY <1>4, <2>1, SlotAfter, YearsQuiet DEF SlotPcs
<1>5. ASSUME NEW p \in Procs, TimetableStep(p) \/ RemoveStep(p) \/ Fails(p) PROVE YearsInv'
  <2>1. UNCHANGED <<year, missed>>
    BY <1>5 DEF TimetableStep, TimetableInsert, TimetableRemove, SlotInsert, SlotRemove, WriteSlot,
           RemoveStep, StudentRemove, TeachingRemove, Fails, calendar
  <2>2. QED
    BY <1>5, <2>1, TimetableAfter, YearsQuiet
<1>6. ASSUME NEW p \in Procs, RoomStep(p) PROVE YearsInv'
  <2>1. UNCHANGED <<year, missed>>
    BY <1>6, RoomStepIs DEF calendar
  <2>2. QED
    BY <1>6, <2>1, RoomAfter, YearsQuiet DEF WorkPcs
<1>7. QED
  BY <1>1, <1>2, <1>3, <1>4, <1>5, <1>6, YearActivateKnows, YearCommitKnows, StepIsOne DEF YearStep

(* There is one active year, however activations, creations and failures    *)
(* overlap, but for years that were stored while another was activated.     *)
THEOREM OneYear == Spec => []OneActiveYear
<1>1. Init => YearsInv
  BY DEF Init, CalendarInit, YearsInv, OneActiveYear, YearsKnown, Idle
<1>2. TypeOK /\ YearsInv /\ [Next]_vars => YearsInv'
  BY YearsInvKept
<1>3. YearsInv => OneActiveYear
  BY DEF YearsInv
<1>4. QED
  BY <1>1, <1>2, <1>3, TypeCorrect, PTL DEF Spec

-----------------------------------------------------------------------------
(* Venues are booked once.  A slot that clashes with what a request is      *)
(* about to write has been written since the request looked, and is in      *)
(* unseen.                                                                  *)

SlotsKnown(p) ==
  /\ proc[p].pc = "insert slot" =>
       \A t \in Booked : Clash(proc[p].row, slot[t]) => t \in unseen[p]
  /\ proc[p].pc = "write slot" =>
       \A t \in Booked \ {proc[p].slot} : Clash(proc[p].row, slot[t]) => t \in unseen[p]

SlotsInv == NoDoubleBooking /\ \A p \in Procs : SlotsKnown(p)

LEMMA SlotsQuiet ==
  ASSUME SlotsInv, UNCHANGED <<slot, unseen, hasty>>,
         \A p \in Procs : proc'[p] = proc[p] \/ proc'[p].pc \notin {"insert slot", "write slot"}
  PROVE  SlotsInv'
BY DEF SlotsInv, NoDoubleBooking, SlotsKnown, Booked

\* A row that was written, and the requests that have not seen it.
LEMMA SlotWritten ==
  ASSUME TypeOK, SlotsInv, NEW p \in Procs, NEW s \in Slots, NEW row, slot' = [slot EXCEPT ![s] = row],
         \A q \in Procs \ {p} : proc'[q] = proc[q] /\ unseen'[q] = unseen[q] \cup {s},
         proc'[p].pc \notin {"insert slot", "write slot"},
         \A h \in hasty : s \notin h => h \in hasty',
         \A t \in Booked \ {s} : Clash(row, slot[t]) => {s, t} \in hasty'
  PROVE  SlotsInv'
<1>1. /\ slot'[s] = row /\ \A t \in Slots \ {s} : slot'[t] = slot[t]
      /\ Booked' \subseteq Slots /\ Booked' \subseteq Booked \cup {s}
  BY TypeIs DEF CalendarRows, Booked
<1>2. \A r, q : Clash(r, q) <=> Clash(q, r)
  BY DEF Clash
<1>3. NoDoubleBooking'
  <2> SUFFICES ASSUME NEW t \in Booked', NEW u \in Booked', t # u, Clash(slot'[t], slot'[u])
               PROVE  {t, u} \in hasty'
    BY DEF NoDoubleBooking, Clash
  <2>1. CASE t = s
    BY <1>1, <2>1
  <2>2. CASE u = s
    <3>1. Clash(row, slot[t]) /\ t \in Booked \ {s}
      BY <1>1, <1>2, <2>2
    <3>2. {s, t} = {t, u}
      BY <2>2
    <3>3. QED
      BY <3>1, <3>2
  <2>3. CASE t # s /\ u # s
    <3>1. {t, u} \in hasty
      BY <1>1, <2>3 DEF SlotsInv, NoDoubleBooking
    <3>2. QED
      BY <2>3, <3>1
  <2>4. QED
    BY <2>1, <2>2, <2>3
<1>4. ASSUME NEW q \in Procs PROVE SlotsKnown(q)'
  <2>1. CASE q = p
    BY <2>1 DEF SlotsKnown
  <2>2. CASE q # p
    <3>1. proc'[q] = proc[q] /\ unseen'[q] = unseen[q] \cup {s} /\ SlotsKnown(q)
      BY <2>2 DEF SlotsInv
    <3>2. \A t \in Booked' : t \in unseen'[q] \/ (t \in Booked /\ slot'[t] = slot[t])
      BY <1>1, <3>1
    <3>3. ASSUME NEW t \in Booked', NEW r, Clash(r, slot'[t]), t \notin unseen'[q]
          PROVE  t \in Booked /\ Clash(r, slot[t]) /\ t \notin unseen[q]
      BY <3>1, <3>2, <3>3
    <3>4. proc'[q].pc = "insert slot" => \A t \in Booked' : Clash(proc'[q].row, slot'[t]) => t \in unseen'[q]
      BY <3>1, <3>3 DEF SlotsKnown
    <3>5. proc'[q].pc = "write slot" =>
            \A t \in Booked' \ {proc'[q].slot} : Clash(proc'[q].row, slot'[t]) => t \in unseen'[q]
      BY <3>1, <3>3 DEF SlotsKnown
    <3>6. QED
      BY <3>4, <3>5 DEF SlotsKnown, Clash
  <2>3. QED
    BY <2>1, <2>2
<1>5. QED
  BY <1>3, <1>4 DEF SlotsInv

\* WriteSlot after a check.
LEMMA SlotCommitted ==
  ASSUME TypeOK, SlotsInv, NEW p \in Procs, NEW s \in Slots, NEW row, WriteSlot(p, s, row),
         \A q \in Procs \ {p} : proc'[q] = proc[q],
         proc'[p].pc \notin {"insert slot", "write slot"},
         \A t \in Booked \ {s} : Clash(row, slot[t]) => t \in unseen[p]
  PROVE  SlotsInv'
<1>1. /\ slot' = [slot EXCEPT ![s] = row]
      /\ \A q \in Procs \ {p} : unseen'[q] = unseen[q] \cup {s}
      /\ hasty' = {h \in hasty : s \notin h} \cup {{s, t} : t \in unseen[p] \ {s}}
  BY DEF WriteSlot
<1>2. \A h \in hasty : s \notin h => h \in hasty'
  BY <1>1
<1>3. \A t \in Booked \ {s} : Clash(row, slot[t]) => {s, t} \in hasty'
  BY <1>1
<1>4. QED
  BY <1>1, <1>2, <1>3, SlotWritten

\* A request looks at the slots: it knows of all of them.
LEMMA SlotLooked ==
  ASSUME TypeOK, SlotsInv, NEW p \in Procs, Look(p),
         \A q \in Procs \ {p} : proc'[q] = proc[q],
         proc'[p].pc = "insert slot" => ~Conflict(proc'[p].row, {}),
         proc'[p].pc = "write slot" => ~Conflict(proc'[p].row, {proc'[p].slot})
  PROVE  SlotsInv'
<1>1. UNCHANGED <<slot, hasty>> /\ \A q \in Procs \ {p} : unseen'[q] = unseen[q]
  BY TypeIs DEF Look, CalendarRows
<1>2. Booked' = Booked
  BY <1>1 DEF Booked
<1>3. NoDoubleBooking'
  BY <1>1, <1>2 DEF SlotsInv, NoDoubleBooking, Clash
<1>4. SlotsKnown(p)'
  BY <1>1, <1>2 DEF SlotsKnown, Conflict, Clash
<1>5. \A q \in Procs \ {p} : SlotsKnown(q)'
  BY <1>1, <1>2 DEF SlotsInv, SlotsKnown, Clash
<1>6. QED
  BY <1>3, <1>4, <1>5 DEF SlotsInv

LEMMA SlotsInvKept ==
  ASSUME TypeOK, SlotsInv, [Next]_vars
  PROVE  SlotsInv'
<1>1. CASE UNCHANGED vars
  BY <1>1, SlotsQuiet DEF vars
<1>2. ASSUME NEW p \in Procs, NEW row \in Rows, SlotCreate(p, row) PROVE SlotsInv'
  <2>1. PICK run : run = [pc |-> "insert slot", row |-> row] /\ Begin(p, run)
    BY <1>2 DEF SlotCreate
  <2>2. run.pc = "insert slot" /\ run.row = row
    BY <2>1, Zenon
  <2>3. proc'[p] = run /\ \A q \in Procs \ {p} : proc'[q] = proc[q]
    BY <2>1 DEF Begin, Become, TypeOK
  <2>4. QED
    BY <1>2, <2>2, <2>3, SlotLooked DEF SlotCreate
<1>3. ASSUME NEW p \in Procs, NEW s \in Slots, SlotInsert(p, s) PROVE SlotsInv'
  <2>1. proc'[p].pc = "idle" /\ \A q \in Procs \ {p} : proc'[q] = proc[q]
    BY <1>3, TypeIs, GoType, IdleRuns DEF SlotInsert
  <2>2. \A t \in Booked \ {s} : Clash(proc[p].row, slot[t]) => t \in unseen[p]
    BY <1>3 DEF SlotInsert, SlotsInv, SlotsKnown
  <2>3. QED
    BY <1>3, <2>1, <2>2, SlotCommitted DEF SlotInsert
<1>4. ASSUME NEW p \in Procs, NEW s \in Slots, SlotUpdate(p, s) PROVE SlotsInv'
  <2>1. PICK row : Begin(p, [pc |-> "check slot", slot |-> s, row |-> row])
    BY <1>4 DEF SlotUpdate
  <2>2. proc'[p].pc = "check slot" /\ \A q \in Procs \ {p} : proc'[q] = proc[q]
    BY <2>1 DEF Begin, Become, TypeOK
  <2>3. UNCHANGED <<slot, unseen, hasty>>
    BY <1>4 DEF SlotUpdate, calendar
  <2>4. QED
    BY <2>2, <2>3, SlotsQuiet
<1>5. ASSUME NEW p \in Procs, SlotCheck(p) PROVE SlotsInv'
  <2>1. \A q \in Procs \ {p} : proc'[q] = proc[q]
    BY <1>5, SlotAfter DEF SlotStep
  <2>2. CASE Conflict(proc[p].row, {proc[p].slot})
    <3>1. proc'[p].pc = "idle"
      BY <1>5, <2>2, TypeIs, GoType, IdleRuns DEF SlotCheck
    <3>2. QED
      BY <1>5, <2>1, <3>1, SlotLooked DEF SlotCheck
  <2>3. CASE ~Conflict(proc[p].row, {proc[p].slot})
    <3>1. proc'[p] = [proc[p] EXCEPT !.pc = "write slot"]
      BY <1>5, <2>3 DEF SlotCheck, Go, Become, TypeOK
    <3>2. proc'[p].pc = "write slot" /\ proc'[p].slot = proc[p].slot /\ proc'[p].row = proc[p].row
      BY <1>5, <3>1, TypeIs, UpdateHas DEF SlotCheck
    <3>3. QED
      BY <1>5, <2>1, <2>3, <3>2, SlotLooked DEF SlotCheck
  <2>4. QED
    BY <2>2, <2>3
<1>6. ASSUME NEW p \in Procs, SlotWrite(p) PROVE SlotsInv'
  <2>1. proc'[p].pc = "idle" /\ \A q \in Procs \ {p} : proc'[q] = proc[q]
    BY <1>6, TypeIs, GoType, IdleRuns DEF SlotWrite
  <2>2. CASE UNCHANGED calendar
    BY <2>1, <2>2, SlotsQuiet DEF calendar
  <2>3. CASE WriteSlot(p, proc[p].slot, proc[p].row)
    <3>1. \A t \in Booked \ {proc[p].slot} : Clash(proc[p].row, slot[t]) => t \in unseen[p]
      BY <1>6 DEF SlotWrite, SlotsInv, SlotsKnown
    <3>2. proc[p].slot \in Slots
      BY <1>6, TypeIs, UpdateHas DEF SlotWrite
    <3>3. QED
      BY <2>1, <2>3, <3>1, <3>2, SlotCommitted
  <2>4. QED
    BY <1>6, <2>2, <2>3 DEF SlotWrite
<1>7. ASSUME NEW p \in Procs, NEW s \in Slots, SlotModify(p, s) PROVE SlotsInv'
  <2>1. proc'[p].pc = "idle" /\ \A q \in Procs \ {p} : proc'[q] = proc[q]
    BY <1>7, TypeIs, BeginType, IdleRuns DEF SlotModify
  <2>2. PICK row : slot' = [slot EXCEPT ![s] = row]
    BY <1>7 DEF SlotModify
  <2>3. hasty' = hasty \cup {{s, t} : t \in Slots \ {s}} /\ \A q \in Procs : unseen'[q] = unseen[q] \cup {s}
    BY <1>7 DEF SlotModify
  <2>4. \A t \in Booked \ {s} : {s, t} \in hasty'
    BY <2>3 DEF Booked
  <2>5. QED
    BY <2>1, <2>2, <2>3, <2>4, SlotWritten
<1>8. ASSUME NEW p \in Procs, NEW s \in Slots, SlotRemove(p, s) PROVE SlotsInv'
  <2>1. proc'[p].pc = "idle" /\ \A q \in Procs \ {p} : proc'[q] = proc[q]
    BY <1>8, TypeIs, BeginType, IdleRuns DEF SlotRemove
  <2>2. UNCHANGED <<unseen, hasty>> /\ slot' = [slot EXCEPT ![s] = Gone]
    BY <1>8 DEF SlotRemove
  <2>3. Booked' \subseteq Booked /\ \A t \in Booked' : slot'[t] = slot[t]
    BY <2>2, TypeIs DEF Booked, CalendarRows
  <2>4. NoDoubleBooking'
    BY <2>2, <2>3 DEF SlotsInv, NoDoubleBooking, Clash
  <2>5. \A q \in Procs : SlotsKnown(q)'
    BY <2>1, <2>2, <2>3 DEF SlotsInv, SlotsKnown, Clash
  <2>6. QED
    BY <2>4, <2>5 DEF SlotsInv
<1>9. ASSUME NEW p \in Procs, YearStep(p) PROVE SlotsInv'
  <2>1. UNCHANGED <<slot, unseen, hasty>>
    BY <1>9 DEF YearStep, YearCreate, YearActivate, YearCommit, YearDeactivate, calendar
  <2>2. QED
    BY <1>9, <2>1, YearAfter, SlotsQuiet
<1>10. ASSUME NEW p \in Procs, RoomStep(p) PROVE SlotsInv'
  <2>1. UNCHANGED <<slot, unseen, hasty>>
    BY <1>10, RoomStepIs DEF calendar
  <2>2. QED
    BY <1>10, <2>1, RoomAfter, SlotsQuiet DEF WorkPcs
<1>11. ASSUME NEW p \in Procs, Fails(p) PROVE SlotsInv'
  BY <1>11, TimetableAfter, SlotsQuiet DEF Fails, calendar
<1>12. ASSUME NEW p \in Procs, RemoveStep(p) PROVE SlotsInv'
  <2>1. proc'[p].pc = "idle" /\ \A q \in Procs \ {p} : proc'[q] = proc[q]
    BY <1>12, TimetableAfter
  <2>2. CASE \E st \in Students : StudentRemove(p, st)
    <3>1. UNCHANGED <<slot, unseen, hasty>>
      BY <2>2 DEF StudentRemove, calendar
    <3>2. QED
      BY <2>1, <3>1, SlotsQuiet
  <2>3. ASSUME NEW old \in SUBSET Slots, NEW sheets \in SUBSET Sheets, TeachingRemove(p, old, sheets)
        PROVE  SlotsInv'
    <3>1. UNCHANGED <<unseen, hasty>> /\ slot' = [s \in Slots |-> IF s \in old THEN Gone ELSE slot[s]]
      BY <2>3 DEF TeachingRemove
    <3>2. Booked' \subseteq Booked /\ \A t \in Booked' : slot'[t] = slot[t]
      BY <3>1 DEF Booked
    <3>3. NoDoubleBooking'
      BY <3>1, <3>2 DEF SlotsInv, NoDoubleBooking, Clash
    <3>4. \A q \in Procs : SlotsKnown(q)'
      BY <2>1, <3>1, <3>2 DEF SlotsInv, SlotsKnown, Clash
    <3>5. QED
      BY <3>3, <3>4 DEF SlotsInv
  <2>4. QED
    BY <1>12, <2>2, <2>3 DEF RemoveStep
<1>13. QED
  BY <1>1, <1>2, <1>3, <1>4, <1>5, <1>6, <1>7, <1>8, <1>9, <1>10, <1>11, <1>12, StepIsOne
     DEF SlotStep, TimetableStep, TimetableInsert, TimetableRemove

(* A venue is booked once at a time, but by slots that were written without *)
(* regard to each other.                                                    *)
THEOREM OneBooking == Spec => []NoDoubleBooking
<1>1. Init => SlotsInv
  BY DEF Init, CalendarInit, SlotsInv, NoDoubleBooking, SlotsKnown, Booked, Idle
<1>2. TypeOK /\ SlotsInv /\ [Next]_vars => SlotsInv'
  BY SlotsInvKept
<1>3. SlotsInv => NoDoubleBooking
  BY DEF SlotsInv
<1>4. QED
  BY <1>1, <1>2, <1>3, TypeCorrect, PTL DEF Spec

-----------------------------------------------------------------------------
(* Sessions.  A session that is not contended has one worker at most, and   *)
(* what that worker has found is still so.                                  *)

OneWorker == \A x \in Sessions \ contended : \A p, q \in Working(x) : p = q

AuditAt(x) ==
  /\ starts[x] <= 1
  /\ starts[x] > 0 => status[x] \in {"live", "completed"}
  /\ cancels[x] > 0 => status[x] = "cancelled" \/ x \in pended

WorkerKnows(p, x) ==
  /\ proc[p].pc = "start" => status[x] = "scheduled"
  /\ proc[p].pc = "start audit" => status[x] \in {"live", "completed"} /\ starts[x] = 0
  /\ proc[p].pc \in {"erase", "cancel"} => status[x] \in {"pending_confirmation", "scheduled"}
  /\ proc[p].pc = "cancel audit" => status[x] = "cancelled" \/ x \in pended

\* Sessions that are left out.
Late == contended \cup erased

RoomInv ==
  /\ OneWorker
  /\ \A x \in Sessions : status[x] = "pending_confirmation" => x \in pended
  /\ \A x \in Sessions \ Late : AuditAt(x) /\ \A p \in Working(x) : WorkerKnows(p, x)

LEMMA AuditIs ==
  ASSUME NEW x, starts'[x] = 0 \/ (starts'[x] = 1 /\ status'[x] \in {"live", "completed"}),
         cancels'[x] > 0 => status'[x] = "cancelled" \/ x \in pended'
  PROVE  AuditAt(x)'
BY DEF AuditAt

LEMMA WorkingIs ==
  ASSUME NEW x
  PROVE  Working(x) = {p \in Procs : proc[p].pc \in WorkPcs /\ proc[p].session = x}
BY DEF Working, WorkPcs

\* No worker moves, and sessions only appear or end.
LEMMA RoomQuiet ==
  ASSUME TypeOK, RoomInv, UNCHANGED <<starts, cancels, contended, pended, erased>>,
         \A x \in Sessions : \/ status'[x] = status[x]
                             \/ status[x] = "none" /\ status'[x] = "scheduled"
                             \/ status[x] = "live" /\ status'[x] = "completed",
         \A p \in Procs : proc'[p] = proc[p] \/ proc'[p].pc \notin WorkPcs
  PROVE  RoomInv'
<1>1. \A x : Working(x)' \subseteq Working(x) /\ \A p \in Working(x)' : proc'[p] = proc[p]
  BY DEF Working, WorkPcs
<1>2. OneWorker'
  BY <1>1 DEF RoomInv, OneWorker
<1>3. \A x \in Sessions : status'[x] = "pending_confirmation" => x \in pended'
  BY DEF RoomInv
<1>4. ASSUME NEW x \in Sessions \ Late PROVE AuditAt(x)'
  BY DEF RoomInv, AuditAt
<1>5. ASSUME NEW x \in Sessions \ Late, NEW p \in Working(x)' PROVE WorkerKnows(p, x)'
  <2>1. proc'[p] = proc[p] /\ WorkerKnows(p, x)
    BY <1>1, <1>5 DEF RoomInv
  <2>2. QED
    BY <2>1 DEF WorkerKnows
<1>6. Late' = Late
  BY DEF Late
<1>7. QED
  BY <1>2, <1>3, <1>4, <1>5, <1>6 DEF RoomInv

\* Sessions are moved, or a worker takes one: workers that they had are late.
LEMMA RoomTaken ==
  ASSUME TypeOK, RoomInv, NEW p \in Procs, NEW xs \in SUBSET Sessions, Touch(xs),
         UNCHANGED <<starts, cancels, erased>>, pended \subseteq pended',
         \A x \in Sessions \ xs : status'[x] = status[x],
         \A x \in xs : status[x] \in {"pending_confirmation", "scheduled"}
                      /\ (status'[x] = "pending_confirmation" => x \in pended'),
         \A q \in Procs \ {p} : proc'[q] = proc[q], proc[p].pc \notin WorkPcs,
         \A x : proc'[p].pc \in WorkPcs /\ proc'[p].session = x => x \in xs /\ WorkerKnows(p, x)'
  PROVE  RoomInv'
<1>1. /\ contended \subseteq contended' /\ Late \subseteq Late' /\ contended' \subseteq Late'
      /\ \A x \in xs \ contended' : Working(x) = {}
  BY DEF Touch, Late
<1>2. \A x \in xs \ contended' : Working(x)' \subseteq {p}
  <2> SUFFICES ASSUME NEW x \in xs \ contended', NEW q \in Working(x)', q # p PROVE FALSE
    OBVIOUS
  <2>1. q \in Working(x)
    BY WorkingIs DEF Working, WorkPcs
  <2>2. QED
    BY <1>1, <2>1
<1>3. \A x \in Sessions \ xs : Working(x)' = Working(x) /\ \A q \in Working(x)' : proc'[q] = proc[q]
  BY DEF Working, WorkPcs
<1>4. OneWorker'
  BY <1>1, <1>2, <1>3 DEF RoomInv, OneWorker
<1>5. \A x \in Sessions : status'[x] = "pending_confirmation" => x \in pended'
  BY DEF RoomInv
<1>6. ASSUME NEW x \in Sessions \ Late' PROVE AuditAt(x)'
  <2>1. AuditAt(x) /\ x \in Sessions \ Late
    BY <1>1 DEF RoomInv
  <2>2. CASE x \in xs
    <3>1. ~(starts[x] > 0) /\ (cancels[x] > 0 => x \in pended)
      <4>1. status[x] \in {"pending_confirmation", "scheduled"}
        BY <2>2
      <4>2. QED
        BY <2>1, <4>1 DEF AuditAt, RoomInv
    <3>2. QED
      BY <2>1, <3>1 DEF AuditAt
  <2>3. CASE x \notin xs
    BY <2>1, <2>3 DEF AuditAt
  <2>4. QED
    BY <2>2, <2>3
<1>7. ASSUME NEW x \in Sessions \ Late', NEW q \in Working(x)' PROVE WorkerKnows(q, x)'
  <2>1. CASE x \in xs
    <3>1. q = p
      BY <1>1, <1>2, <1>7, <2>1
    <3>2. proc'[p].pc \in WorkPcs /\ proc'[p].session = x
      BY <1>7, <3>1 DEF Working, WorkPcs
    <3>3. QED
      BY <3>1, <3>2
  <2>2. CASE x \notin xs
    <3>1. proc'[q] = proc[q] /\ WorkerKnows(q, x)
      BY <1>1, <1>3, <1>7, <2>2 DEF RoomInv
    <3>2. QED
      BY <2>2, <3>1 DEF WorkerKnows
  <2>3. QED
    BY <2>1, <2>2
<1>8. QED
  BY <1>4, <1>5, <1>6, <1>7 DEF RoomInv

\* The worker of a session goes on.
LEMMA RoomWorked ==
  ASSUME TypeOK, RoomInv, NEW p \in Procs, NEW x \in Sessions, p \in Working(x),
         UNCHANGED <<contended, pended, erased>>,
         \A y \in Sessions \ {x} : status'[y] = status[y] /\ starts'[y] = starts[y] /\ cancels'[y] = cancels[y],
         \A q \in Procs \ {p} : proc'[q] = proc[q],
         proc'[p].pc \in WorkPcs => proc'[p].session = x,
         status'[x] = "pending_confirmation" => x \in pended,
         x \notin Late => AuditAt(x)' /\ WorkerKnows(p, x)'
  PROVE  RoomInv'
<1>1. \A y : /\ Working(y)' \subseteq Working(y)
             /\ \A q \in Working(y)' : q # p => proc'[q] = proc[q]
             /\ y # x => p \notin Working(y)'
  BY DEF Working, WorkPcs
<1>2. OneWorker'
  BY <1>1 DEF RoomInv, OneWorker
<1>3. ASSUME NEW y \in Sessions \ Late, y # x
      PROVE  AuditAt(y)' /\ \A q \in Working(y)' : WorkerKnows(q, y)'
  <2>1. AuditAt(y)'
    BY <1>3 DEF RoomInv, AuditAt
  <2>2. ASSUME NEW q \in Working(y)' PROVE WorkerKnows(q, y)'
    <3>1. proc'[q] = proc[q] /\ WorkerKnows(q, y)
      BY <1>1, <1>3, <2>2 DEF RoomInv
    <3>2. QED
      BY <1>3, <3>1 DEF WorkerKnows
  <2>3. QED
    BY <2>1, <2>2
<1>4. ASSUME x \notin Late
      PROVE  AuditAt(x)' /\ \A q \in Working(x)' : WorkerKnows(q, x)'
  BY <1>1, <1>4 DEF RoomInv, OneWorker, Late
<1>5. \A y \in Sessions : status'[y] = "pending_confirmation" => y \in pended'
  BY DEF RoomInv
<1>6. Late' = Late /\ contended \subseteq Late
  BY DEF Late
<1>7. QED
  BY <1>2, <1>3, <1>4, <1>5, <1>6 DEF RoomInv

\* The first statements of start and cancel, and moves by the promotion.
LEMMA SessionKeeps ==
  ASSUME TypeOK, RoomInv, NEW p \in Procs, SessionStep(p)
  PROVE  RoomInv'
<1>1. PICK x \in Sessions :
        \/ Start(p, x) \/ End(p, x) \/ Cancel(p, x) \/ Propose(p, x) \/ Settle(p, x)
        \/ \E s \in Slots \cup {NoSlot} : SessionCreate(p, x, s)
  BY DEF SessionStep
<1>2. proc[p].pc \notin WorkPcs
  <2>1. proc[p] = Idle
    BY <1>1 DEF Start, End, Cancel, Propose, Settle, SessionCreate, Begin
  <2>2. QED
    BY <2>1, IdleRuns DEF WorkPcs
<1>3. \A q \in Procs \ {p} : proc'[q] = proc[q]
  BY RoomAfter DEF RoomStep
<1>4. status \in [Sessions -> SessionStatus \cup {"none", "deleted"}]
  BY DEF TypeOK
<1>5. UNCHANGED erased
  BY NothingRemoved DEF RoomStep
<1>6. CASE Start(p, x)
  <2>1. UNCHANGED <<status, starts, cancels, pended>> /\ Touch({x}) /\ status[x] = "scheduled"
    BY <1>6 DEF Start
  <2>2. proc'[p] = [pc |-> "start", session |-> x]
    BY <1>6 DEF Start, Begin, Become, TypeOK
  <2>3. proc'[p].pc = "start" /\ proc'[p].session = x
    BY <2>2
  <2>4. WorkerKnows(p, x)'
    BY <2>1, <2>3 DEF WorkerKnows
  <2>5. QED
    BY <1>2, <1>3, <1>5, <2>1, <2>3, <2>4, RoomTaken
<1>7. CASE Cancel(p, x)
  <2>1. /\ UNCHANGED <<status, starts, cancels, pended>> /\ Touch({x})
        /\ status[x] \in {"pending_confirmation", "scheduled"}
    BY <1>7 DEF Cancel
  <2>2. proc'[p] = [pc |-> "erase", session |-> x]
    BY <1>7 DEF Cancel, Begin, Become, TypeOK
  <2>3. proc'[p].pc = "erase" /\ proc'[p].session = x
    BY <2>2
  <2>4. WorkerKnows(p, x)'
    BY <2>1, <2>3 DEF WorkerKnows
  <2>5. status[x] = "pending_confirmation" => x \in pended
    BY DEF RoomInv
  <2>6. QED
    BY <1>2, <1>3, <1>5, <2>1, <2>3, <2>4, <2>5, RoomTaken
<1>8. CASE Propose(p, x) \/ Settle(p, x)
  <2>1. /\ UNCHANGED <<starts, cancels>> /\ pended \subseteq pended' /\ Touch({x})
        /\ status[x] \in {"pending_confirmation", "scheduled"}
        /\ Begin(p, Idle)
    BY <1>8 DEF Propose, Settle
  <2>2. PICK s : status' = [status EXCEPT ![x] = s] /\ (s = "pending_confirmation" => x \in pended')
    BY <1>8 DEF Propose, Settle, SetStatus
  <2>3. status'[x] = s /\ \A y \in Sessions \ {x} : status'[y] = status[y]
    BY <1>4, <2>2
  <2>4. proc'[p].pc = "idle"
    BY <2>1, TypeIs, BeginType, IdleRuns
  <2>5. QED
    BY <1>2, <1>3, <1>5, <2>1, <2>2, <2>3, <2>4, RoomTaken DEF WorkPcs
<1>9. CASE End(p, x) \/ \E s \in Slots \cup {NoSlot} : SessionCreate(p, x, s)
  <2>1. UNCHANGED <<starts, cancels, contended, pended>> /\ Begin(p, Idle)
    BY <1>9 DEF End, SessionCreate
  <2>2. proc'[p].pc = "idle"
    BY <2>1, TypeIs, BeginType, IdleRuns
  <2>3. \A y \in Sessions : \/ status'[y] = status[y]
                            \/ status[y] = "none" /\ status'[y] = "scheduled"
                            \/ status[y] = "live" /\ status'[y] = "completed"
    <3>1. PICK v : /\ status' = [status EXCEPT ![x] = v]
                   /\ \/ status[x] = "none" /\ v = "scheduled"
                      \/ status[x] = "live" /\ v = "completed"
      BY <1>9 DEF End, SessionCreate, SetStatus
    <3>2. status'[x] = v /\ \A y \in Sessions \ {x} : status'[y] = status[y]
      BY <1>4, <3>1
    <3>3. QED
      BY <3>1, <3>2
  <2>4. QED
    BY <1>3, <1>5, <2>1, <2>2, <2>3, RoomQuiet DEF WorkPcs
<1>10. QED
  BY <1>1, <1>6, <1>7, <1>8, <1>9

\* The next statements of start and cancel.
LEMMA WorkKeeps ==
  ASSUME TypeOK, RoomInv, NEW p \in Procs, WorkStep(p)
  PROVE  RoomInv'
<1>1. proc[p].pc \in WorkPcs
  BY DEF WorkStep, StartUpdate, StartAudit, CancelErase, CancelUpdate, CancelAudit, WorkPcs
<1>2. PICK x \in Sessions : x = proc[p].session
  BY <1>1, TypeIs, WorkHas
<1>3. p \in Working(x)
  BY <1>1, <1>2, WorkingIs
<1>4. \A q \in Procs \ {p} : proc'[q] = proc[q]
  BY RoomAfter DEF RoomStep
<1>5. UNCHANGED <<contended, pended, erased>>
  BY NothingRemoved DEF RoomStep, WorkStep, StartUpdate, StartAudit, CancelErase, CancelUpdate, CancelAudit
<1>6. x \notin Late => AuditAt(x) /\ WorkerKnows(p, x)
  BY <1>3 DEF RoomInv
<1>7. status[x] = "pending_confirmation" => x \in pended
  BY DEF RoomInv
<1>8. /\ status \in [Sessions -> SessionStatus \cup {"none", "deleted"}]
      /\ starts \in [Sessions -> Nat] /\ cancels \in [Sessions -> Nat]
  BY DEF TypeOK
<1>9. \A pc \in WorkPcs : Go(p, [proc[p] EXCEPT !.pc = pc]) => proc'[p].pc = pc /\ proc'[p].session = x
  <2>1. ASSUME NEW pc \in WorkPcs, Go(p, [proc[p] EXCEPT !.pc = pc])
        PROVE  proc'[p].pc = pc /\ proc'[p].session = x
    <3>1. PICK state \in Runs : state = [proc[p] EXCEPT !.pc = pc] /\ state.pc = pc /\ state.session = x
      BY <1>1, <1>2, TypeIs, WorkHas
    <3>2. proc'[p] = state
      BY <2>1, <3>1, TypeIs, GoType
    <3>3. QED
      BY <3>1, <3>2
  <2>2. QED
    BY <2>1
<1>10. Go(p, Idle) => proc'[p].pc = "idle"
  BY TypeIs, GoType, IdleRuns
<1>11. CASE StartUpdate(p)
  <2>1. /\ proc[p].pc = "start" /\ UNCHANGED <<starts, cancels>>
        /\ Go(p, [proc[p] EXCEPT !.pc = "start audit"])
        /\ IF status[x] = "scheduled" THEN status' = [status EXCEPT ![x] = "live"] ELSE UNCHANGED status
    BY <1>2, <1>11 DEF StartUpdate, SetStatus
  <2>2. proc'[p].pc = "start audit" /\ proc'[p].session = x
    BY <1>9, <2>1 DEF WorkPcs
  <2>3. status'[x] # "pending_confirmation" \/ status'[x] = status[x]
    BY <1>8, <2>1
  <2>4. \A y \in Sessions \ {x} : status'[y] = status[y]
    BY <1>8, <2>1
  <2>5. ASSUME x \notin Late PROVE AuditAt(x)' /\ WorkerKnows(p, x)'
    <3>1. status[x] = "scheduled" /\ status'[x] = "live"
      BY <1>6, <1>8, <2>1, <2>5 DEF WorkerKnows
    <3>2. starts[x] = 0 /\ (cancels[x] > 0 => x \in pended)
      BY <1>6, <1>8, <2>5, <3>1 DEF AuditAt
    <3>3. AuditAt(x)'
      BY <1>5, <2>1, <3>2, AuditIs
    <3>4. WorkerKnows(p, x)'
      BY <2>1, <2>2, <3>1, <3>2 DEF WorkerKnows
    <3>5. QED
      BY <3>3, <3>4
  <2>6. QED
    BY <1>3, <1>4, <1>5, <1>7, <2>1, <2>2, <2>3, <2>4, <2>5, RoomWorked
<1>12. CASE StartAudit(p)
  <2>1. /\ proc[p].pc = "start audit" /\ UNCHANGED <<status, cancels>> /\ Go(p, Idle)
        /\ starts' = [starts EXCEPT ![x] = starts[x] + 1]
    BY <1>2, <1>12 DEF StartAudit
  <2>2. proc'[p].pc = "idle"
    BY <1>10, <2>1
  <2>3. starts'[x] = starts[x] + 1 /\ \A y \in Sessions \ {x} : starts'[y] = starts[y]
    BY <1>8, <2>1
  <2>4. ASSUME x \notin Late PROVE AuditAt(x)' /\ WorkerKnows(p, x)'
    <3>1. status[x] \in {"live", "completed"} /\ starts[x] = 0
      BY <1>6, <2>1, <2>4 DEF WorkerKnows
    <3>2. starts'[x] = 1
      <4>1. starts[x] = 0 /\ starts'[x] = starts[x] + 1
        BY <2>3, <3>1
      <4>2. QED
        BY <4>1
    <3>3. cancels[x] > 0 => status[x] = "cancelled" \/ x \in pended
      BY <1>6, <2>4 DEF AuditAt
    <3>4. AuditAt(x)'
      BY <1>5, <2>1, <3>1, <3>2, <3>3, AuditIs
    <3>5. QED
      BY <2>2, <3>4 DEF WorkerKnows
  <2>5. QED
    BY <1>3, <1>4, <1>5, <1>7, <2>1, <2>2, <2>3, <2>4, RoomWorked DEF WorkPcs
<1>13. CASE CancelErase(p)
  <2>1. /\ proc[p].pc = "erase" /\ UNCHANGED <<status, starts, cancels>>
        /\ Go(p, [proc[p] EXCEPT !.pc = "cancel"])
    BY <1>13 DEF CancelErase
  <2>2. proc'[p].pc = "cancel" /\ proc'[p].session = x
    BY <1>9, <2>1 DEF WorkPcs
  <2>3. ASSUME x \notin Late PROVE AuditAt(x)' /\ WorkerKnows(p, x)'
    <3>1. AuditAt(x)'
      BY <1>5, <1>6, <2>1, <2>3 DEF AuditAt
    <3>2. WorkerKnows(p, x)'
      BY <1>6, <2>1, <2>2, <2>3 DEF WorkerKnows
    <3>3. QED
      BY <3>1, <3>2
  <2>4. QED
    BY <1>3, <1>4, <1>5, <1>7, <2>1, <2>2, <2>3, RoomWorked
<1>14. CASE CancelUpdate(p)
  <2>1. /\ proc[p].pc = "cancel" /\ UNCHANGED <<starts, cancels>>
        /\ Go(p, [proc[p] EXCEPT !.pc = "cancel audit"])
        /\ IF status[x] = "scheduled" THEN status' = [status EXCEPT ![x] = "cancelled"] ELSE UNCHANGED status
    BY <1>2, <1>14 DEF CancelUpdate, SetStatus
  <2>2. proc'[p].pc = "cancel audit" /\ proc'[p].session = x
    BY <1>9, <2>1 DEF WorkPcs
  <2>3. status'[x] = "cancelled" \/ (status'[x] = status[x] /\ status[x] # "scheduled")
    BY <1>8, <2>1
  <2>4. \A y \in Sessions \ {x} : status'[y] = status[y]
    BY <1>8, <2>1
  <2>5. ASSUME x \notin Late PROVE AuditAt(x)' /\ WorkerKnows(p, x)'
    <3>1. status[x] \in {"pending_confirmation", "scheduled"}
      BY <1>6, <2>1, <2>5 DEF WorkerKnows
    <3>2. starts[x] = 0 /\ (cancels[x] > 0 => x \in pended)
      BY <1>6, <1>8, <2>5, <3>1 DEF AuditAt
    <3>3. AuditAt(x)'
      BY <1>5, <2>1, <3>2, AuditIs
    <3>4. WorkerKnows(p, x)'
      BY <1>5, <1>7, <2>2, <2>3, <3>1 DEF WorkerKnows
    <3>5. QED
      BY <3>3, <3>4
  <2>6. QED
    BY <1>3, <1>4, <1>5, <1>7, <2>1, <2>2, <2>3, <2>4, <2>5, RoomWorked
<1>15. CASE CancelAudit(p)
  <2>1. /\ proc[p].pc = "cancel audit" /\ UNCHANGED <<status, starts>> /\ Go(p, Idle)
        /\ cancels' = [cancels EXCEPT ![x] = cancels[x] + 1]
    BY <1>2, <1>15 DEF CancelAudit
  <2>2. proc'[p].pc = "idle"
    BY <1>10, <2>1
  <2>3. \A y \in Sessions \ {x} : cancels'[y] = cancels[y]
    BY <1>8, <2>1
  <2>4. ASSUME x \notin Late PROVE AuditAt(x)' /\ WorkerKnows(p, x)'
    <3>1. status[x] = "cancelled" \/ x \in pended
      BY <1>6, <2>1, <2>4 DEF WorkerKnows
    <3>2. AuditAt(x)'
      BY <1>5, <1>6, <2>1, <2>4, <3>1 DEF AuditAt
    <3>3. QED
      BY <2>2, <3>2 DEF WorkerKnows
  <2>5. QED
    BY <1>3, <1>4, <1>5, <1>7, <2>1, <2>2, <2>3, <2>4, RoomWorked DEF WorkPcs
<1>16. QED
  BY <1>11, <1>12, <1>13, <1>14, <1>15 DEF WorkStep

\* The timetable makes sessions, and deletes scheduled ones.
LEMMA TimetableKeeps ==
  ASSUME TypeOK, RoomInv, NEW p \in Procs, TimetableStep(p)
  PROVE  RoomInv'
<1>1. proc'[p].pc = "idle" /\ \A q \in Procs \ {p} : proc'[q] = proc[q]
  BY TimetableAfter
<1>2. CASE \E s \in Slots : TimetableInsert(p, s)
  <2>1. PICK new : status' = [x \in Sessions |-> IF x \in new THEN "scheduled" ELSE status[x]]
                   /\ \A x \in new : status[x] = "none"
    BY <1>2 DEF TimetableInsert
  <2>2. \A x \in Sessions : \/ status'[x] = status[x]
                            \/ status[x] = "none" /\ status'[x] = "scheduled"
                            \/ status[x] = "live" /\ status'[x] = "completed"
    BY <2>1
  <2>3. UNCHANGED <<starts, cancels, contended, pended, erased>>
    BY <1>2, NothingRemoved DEF TimetableInsert
  <2>4. QED
    BY <1>1, <2>2, <2>3, RoomQuiet DEF WorkPcs
<1>3. CASE \E s \in Slots : TimetableRemove(p, s)
  <2>1. PICK s \in Slots : TimetableRemove(p, s)
    BY <1>3
  <2>2. PICK old \in SUBSET Sessions :
          /\ \A x \in old : status[x] = "scheduled"
          /\ status' = [x \in Sessions |-> IF x \in old THEN "deleted" ELSE status[x]]
          /\ Touch(old)
    BY <2>1 DEF TimetableRemove
  <2>3. UNCHANGED <<starts, cancels, pended, erased>>
    BY <2>1, NothingRemoved DEF TimetableRemove
  <2>4. \A x \in Sessions \ old : status'[x] = status[x]
    BY <2>2
  <2>5. \A x \in old : status[x] \in {"pending_confirmation", "scheduled"}
                       /\ (status'[x] = "pending_confirmation" => x \in pended')
    BY <2>2
  <2>6. proc[p].pc \notin WorkPcs
    <3>1. proc[p] = Idle
      BY <2>1 DEF TimetableRemove, SlotRemove, Begin
    <3>2. QED
      BY <3>1, IdleRuns DEF WorkPcs
  <2>7. \A x : proc'[p].pc \in WorkPcs /\ proc'[p].session = x => x \in old /\ WorkerKnows(p, x)'
    BY <1>1 DEF WorkPcs
  <2>8. QED
    BY <1>1, <2>2, <2>3, <2>4, <2>5, <2>6, <2>7, RoomTaken
<1>4. QED
  BY <1>2, <1>3 DEF TimetableStep

\* Submissions do not move sessions.
LEMMA EnterKeeps ==
  ASSUME TypeOK, RoomInv, NEW p \in Procs, EnterStep(p)
  PROVE  RoomInv'
<1>1. Requests
  BY TypeIs
<1>2. UNCHANGED <<status, starts, cancels, contended, pended, erased>>
  BY NothingRemoved DEF RoomStep, EnterStep, Enter, Upsert, EnterCommit, EnterAbort, room
<1>3. BeginsAt(p, {"mark", "idle"})
  <2>1. ASSUME NEW x \in Sheets, NEW m \in Marks, NEW listed \in SUBSET Students, Enter(p, x, m, listed)
        PROVE  BeginsAt(p, {"mark", "idle"})
    <3>1. [pc |-> "mark", sheet |-> x, mark |-> m, todo |-> listed, done |-> {}] \in Runs
      BY DEF Runs, RoomRun
    <3>2. QED
      BY <2>1, <3>1 DEF Enter, BeginsAt
  <2>2. ASSUME NEW st \in Students, Upsert(p, st) PROVE BeginsAt(p, {"mark", "idle"})
    <3>1. PICK state \in Runs : Go(p, state) /\ state.pc = "mark"
      BY <1>1, <2>2, MarkHas DEF Upsert
    <3>2. QED
      BY <3>1 DEF BeginsAt
  <2>3. CASE EnterCommit(p) \/ EnterAbort(p)
    BY <2>3, IdleRuns DEF EnterCommit, EnterAbort, BeginsAt
  <2>4. QED
    BY <2>1, <2>2, <2>3 DEF EnterStep
<1>4. proc'[p].pc \in {"mark", "idle"} /\ \A q \in Procs \ {p} : proc'[q] = proc[q]
  BY <1>1, <1>3, BeginsIs
<1>5. \A q \in Procs : proc'[q] = proc[q] \/ proc'[q].pc \notin WorkPcs
  BY <1>4 DEF WorkPcs
<1>6. QED
  BY <1>2, <1>5, RoomQuiet

\* Deletions take sessions, which are then left out.
LEMMA RemoveKeeps ==
  ASSUME TypeOK, RoomInv, NEW p \in Procs, RemoveStep(p)
  PROVE  RoomInv'
<1>1. proc'[p].pc = "idle" /\ \A q \in Procs \ {p} : proc'[q] = proc[q]
  BY TimetableAfter
<1>2. \A q \in Procs : proc'[q] = proc[q] \/ proc'[q].pc \notin WorkPcs
  BY <1>1 DEF WorkPcs
<1>3. CASE \E st \in Students : StudentRemove(p, st)
  <2>1. UNCHANGED <<status, starts, cancels, contended, pended, erased>>
    BY <1>3 DEF StudentRemove
  <2>2. QED
    BY <1>2, <2>1, RoomQuiet
<1>4. ASSUME NEW old \in SUBSET Slots, NEW sheets \in SUBSET Sheets, TeachingRemove(p, old, sheets)
      PROVE  RoomInv'
  <2>1. /\ UNCHANGED <<starts, cancels, pended>> /\ Touch(sheets \cap Sessions)
        /\ status' = [x \in Sessions |-> IF x \in sheets THEN "deleted" ELSE status[x]]
        /\ erased' = erased \cup sheets
    BY <1>4 DEF TeachingRemove
  <2>2. contended \subseteq contended' /\ Late \subseteq Late' /\ sheets \subseteq Late'
    BY <2>1 DEF Touch, Late
  <2>3. \A x : Working(x)' \subseteq Working(x) /\ \A q \in Working(x)' : proc'[q] = proc[q]
    BY <1>2 DEF Working, WorkPcs
  <2>4. OneWorker'
    BY <2>2, <2>3 DEF RoomInv, OneWorker
  <2>5. \A x \in Sessions : status'[x] = status[x] \/ (status'[x] = "deleted" /\ x \in Late')
    BY <2>1, <2>2
  <2>6. \A x \in Sessions : status'[x] = "pending_confirmation" => x \in pended'
    BY <2>1, <2>5 DEF RoomInv
  <2>7. ASSUME NEW x \in Sessions \ Late'
        PROVE  AuditAt(x)' /\ \A q \in Working(x)' : WorkerKnows(q, x)'
    <3>1. x \in Sessions \ Late /\ status'[x] = status[x]
      BY <2>1, <2>2
    <3>2. AuditAt(x)'
      BY <2>1, <3>1 DEF RoomInv, AuditAt
    <3>3. ASSUME NEW q \in Working(x)' PROVE WorkerKnows(q, x)'
      <4>1. proc'[q] = proc[q] /\ WorkerKnows(q, x)
        BY <2>3, <3>1, <3>3 DEF RoomInv
      <4>2. QED
        BY <2>1, <3>1, <4>1 DEF WorkerKnows
    <3>4. QED
      BY <3>2, <3>3
  <2>8. QED
    BY <2>4, <2>6, <2>7 DEF RoomInv
<1>5. QED
  BY <1>3, <1>4 DEF RemoveStep

LEMMA RoomInvKept ==
  ASSUME TypeOK, RoomInv, [Next]_vars
  PROVE  RoomInv'
<1>1. ASSUME UNCHANGED room, \A q \in Procs : proc'[q] = proc[q] \/ proc'[q].pc \notin WorkPcs
      PROVE  RoomInv'
  BY <1>1, RoomQuiet DEF room, removed
<1>2. CASE UNCHANGED vars
  BY <1>1, <1>2 DEF vars, room, removed
<1>3. ASSUME NEW p \in Procs, (YearStep(p) \/ SlotStep(p)) /\ UNCHANGED room PROVE RoomInv'
  BY <1>1, <1>3, YearAfter, SlotAfter DEF SlotPcs, WorkPcs
<1>4. ASSUME NEW p \in Procs, Fails(p) PROVE RoomInv'
  BY <1>1, <1>4, TimetableAfter DEF Fails, WorkPcs
<1>5. QED
  BY <1>2, <1>3, <1>4, StepIsOne, TimetableKeeps, WorkKeeps, EnterKeeps, SessionKeeps, RemoveKeeps DEF RoomStep

LEMMA RoomInvInit == Init => RoomInv
<1> SUFFICES ASSUME Init PROVE RoomInv
  OBVIOUS
<1>1. \A x : Working(x) = {}
  BY IdleRuns DEF Init, CalendarInit, Working
<1>2. \A x \in Sessions : starts[x] = 0 /\ cancels[x] = 0 /\ status[x] \in {"none", "scheduled"}
  BY DEF Init
<1>3. \A x \in Sessions : AuditAt(x)
  BY <1>2 DEF AuditAt
<1>4. QED
  BY <1>1, <1>2, <1>3 DEF RoomInv, OneWorker

LEMMA RoomInvAlways == Spec => []RoomInv
<1>1. TypeOK /\ RoomInv /\ [Next]_vars => RoomInv'
  BY RoomInvKept
<1>2. QED
  BY <1>1, RoomInvInit, TypeCorrect, PTL DEF Spec

(* The audit log tells what happened to every session that one request at a *)
(* time has worked on and whose course and class are there.                 *)
THEOREM AuditTrue == Spec => []AuditIsTrue
<1>1. RoomInv => AuditIsTrue
  BY DEF RoomInv, Late, AuditAt, AuditIsTrue
<1>2. QED
  BY <1>1, RoomInvAlways, PTL

-----------------------------------------------------------------------------
(* What is entered.                                                         *)

MarksStay ==
  \A x \in Sessions : status[x] \in {"live", "completed"} =>
    \/ x \in contended' \cup erased'
    \/ \A st \in Students \ gone' : mark[x][st] # NoMark => mark'[x][st] # NoMark

LEMMA MarksStayed ==
  ASSUME TypeOK, RoomInv, [Next]_vars
  PROVE  MarksStay \/ UNCHANGED vars
<1>1. Requests /\ mark \in [Sheets -> [Students -> Marks \cup {NoMark}]]
  BY TypeIs DEF RoomRows
<1>2. ASSUME UNCHANGED mark PROVE MarksStay
  BY <1>2 DEF MarksStay
<1>3. Sessions \subseteq Sheets
  BY DEF Sheets
<1>4. ASSUME NEW p \in Procs, NEW s \in Slots, TimetableRemove(p, s) PROVE MarksStay
  <2>1. PICK old \in SUBSET Sessions :
          /\ \A x \in old : status[x] = "scheduled"
          /\ mark' = [x \in Sheets |-> IF x \in old THEN [st \in Students |-> NoMark] ELSE mark[x]]
    BY <1>4 DEF TimetableRemove
  <2>2. \A x \in Sessions \ old : mark'[x] = mark[x]
    BY <1>3, <2>1
  <2>3. QED
    BY <2>1, <2>2 DEF MarksStay
<1>5. ASSUME NEW p \in Procs, CancelErase(p) PROVE MarksStay
  <2>1. proc[p].pc = "erase" /\ UNCHANGED <<contended, erased>>
    BY <1>5, NothingRemoved DEF RoomStep, WorkStep, CancelErase
  <2>2. PICK x \in Sessions : x = proc[p].session
    BY <1>1, <2>1, WorkHas DEF WorkPcs
  <2>3. \A y \in Sessions \ {x} : mark'[y] = mark[y]
    BY <1>1, <1>3, <1>5, <2>2 DEF CancelErase
  <2>4. x \in Late \/ status[x] \in {"pending_confirmation", "scheduled"}
    <3>1. p \in Working(x)
      BY <2>1, <2>2 DEF Working
    <3>2. QED
      BY <2>1, <3>1 DEF RoomInv, WorkerKnows
  <2>5. QED
    BY <2>1, <2>3, <2>4 DEF MarksStay, Late
<1>6. ASSUME NEW p \in Procs, EnterCommit(p) PROVE MarksStay
  <2>1. PICK m \in Marks : m = proc[p].mark
    BY <1>1, <1>6, MarkHas DEF EnterCommit
  <2>2. PICK sheet, listed : mark' = [mark EXCEPT ![sheet] =
                               [st \in Students |-> IF st \in listed THEN m ELSE mark[sheet][st]]]
    BY <1>6, <2>1 DEF EnterCommit
  <2>3. \A x \in Sheets, st \in Students : mark'[x][st] = mark[x][st] \/ mark'[x][st] = m
    BY <1>1, <2>2
  <2>4. QED
    BY <1>3, <2>1, <2>3, NoMarkNew DEF MarksStay
<1>7. UNCHANGED vars => UNCHANGED mark
  BY DEF vars
<1>8. ASSUME NEW p \in Procs, WorkStep(p) PROVE UNCHANGED mark \/ CancelErase(p)
  BY <1>8 DEF WorkStep, StartUpdate, StartAudit, CancelUpdate, CancelAudit
<1>9. ASSUME NEW p \in Procs, EnterStep(p) PROVE UNCHANGED mark \/ EnterCommit(p)
  BY <1>9 DEF EnterStep, Enter, Upsert, EnterAbort, room
<1>10. ASSUME NEW p \in Procs, SessionStep(p) PROVE UNCHANGED mark
  BY <1>10 DEF SessionStep, Start, End, Cancel, Propose, Settle, SessionCreate
<1>11. ASSUME NEW p \in Procs, TimetableStep(p)
       PROVE  UNCHANGED mark \/ \E s \in Slots : TimetableRemove(p, s)
  BY <1>11 DEF TimetableStep, TimetableInsert
<1>12. ASSUME NEW p \in Procs, Fails(p) PROVE UNCHANGED mark
  BY <1>12 DEF Fails, room
<1>13. ASSUME NEW p \in Procs, NEW st \in Students, StudentRemove(p, st) PROVE MarksStay
  <2>1. gone' = gone \cup {st} /\ mark' = [x \in Sheets |-> [mark[x] EXCEPT ![st] = NoMark]]
    BY <1>13 DEF StudentRemove
  <2>2. \A x \in Sessions, su \in Students \ gone' : mark'[x][su] = mark[x][su]
    BY <1>1, <1>3, <2>1
  <2>3. QED
    BY <2>2 DEF MarksStay
<1>14. ASSUME NEW p \in Procs, NEW old \in SUBSET Slots, NEW sheets \in SUBSET Sheets,
              TeachingRemove(p, old, sheets)
       PROVE  MarksStay
  <2>1. /\ erased' = erased \cup sheets
        /\ mark' = [x \in Sheets |-> IF x \in sheets THEN [st \in Students |-> NoMark] ELSE mark[x]]
    BY <1>14 DEF TeachingRemove
  <2>2. \A x \in Sessions \ sheets : mark'[x] = mark[x]
    BY <1>3, <2>1
  <2>3. QED
    BY <2>1, <2>2 DEF MarksStay
<1>15. QED
  BY <1>2, <1>4, <1>5, <1>6, <1>7, <1>8, <1>9, <1>10, <1>11, <1>12, <1>13, <1>14, StepIsOne
     DEF RoomStep, RemoveStep, room

(* Attendance of a session that has begun goes only with the session, when  *)
(* its course or class is deleted, or with the student, unless a            *)
(* cancellation was under way when it began.                                *)
THEOREM AttendanceStays == Spec => AttendanceKept
<1>1. TypeOK /\ RoomInv /\ [Next]_vars => [MarksStay]_vars
  BY MarksStayed
<1>2. QED
  BY <1>1, TypeCorrect, RoomInvAlways, PTL DEF Spec, AttendanceKept, MarksStay

LEMMA MarksWholeKept ==
  ASSUME TypeOK, MarksWhole, [Next]_vars
  PROVE  MarksWhole'
<1>1. Requests /\ mark \in [Sheets -> [Students -> Marks \cup {NoMark}]]
  BY TypeIs DEF RoomRows
<1>2. ASSUME UNCHANGED <<mark, patchy, gone>> PROVE MarksWhole'
  BY <1>2 DEF MarksWhole
<1>3. ASSUME UNCHANGED <<patchy, gone>>,
             \A x \in Sheets : mark'[x] = mark[x] \/ \A st \in Students : mark'[x][st] = NoMark
      PROVE  MarksWhole'
  BY <1>3 DEF MarksWhole
<1>4. ASSUME NEW p \in Procs, NEW s \in Slots, TimetableRemove(p, s) PROVE MarksWhole'
  <2>1. PICK old : mark' = [x \in Sheets |-> IF x \in old THEN [st \in Students |-> NoMark] ELSE mark[x]]
    BY <1>4 DEF TimetableRemove
  <2>2. UNCHANGED <<patchy, gone>>
    BY <1>4 DEF TimetableRemove, removed
  <2>3. QED
    BY <1>3, <2>1, <2>2
<1>5. ASSUME NEW p \in Procs, CancelErase(p) PROVE MarksWhole'
  <2>1. PICK y : mark' = [mark EXCEPT ![y] = [st \in Students |-> NoMark]]
    BY <1>5 DEF CancelErase
  <2>2. UNCHANGED <<patchy, gone>>
    BY <1>5 DEF CancelErase, removed
  <2>3. QED
    BY <1>1, <1>3, <2>1, <2>2
<1>6. ASSUME NEW p \in Procs, EnterCommit(p) PROVE MarksWhole'
  <2>1. PICK sheet, listed, m :
          /\ mark' = [mark EXCEPT ![sheet] = [st \in Students |-> IF st \in listed THEN m ELSE mark[sheet][st]]]
          /\ patchy' = IF Students \ gone \subseteq listed THEN patchy ELSE patchy \cup {sheet}
          /\ UNCHANGED gone
    BY <1>6 DEF EnterCommit, removed
  <2>2. \A x \in Sheets \ {sheet} : mark'[x] = mark[x]
    BY <1>1, <2>1
  <2>3. CASE Students \ gone \subseteq listed
    <3>1. sheet \in Sheets => \A st \in Students \ gone : mark'[sheet][st] = m
      BY <1>1, <2>1, <2>3
    <3>2. QED
      BY <2>1, <2>2, <2>3, <3>1 DEF MarksWhole
  <2>4. CASE ~(Students \ gone \subseteq listed)
    BY <2>1, <2>2, <2>4 DEF MarksWhole
  <2>5. QED
    BY <2>3, <2>4
<1>7. UNCHANGED vars => UNCHANGED <<mark, patchy, gone>>
  BY DEF vars, removed
<1>8. ASSUME NEW p \in Procs, WorkStep(p) PROVE UNCHANGED <<mark, patchy, gone>> \/ CancelErase(p)
  BY <1>8 DEF WorkStep, StartUpdate, StartAudit, CancelUpdate, CancelAudit, removed
<1>9. ASSUME NEW p \in Procs, EnterStep(p) PROVE UNCHANGED <<mark, patchy, gone>> \/ EnterCommit(p)
  BY <1>9 DEF EnterStep, Enter, Upsert, EnterAbort, room, removed
<1>10. ASSUME NEW p \in Procs, SessionStep(p) PROVE UNCHANGED <<mark, patchy, gone>>
  BY <1>10 DEF SessionStep, Start, End, Cancel, Propose, Settle, SessionCreate, removed
<1>11. ASSUME NEW p \in Procs, TimetableStep(p)
       PROVE  UNCHANGED <<mark, patchy, gone>> \/ \E s \in Slots : TimetableRemove(p, s)
  BY <1>11 DEF TimetableStep, TimetableInsert, removed
<1>12. ASSUME NEW p \in Procs, Fails(p) PROVE UNCHANGED <<mark, patchy, gone>>
  BY <1>12 DEF Fails, room, removed
<1>13. ASSUME NEW p \in Procs, NEW st \in Students, StudentRemove(p, st) PROVE MarksWhole'
  <2>1. /\ gone' = gone \cup {st} /\ UNCHANGED patchy
        /\ mark' = [x \in Sheets |-> [mark[x] EXCEPT ![st] = NoMark]]
    BY <1>13 DEF StudentRemove
  <2>2. \A x \in Sheets, su \in Students \ gone' : mark'[x][su] = mark[x][su] /\ su \notin gone
    BY <1>1, <2>1
  <2>3. QED
    BY <2>1, <2>2 DEF MarksWhole
<1>14. ASSUME NEW p \in Procs, NEW old \in SUBSET Slots, NEW sheets \in SUBSET Sheets,
              TeachingRemove(p, old, sheets)
       PROVE  MarksWhole'
  <2>1. /\ UNCHANGED <<patchy, gone>>
        /\ mark' = [x \in Sheets |-> IF x \in sheets THEN [st \in Students |-> NoMark] ELSE mark[x]]
    BY <1>14 DEF TeachingRemove
  <2>2. QED
    BY <1>3, <2>1
<1>15. QED
  BY <1>2, <1>4, <1>5, <1>6, <1>7, <1>8, <1>9, <1>10, <1>11, <1>12, <1>13, <1>14, StepIsOne
     DEF RoomStep, RemoveStep, room, removed

(* Submissions never mix: all marks of a sheet come from one, if every      *)
(* submission listed everybody.                                             *)
THEOREM SubmissionsWhole == Spec => []MarksWhole
<1>1. Init => MarksWhole
  BY DEF Init, MarksWhole
<1>2. TypeOK /\ MarksWhole /\ [Next]_vars => MarksWhole'
  BY MarksWholeKept
<1>3. QED
  BY <1>1, <1>2, TypeCorrect, PTL DEF Spec

=============================================================================
