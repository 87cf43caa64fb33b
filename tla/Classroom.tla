------------------------------- MODULE Classroom ------------------------------
(***************************************************************************)
(* Sessions and what is entered for them: lecturers start, end and cancel  *)
(* sessions, mark attendance and submit grades, while the timetable makes  *)
(* and removes sessions, the promotion moves them, and deletions of        *)
(* students, courses and classes take rows with them by their foreign keys. *)
(*                                                                         *)
(* Starting and cancelling are statements of their own without a           *)
(* transaction: the status is read, written by a guarded UPDATE whose      *)
(* result nobody looks at, and an audit row follows.  Attendance and       *)
(* grades are transactions of one upsert for each student, which hold the  *)
(* row until they end.                                                     *)
(***************************************************************************)
EXTENDS Calendar

CONSTANTS
  Sessions,   \* ids of sessions, each used once
  NoSlot,     \* timetable_slot_id IS NULL
  Gradebook,  \* the grades of one course in one year
  Students,   \* students of the class
  Marks,      \* what a submission enters for all students that it lists
  NoMark      \* there is no row

ASSUME NoMarkNew == NoMark \notin Marks

VARIABLES
  status,     \* status[x]: of the session x, "none" or "deleted"
  link,       \* link[x]: timetable_slot_id
  mark,       \* mark[x][st]: attendance_records and academic_results
  starts,     \* starts[x]: audit_logs rows "session:start"
  cancels,    \* cancels[x]: audit_logs rows "session:cancel"
  contended,  \* history: sessions moved by two requests at a time
  pended,     \* history: sessions that the promotion has put up for confirmation
  patchy,     \* history: sheets with a submission that did not list everybody
  gone,       \* students whose row is deleted
  erased      \* sheets that went with a course or a class

removed == <<gone, erased>>
room == <<status, link, mark, starts, cancels, contended, pended, patchy, removed>>
vars == <<year, slot, proc, calls, faults, missed, unseen, hasty,
          status, link, mark, starts, cancels, contended, pended, patchy, removed>>

-----------------------------------------------------------------------------

Sheets == Sessions \cup {Gradebook}

SessionStatus == {"pending_confirmation", "scheduled", "live", "completed", "cancelled"}

RoomRun ==
       [pc : {"start", "start audit", "erase", "cancel", "cancel audit"}, session : Sessions]
  \cup [pc : {"mark"}, sheet : Sheets, mark : Marks, todo : SUBSET Students, done : SUBSET Students]

(* Every row and every local state is one the program can name.             *)
TypeOK ==
  /\ CalendarTypeOK
  /\ proc \in [Procs -> CalendarRun \cup RoomRun \cup {Idle}]
  /\ status \in [Sessions -> SessionStatus \cup {"none", "deleted"}]
  /\ link \in [Sessions -> Slots \cup {NoSlot}]
  /\ mark \in [Sheets -> [Students -> Marks \cup {NoMark}]]
  /\ starts \in [Sessions -> Nat]
  /\ cancels \in [Sessions -> Nat]
  /\ contended \in SUBSET Sessions
  /\ pended \in SUBSET Sessions
  /\ patchy \in SUBSET Sheets
  /\ gone \in SUBSET Students
  /\ erased \in SUBSET Sheets

\* Some sessions exist, made by hand.
Init ==
  /\ CalendarInit
  /\ status \in [Sessions -> {"none", "scheduled"}]
  /\ link = [x \in Sessions |-> NoSlot]
  /\ mark = [x \in Sheets |-> [st \in Students |-> NoMark]]
  /\ starts = [x \in Sessions |-> 0]
  /\ cancels = [x \in Sessions |-> 0]
  /\ contended = {} /\ pended = {} /\ patchy = {} /\ gone = {} /\ erased = {}

\* Requests that start or cancel x.
Working(x) == {p \in Procs : proc[p].pc \in {"start", "start audit", "erase", "cancel", "cancel audit"} /\ proc[p].session = x}

Touch(xs) == contended' = contended \cup {x \in xs : Working(x) # {}}

SetStatus(x, s) == status' = [status EXCEPT ![x] = s]

-----------------------------------------------------------------------------
(* startSession, endSession, cancelSession.                                 *)

\* Mutant: only the UPDATE asks whether the session is scheduled.
StartUnasked(p, x) ==
  /\ status[x] \in SessionStatus
  /\ Begin(p, [pc |-> "start", session |-> x])
  /\ Touch({x})
  /\ UNCHANGED <<calendar, status, link, mark, starts, cancels, pended, patchy, removed>>

Start(p, x) ==
  /\ status[x] = "scheduled"
  /\ Begin(p, [pc |-> "start", session |-> x])
  /\ Touch({x})
  /\ UNCHANGED <<calendar, status, link, mark, starts, cancels, pended, patchy, removed>>

StartUpdate(p) ==
  /\ proc[p].pc = "start"
  /\ LET x == proc[p].session
     IN  IF status[x] = "scheduled" THEN SetStatus(x, "live") ELSE UNCHANGED status
  /\ Go(p, [proc[p] EXCEPT !.pc = "start audit"])
  /\ UNCHANGED <<calendar, link, mark, starts, cancels, contended, pended, patchy, removed>>

StartAudit(p) ==
  /\ proc[p].pc = "start audit"
  /\ starts' = [starts EXCEPT ![proc[p].session] = @ + 1]
  /\ Go(p, Idle)
  /\ UNCHANGED <<calendar, status, link, mark, cancels, contended, pended, patchy, removed>>

End(p, x) ==
  /\ status[x] = "live"
  /\ Begin(p, Idle)
  /\ SetStatus(x, "completed")
  /\ UNCHANGED <<calendar, link, mark, starts, cancels, contended, pended, patchy, removed>>

Cancel(p, x) ==
  /\ status[x] \in {"pending_confirmation", "scheduled"}
  /\ Begin(p, [pc |-> "erase", session |-> x])
  /\ Touch({x})
  /\ UNCHANGED <<calendar, status, link, mark, starts, cancels, pended, patchy, removed>>

\* Rows of x that a transaction has written and not committed.
Held(x, p) == IF proc[p].pc = "mark" /\ proc[p].sheet = x THEN proc[p].done ELSE {}

\* Mutant: the DELETE does not name the session.
EraseEverything(p) ==
  /\ proc[p].pc = "erase"
  /\ mark' = [x \in Sheets |-> IF x = Gradebook THEN mark[x] ELSE [st \in Students |-> NoMark]]
  /\ Go(p, [proc[p] EXCEPT !.pc = "cancel"])
  /\ UNCHANGED <<calendar, status, link, starts, cancels, contended, pended, patchy, removed>>

\* The DELETE waits for rows that are being written, and does not see new ones.
CancelErase(p) ==
  /\ proc[p].pc = "erase"
  /\ LET x == proc[p].session
     IN  /\ \A q \in Procs : \A st \in Held(x, q) : mark[x][st] = NoMark
         /\ mark' = [mark EXCEPT ![x] = [st \in Students |-> NoMark]]
  /\ Go(p, [proc[p] EXCEPT !.pc = "cancel"])
  /\ UNCHANGED <<calendar, status, link, starts, cancels, contended, pended, patchy, removed>>

\* A session that is not scheduled any more is left as it is, and the request
\* goes on as if it had been cancelled.
CancelUpdate(p) ==
  /\ proc[p].pc = "cancel"
  /\ LET x == proc[p].session
     IN  IF status[x] = "scheduled" THEN SetStatus(x, "cancelled") ELSE UNCHANGED status
  /\ Go(p, [proc[p] EXCEPT !.pc = "cancel audit"])
  /\ UNCHANGED <<calendar, link, mark, starts, cancels, contended, pended, patchy, removed>>

CancelAudit(p) ==
  /\ proc[p].pc = "cancel audit"
  /\ cancels' = [cancels EXCEPT ![proc[p].session] = @ + 1]
  /\ Go(p, Idle)
  /\ UNCHANGED <<calendar, status, link, mark, starts, contended, pended, patchy, removed>>

-----------------------------------------------------------------------------
(* bulkMark and submitGrades: a transaction, an upsert for each student.    *)
(* Whether a session takes place is not asked, only that the rows exist.    *)

Exists(x) == x \in ({Gradebook} \ erased) \cup {y \in Sessions : status[y] \in SessionStatus}

Enter(p, x, m, listed) ==
  /\ listed # {}
  /\ Begin(p, [pc |-> "mark", sheet |-> x, mark |-> m, todo |-> listed, done |-> {}])
  /\ UNCHANGED <<calendar, room>>

\* Mutant: every upsert is committed at once.
UpsertAlone(p, st) ==
  /\ proc[p].pc = "mark" /\ st \in proc[p].todo
  /\ Exists(proc[p].sheet) /\ st \notin gone
  /\ mark' = [mark EXCEPT ![proc[p].sheet][st] = proc[p].mark]
  /\ Go(p, [proc[p] EXCEPT !.todo = @ \ {st}])
  /\ UNCHANGED <<calendar, status, link, starts, cancels, contended, pended, patchy, removed>>

Upsert(p, st) ==
  /\ proc[p].pc = "mark" /\ st \in proc[p].todo
  /\ Exists(proc[p].sheet) /\ st \notin gone
  /\ \A q \in Procs \ {p} : st \notin Held(proc[p].sheet, q)
  /\ Go(p, [proc[p] EXCEPT !.todo = @ \ {st}, !.done = @ \cup {st}])
  /\ UNCHANGED <<calendar, room>>

EnterCommit(p) ==
  /\ proc[p].pc = "mark" /\ proc[p].todo = {}
  /\ LET x == proc[p].sheet
         listed == proc[p].done
     IN  /\ mark' = [mark EXCEPT ![x] = [st \in Students |-> IF st \in listed THEN proc[p].mark ELSE @[st]]]
         /\ patchy' = IF Students \ gone \subseteq listed THEN patchy ELSE patchy \cup {x}
  /\ Go(p, Idle)
  /\ UNCHANGED <<calendar, status, link, starts, cancels, contended, pended, removed>>

\* The session, the course or a student is gone, or the database breaks a deadlock.
EnterAbort(p) ==
  /\ proc[p].pc = "mark"
  /\ LET x == proc[p].sheet
     IN  \/ ~Exists(x) \/ proc[p].todo \cap gone # {}
         \/ \E q \in Procs \ {p} : /\ Held(x, q) \cap proc[p].todo # {}
                                   /\ Held(x, p) \cap proc[q].todo # {}
  /\ Go(p, Idle)
  /\ UNCHANGED <<calendar, room>>

-----------------------------------------------------------------------------
(* Where sessions come from and go to.                                      *)

\* sessions.create
SessionCreate(p, x, s) ==
  /\ status[x] = "none"
  /\ s = NoSlot \/ s \in Booked
  /\ Begin(p, Idle)
  /\ SetStatus(x, "scheduled")
  /\ link' = [link EXCEPT ![x] = s]
  /\ UNCHANGED <<calendar, mark, starts, cancels, contended, pended, patchy, removed>>

\* timetable.create: with the slot, a session for each of its days in the year.
TimetableInsert(p, s) ==
  /\ SlotInsert(p, s)
  /\ \E new \in SUBSET {x \in Sessions : status[x] = "none"} :
       /\ status' = [x \in Sessions |-> IF x \in new THEN "scheduled" ELSE status[x]]
       /\ link' = [x \in Sessions |-> IF x \in new THEN s ELSE link[x]]
  /\ UNCHANGED <<mark, starts, cancels, contended, pended, patchy, removed>>

\* timetable.remove: scheduled sessions from today on are deleted, with their
\* attendance; the others lose the link.  The DELETE waits for attendance that
\* is being written.
TimetableRemove(p, s) ==
  /\ SlotRemove(p, s)
  /\ \E old \in SUBSET {x \in Sessions : link[x] = s /\ status[x] = "scheduled"} :
       /\ \A x \in old, q \in Procs : Held(x, q) = {}
       /\ status' = [x \in Sessions |-> IF x \in old THEN "deleted" ELSE status[x]]
       /\ mark' = [x \in Sheets |-> IF x \in old THEN [st \in Students |-> NoMark] ELSE mark[x]]
       /\ Touch(old)
  /\ link' = [x \in Sessions |-> IF link[x] = s THEN NoSlot ELSE link[x]]
  /\ UNCHANGED <<starts, cancels, pended, patchy, removed>>

\* students.remove: the attendance and the grades of st go with the row.  Here and
\* below the DELETE waits for rows that are being written.
StudentRemove(p, st) ==
  /\ Begin(p, Idle)
  /\ st \notin gone
  /\ \A x \in Sheets, q \in Procs : st \notin Held(x, q)
  /\ gone' = gone \cup {st}
  /\ mark' = [x \in Sheets |-> [mark[x] EXCEPT ![st] = NoMark]]
  /\ UNCHANGED <<calendar, status, link, starts, cancels, contended, pended, patchy, erased>>

\* courses.delete, classes.delete: the course assignments go, with their slots
\* and sessions, whatever their status, and the attendance; with a course the
\* grades go too.  Which assignment a slot or a session is of is left open.
TeachingRemove(p, old, sheets) ==
  /\ Begin(p, Idle)
  /\ old \subseteq Booked /\ old \cup sheets # {}
  /\ \A x \in sheets : Exists(x) /\ \A q \in Procs : Held(x, q) = {}
  /\ slot' = [s \in Slots |-> IF s \in old THEN Gone ELSE slot[s]]
  /\ status' = [x \in Sessions |-> IF x \in sheets THEN "deleted" ELSE status[x]]
  /\ link' = [x \in Sessions |-> IF link[x] \in old THEN NoSlot ELSE link[x]]
  /\ mark' = [x \in Sheets |-> IF x \in sheets THEN [st \in Students |-> NoMark] ELSE mark[x]]
  /\ erased' = erased \cup sheets
  /\ Touch(sheets \cap Sessions)
  /\ UNCHANGED <<year, missed, unseen, hasty, starts, cancels, pended, patchy, gone>>

\* SessionsPublicService, for the promotion.
Propose(p, x) ==
  /\ status[x] = "scheduled" /\ link[x] # NoSlot
  /\ Begin(p, Idle)
  /\ SetStatus(x, "pending_confirmation")
  /\ pended' = pended \cup {x}
  /\ Touch({x})
  /\ UNCHANGED <<calendar, link, mark, starts, cancels, patchy, removed>>

Settle(p, x) ==
  /\ \/ status[x] = "pending_confirmation" /\ SetStatus(x, "scheduled")
     \/ status[x] \in {"pending_confirmation", "scheduled"} /\ SetStatus(x, "cancelled")
  /\ Begin(p, Idle)
  /\ Touch({x})
  /\ UNCHANGED <<calendar, link, mark, starts, cancels, pended, patchy, removed>>

\* A statement fails: what was not committed is undone.
Fails(p) ==
  /\ proc[p] # Idle /\ faults < MaxFaults
  /\ faults' = faults + 1
  /\ Become(p, Idle)
  /\ UNCHANGED <<calendar, room, calls>>

-----------------------------------------------------------------------------
Step(p) ==
  \/ CalendarStep(p) /\ UNCHANGED room
  \/ \E s \in Slots : TimetableInsert(p, s)
  \/ StartUpdate(p) \/ StartAudit(p)
  \/ CancelErase(p) \/ CancelUpdate(p) \/ CancelAudit(p)
  \/ \E st \in Students : Upsert(p, st)
  \/ EnterCommit(p) \/ EnterAbort(p)

Call(p) ==
  \/ CalendarCall(p) /\ UNCHANGED room
  \/ \E s \in Slots : TimetableRemove(p, s)
  \/ \E st \in Students : StudentRemove(p, st)
  \/ \E old \in SUBSET Slots, sheets \in SUBSET Sheets : TeachingRemove(p, old, sheets)
  \/ \E x \in Sessions :
       \/ Start(p, x) \/ End(p, x) \/ Cancel(p, x) \/ Propose(p, x) \/ Settle(p, x)
       \/ \E s \in Slots \cup {NoSlot} : SessionCreate(p, x, s)
  \/ \E x \in Sheets, m \in Marks, listed \in SUBSET Students : Enter(p, x, m, listed)

Next ==
  \E p \in Procs :
    \/ proc[p] = Idle /\ calls < MaxCalls /\ Call(p)
    \/ proc[p] # Idle /\ (Step(p) \/ Fails(p))

Spec == Init /\ [][Next]_vars

-----------------------------------------------------------------------------
(* Properties.                                                              *)

(* Two submissions for one class never mix: whatever order they list the    *)
(* students in, whichever the database aborts and whatever is deleted, all  *)
(* marks of a sheet come from one submission, if every submission listed    *)
(* everybody.                                                               *)
MarksWhole ==
  \A x \in Sheets \ patchy : \A st, su \in Students \ gone : mark[x][st] = mark[x][su]

(* Attendance of a session that has begun goes only with the session, when  *)
(* its course or class is deleted, or with the student, unless a            *)
(* cancellation was under way when it began: cancelSession erases before it *)
(* looks again.                                                             *)
AttendanceKept ==
  [][\A x \in Sessions : status[x] \in {"live", "completed"} =>
       \/ x \in contended' \cup erased'
       \/ \A st \in Students \ gone' : mark[x][st] # NoMark => mark'[x][st] # NoMark]_vars

(* The audit log tells what happened to a session that one request at a     *)
(* time works on and whose course and class are there: it was started at    *)
(* most once and has begun, or it is cancelled.  (Cancelling a session that *)
(* waits for confirmation is audited and does nothing.)                     *)
AuditIsTrue ==
  \A x \in Sessions \ (contended \cup erased) :
    /\ starts[x] <= 1
    /\ starts[x] > 0 => status[x] \in {"live", "completed"}
    /\ cancels[x] > 0 => status[x] = "cancelled" \/ x \in pended

=============================================================================
