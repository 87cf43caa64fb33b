------------------------------- MODULE Calendar -------------------------------
(***************************************************************************)
(* Academic years and timetable slots of one school: what handlers check   *)
(* or switch off before they write, so that there is one active year and a *)
(* venue is booked once.                                                   *)
(*                                                                         *)
(* Handlers are transactions at READ COMMITTED: each statement sees what   *)
(* had been committed when it began.  Row locks make the later of two      *)
(* transactions wait for, or abort with, the earlier, so its writes are    *)
(* modelled where it commits.  Permissions, time blocks and the existence  *)
(* of venues are left out: a refused call writes nothing.                  *)
(***************************************************************************)
EXTENDS Naturals

CONSTANTS
  Years,      \* ids of academic_years
  Slots,      \* ids of timetable_slots, each used once
  Venues,     \* venues
  NoVenue,    \* a slot without one
  Blocks,     \* <<start, end>>: hours of the week
  NoRow,      \* the id is not used yet
  Gone,       \* the slot is removed
  Procs,      \* concurrent requests
  MaxCalls,   \* how many requests are made in a behaviour
  MaxFaults   \* how many of them fail

ASSUME MaxCallsNat == MaxCalls \in Nat
ASSUME MaxFaultsNat == MaxFaults \in Nat
ASSUME BlocksType == Blocks \subseteq {b \in Nat \X Nat : b[1] < b[2]}

VARIABLES
  year,     \* year[y]: whether the row y is active, or "none"
  slot,     \* slot[s]: venue and block of the row s, NoRow or Gone
  proc,     \* proc[p]: local state of a handler
  calls,    \* requests made so far
  faults,   \* faults so far
  missed,   \* history: years stored while another was being activated
  unseen,   \* history: unseen[p], slots written since p looked at them
  hasty     \* history: pairs of slots that were not checked against each other

calendar == <<year, slot, missed, unseen, hasty>>

-----------------------------------------------------------------------------

Rows == [venue : Venues \cup {NoVenue}, block : Blocks]

Idle == [pc |-> "idle"]

CalendarRun ==
       [pc : {"activate"}, year : Years, new : BOOLEAN, others : SUBSET Years]
  \cup [pc : {"insert slot"}, row : Rows]
  \cup [pc : {"check slot", "write slot"}, slot : Slots, row : Rows]

CalendarTypeOK ==
  /\ year \in [Years -> {"none", "inactive", "active"}]
  /\ slot \in [Slots -> Rows \cup {NoRow, Gone}]
  /\ calls \in 0..MaxCalls
  /\ faults \in 0..MaxFaults
  /\ missed \in SUBSET Years
  /\ unseen \in [Procs -> SUBSET Slots]
  /\ hasty \in SUBSET (SUBSET Slots)

CalendarInit ==
  /\ year \in [Years -> {"none", "inactive", "active"}]
  /\ \A x, y \in Years : year[x] = "active" /\ year[y] = "active" => x = y
  /\ slot = [s \in Slots |-> NoRow]
  /\ proc = [p \in Procs |-> Idle]
  /\ calls = 0 /\ faults = 0
  /\ missed = {}
  /\ unseen = [p \in Procs |-> {}]
  /\ hasty = {}

Booked == {s \in Slots : slot[s] \notin {NoRow, Gone}}

Become(p, state) == proc' = [proc EXCEPT ![p] = state]

Begin(p, state) ==
  /\ proc[p] = Idle
  /\ calls < MaxCalls
  /\ calls' = calls + 1
  /\ Become(p, state)
  /\ UNCHANGED faults

Go(p, state) == Become(p, state) /\ UNCHANGED <<calls, faults>>

-----------------------------------------------------------------------------
(* Academic years: create, and update with isActive.                        *)

Activating(p) == {q \in Procs \ {p} : proc[q].pc = "activate"}

Stored(p, y) == missed' = missed \cup IF Activating(p) = {} THEN {} ELSE {y}

YearCreate(p, y) ==
  /\ year[y] = "none"
  /\ Begin(p, Idle)
  /\ year' = [year EXCEPT ![y] = "inactive"]
  /\ Stored(p, y)
  /\ UNCHANGED <<slot, unseen, hasty>>

\* Mutant: the years that are active already stay active.
DeactivateNone(p, y) ==
  /\ Begin(p, [pc |-> "activate", year |-> y, new |-> year[y] = "none", others |-> {}])
  /\ UNCHANGED calendar

\* deactivateAll sees the rows committed so far.  An update need not know its
\* year: it switches the others off and answers as if it had found one.
YearActivate(p, y) ==
  /\ \E new \in BOOLEAN :
       /\ new => year[y] = "none"
       /\ Begin(p, [pc |-> "activate", year |-> y, new |-> new,
                    others |-> {x \in Years : year[x] # "none" /\ x # y}])
  /\ UNCHANGED calendar

YearCommit(p) ==
  /\ proc[p].pc = "activate"
  /\ LET y == proc[p].year
     IN  /\ proc[p].new => year[y] = "none"
         /\ year' = [x \in Years |-> CASE x \in proc[p].others -> "inactive"
                                       [] x = y /\ (proc[p].new \/ year[y] # "none") -> "active"
                                       [] OTHER -> year[x]]
         /\ IF proc[p].new THEN Stored(p, y) ELSE UNCHANGED missed
  /\ Go(p, Idle)
  /\ UNCHANGED <<slot, unseen, hasty>>

YearDeactivate(p, y) ==
  /\ year[y] = "active"
  /\ Begin(p, Idle)
  /\ year' = [year EXCEPT ![y] = "inactive"]
  /\ UNCHANGED <<slot, missed, unseen, hasty>>

-----------------------------------------------------------------------------
(* Timetable slots: create and update ask for conflicts, the promotion's    *)
(* updateSlotFields does not.                                               *)

\* OVERLAPS on one day, at one venue.
Clash(r, q) ==
  /\ r.venue = q.venue /\ r.venue # NoVenue
  /\ r.block[1] < q.block[2] /\ q.block[1] < r.block[2]

Conflict(r, excluded) == \E s \in Booked \ excluded : Clash(r, slot[s])

\* A slot is written: requests that have looked at the slots do not see it.
WriteSlot(p, s, row) ==
  /\ slot' = [slot EXCEPT ![s] = row]
  /\ unseen' = [q \in Procs |-> IF q = p THEN {} ELSE unseen[q] \cup {s}]
  /\ hasty' = {h \in hasty : s \notin h} \cup {{s, t} : t \in unseen[p] \ {s}}
  /\ UNCHANGED <<year, missed>>

Look(p) == unseen' = [unseen EXCEPT ![p] = {}] /\ UNCHANGED <<year, slot, missed, hasty>>

SlotCreate(p, row) ==
  /\ ~Conflict(row, {})
  /\ Begin(p, [pc |-> "insert slot", row |-> row])
  /\ Look(p)

SlotInsert(p, s) ==
  /\ proc[p].pc = "insert slot"
  /\ slot[s] = NoRow
  /\ WriteSlot(p, s, proc[p].row)
  /\ Go(p, Idle)

\* Mutant: what is left out of the request is left out of the row.
OnlyGiven(r) == {[venue |-> v] : v \in Venues \cup {NoVenue}}

\* What is left out of the request is taken from the row as it was read.
Merged(r) == [venue : {r.venue} \cup Venues \cup {NoVenue}, block : {r.block} \cup Blocks]

SlotUpdate(p, s) ==
  /\ s \in Booked
  /\ \E row \in Merged(slot[s]) : Begin(p, [pc |-> "check slot", slot |-> s, row |-> row])
  /\ UNCHANGED calendar

\* Mutant: the time the slot has had so far decides.
CheckOldRow(p) ==
  /\ proc[p].pc = "check slot"
  /\ LET s == proc[p].slot
     IN  Go(p, IF s \in Booked /\ Conflict(slot[s], {s}) THEN Idle ELSE [proc[p] EXCEPT !.pc = "write slot"])
  /\ Look(p)

SlotCheck(p) ==
  /\ proc[p].pc = "check slot"
  /\ Go(p, IF Conflict(proc[p].row, {proc[p].slot}) THEN Idle ELSE [proc[p] EXCEPT !.pc = "write slot"])
  /\ Look(p)

SlotWrite(p) ==
  /\ proc[p].pc = "write slot"
  /\ IF proc[p].slot \in Booked THEN WriteSlot(p, proc[p].slot, proc[p].row) ELSE UNCHANGED calendar
  /\ Go(p, Idle)

\* updateSlotFields, for a modified promotion: nothing is checked.
SlotModify(p, s) ==
  /\ s \in Booked
  /\ Begin(p, Idle)
  /\ \E row \in Merged(slot[s]) : slot' = [slot EXCEPT ![s] = row]
  /\ unseen' = [q \in Procs |-> unseen[q] \cup {s}]
  /\ hasty' = hasty \cup {{s, t} : t \in Slots \ {s}}
  /\ UNCHANGED <<year, missed>>

SlotRemove(p, s) ==
  /\ s \in Booked
  /\ Begin(p, Idle)
  /\ slot' = [slot EXCEPT ![s] = Gone]
  /\ UNCHANGED <<year, missed, unseen, hasty>>

-----------------------------------------------------------------------------
CalendarStep(p) == YearCommit(p) \/ SlotCheck(p) \/ SlotWrite(p)

CalendarCall(p) ==
  \/ \E y \in Years : YearCreate(p, y) \/ YearActivate(p, y) \/ YearDeactivate(p, y)
  \/ \E row \in Rows : SlotCreate(p, row)
  \/ \E s \in Slots : SlotUpdate(p, s) \/ SlotModify(p, s)

-----------------------------------------------------------------------------
(* Properties.                                                              *)

(* One active year per school, as the comments of the code have it, however *)
(* activations overlap: the exceptions are years that were stored while     *)
(* another was being activated, which that activation does not see.         *)
OneActiveYear ==
  \A x, y \in Years : year[x] = "active" /\ year[y] = "active" => x = y \/ x \in missed \/ y \in missed

(* A venue is booked once at a time, unless the two slots were written      *)
(* without regard to each other: between a check and its write, or by a     *)
(* modified promotion.                                                      *)
NoDoubleBooking ==
  \A s, t \in Booked : s # t /\ Clash(slot[s], slot[t]) => {s, t} \in hasty

=============================================================================
