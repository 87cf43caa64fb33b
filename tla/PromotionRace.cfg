\* Every interleaving on one slot promotion: two triggers, a lecturer's
\* requests, both jobs on two processes, timetable and session edits, one failure or
\* crash.
\* Slot ids are used once, so an instance runs out of work: it may stop.
CONSTANTS
  Slots = {s1}
  Weeks = {1}
  Triggers = {t1, t2}
  Calls = {c1}
  Kinds = {"confirm", "modify", "reschedule", "cancel"}
  Servers = {p1, p2}
  MaxFaults = 1
  NoSlot = NoSlot
SPECIFICATION Spec
SYMMETRY Symmetry
INVARIANTS TypeOK PendingHasPromotion
PROPERTIES SettledSessionsKept CycleFinal
CHECK_DEADLOCK FALSE
