\* Two lecturers' requests against both jobs on two processes, two failures or crashes;
\* the trigger does not overlap the reset.
\* Slot ids are used once, so an instance runs out of work: it may stop.
CONSTANTS
  Slots = {s1}
  Weeks = {1}
  Triggers = {t1}
  Calls = {c1, c2}
  Kinds = {"confirm"}
  Servers = {p1, p2}
  MaxFaults = 2
  NoSlot = NoSlot
SPECIFICATION TriggerApartSpec
SYMMETRY Symmetry
INVARIANTS ClosedIsSettled
CHECK_DEADLOCK FALSE
