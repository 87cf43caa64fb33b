\* Both jobs of two processes are fair: cycles close and reset slots are deleted, one
\* failure or crash.
\* Slot ids are used once, so an instance runs out of work: it may stop.
CONSTANTS
  Slots = {s1}
  Weeks = {1}
  Triggers = {t1}
  Calls = {c1}
  Kinds = {"confirm"}
  Servers = {p1, p2}
  MaxFaults = 1
  NoSlot = NoSlot
SPECIFICATION FairSpec
PROPERTIES EveryCycleCloses ResetSlotsLeave
CHECK_DEADLOCK FALSE
