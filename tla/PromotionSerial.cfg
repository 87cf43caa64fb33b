\* Handlers of two processes that do not overlap, two weeks of one slot, two failures
\* or crashes: they implement the life cycle of PromotionLifecycle.
\* Slot ids are used once, so an instance runs out of work: it may stop.
CONSTANTS
  Slots = {s1}
  Weeks = {1, 2}
  Triggers = {t1}
  Calls = {c1}
  Kinds = {"confirm", "modify", "reschedule", "cancel"}
  Servers = {p1, p2}
  MaxFaults = 2
  NoSlot = NoSlot
SPECIFICATION SerialSpec
SYMMETRY Symmetry
INVARIANTS PendingIsAnswerable
PROPERTIES FollowsLifecycle
CHECK_DEADLOCK FALSE
