\* Any three requests, two at a time, and one failure.  Only so many requests are
\* made: the instance may stop.
SPECIFICATION Spec
CONSTANTS
  Years = {y1, y2, y3}
  Slots = {t1, t2}
  Venues = {v1}
  NoVenue = NoVenue
  Blocks <- TwoBlocks
  NoRow = NoRow
  Gone = Gone
  Procs = {p1, p2}
  MaxCalls = 3
  MaxFaults = 1
  Sessions = {x1, x2}
  NoSlot = NoSlot
  Gradebook = Gradebook
  Students = {st1, st2}
  Marks = {m1, m2}
  NoMark = NoMark
INVARIANTS
  TypeOK
  OneActiveYear
  NoDoubleBooking
  MarksWhole
  AuditIsTrue
PROPERTIES
  AttendanceKept
SYMMETRY Symmetry
CHECK_DEADLOCK FALSE
