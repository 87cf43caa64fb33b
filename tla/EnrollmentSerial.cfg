\* Requests one after the other, any of which may fail, with a student more than
\* a class has seats and a second enrollment request.  Nothing more can happen
\* when the ids and the calls are used up.
CONSTANTS
  Classes = {k1, k2, k3}
  Students = {s1, s2, s3}
  Requests = {r1, r2}
  Procs = {p1}
  NameParts = {"SWE", "A", "B"}
  GivenNames <- Stem
  Caps = {2}
  MaxCalls = 3
  Failures = TRUE
  NoClass = NoClass
  NoCap = NoCap
SPECIFICATION SerialSpec
SYMMETRY Symmetry
INVARIANTS RequestsDecidedOnce
PROPERTIES GroupsAreWhole SeatsAreCounted
CHECK_DEADLOCK FALSE
