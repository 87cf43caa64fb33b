\* Three requests of any kind, two at a time, while classes and students are
\* edited and any handler may fail: three classes let one split happen, two
\* students one capacity be reached.  Nothing more can happen at the end.
CONSTANTS
  Classes = {k1, k2, k3}
  Students = {s1, s2}
  Requests = {r1}
  Procs = {p1, p2}
  NameParts = {"SWE", "A", "B"}
  GivenNames <- Stem
  Caps = {2}
  MaxCalls = 3
  Failures = TRUE
  NoClass = NoClass
  NoCap = NoCap
SPECIFICATION Spec
SYMMETRY Symmetry
INVARIANTS TypeOK ParentsAreGroups LogTellsClass ApprovedIsAudited
CHECK_DEADLOCK FALSE
