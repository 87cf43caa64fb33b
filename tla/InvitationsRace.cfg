SPECIFICATION Spec
CONSTANTS
  Invites = {i1, i2}
  People = {ann, bob}
  Roles = {lecturer}
  Procs = {p1, p2}
  MaxCalls = 5
  MaxFaults = 1
SYMMETRY Symmetry
CHECK_DEADLOCK FALSE
INVARIANTS
  TypeOK
  AcceptedIsRegistered
  ProcessingHasOwner
  RegistersOnce
PROPERTY
  UncontendedLifecycle
