\* Any three requests, two at a time, on two servers, with one failure or restart.
\* Only so many requests are made: the instance may stop.
SPECIFICATION Spec
CONSTANTS
  Users = {u1, u2}
  Roles <- TwoRoles
  Codes <- OneCode
  RolePermissions <- HodReads
  Servers = {s1, s2}
  Procs = {p1, p2}
  MaxCalls = 3
  MaxFaults = 1
  Absent = Absent
INVARIANTS
  TypeOK
  CachedIsCurrent
  RemovedStaysOut
PROPERTIES
  ChangeReplaces
CHECK_DEADLOCK FALSE
