\* Two containers race from every kind of database a release may find, with one
\* crash, outage or revert; requests and the seed script create a school each.
\* Containers that serve have no further step of their own, so that the system
\* may stop.
SPECIFICATION FairSpec
CONSTANTS
  Replicas = {r1, r2}
  Bases <- AllBases
  NewSchools = {"a school"}
  Stages <- AllStages
  MaxRetries = 2
  MaxFaults = 1
INVARIANTS
  TypeOK
  ServingMigrated
  ServingFits
  SeedsConsistent
PROPERTY
  EventuallyServing
CHECK_DEADLOCK FALSE
