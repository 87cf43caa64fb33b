\* Statements of documented endpoints name what the schema does not have.
SPECIFICATION FairSpec
CONSTANTS
  Replicas = {r1}
  Bases <- ReleasedBase
  NewSchools = {"new school"}
  MaxRetries = 1
  MaxFaults = 0
INVARIANT
  BrokenFit
CHECK_DEADLOCK FALSE
