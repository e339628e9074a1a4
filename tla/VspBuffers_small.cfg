SPECIFICATION Spec
CONSTANTS
  Planes = {1, 2}
  SemiPlanar = {2}
  MaxCommit = 3
  MaxFail = 1
INVARIANTS
  MappingsOwned
  JobsWritten
PROPERTIES
  MappingsFollowLife
  JobsSignalled
CHECK_DEADLOCK FALSE
