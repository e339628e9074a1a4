SPECIFICATION ProbeSpec
CONSTANTS
  MaxFail = 1
INVARIANTS
  OutputsExact
  ClocksKnown
  PipesComplete
  RefsReturned
PROPERTY
  EventuallyBound
CHECK_DEADLOCK FALSE
