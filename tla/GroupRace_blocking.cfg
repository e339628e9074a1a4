SPECIFICATION Spec
CONSTANT Blocking = TRUE
INVARIANTS
  CountsExact
  RunningExact
  SourceInEffect
