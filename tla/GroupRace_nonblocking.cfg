SPECIFICATION Spec
CONSTANT Blocking = FALSE
INVARIANTS
  CountsExact
