SPECIFICATION Spec
CONSTANTS
  Gens = {2, 3}
  MaxCommit = 5
INVARIANTS
  RefsOwned
  QuietWhenOff
  PlanesOff
  CompleteOnScreen
PROPERTIES
  EventsDelivered
CHECK_DEADLOCK FALSE
