SPECIFICATION Spec
CONSTANTS
  Planes = {0, 1, 2}
  NumHw = 4
  MaxTouched = 2
INVARIANTS
  NoOverlap
  FreeExact
  AssociationExact
PROPERTIES
  Stable
