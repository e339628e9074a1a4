SPECIFICATION Spec
CONSTANTS
  Crtcs = {0, 1}
  Tables = {t1, t2}
  NoTable = NoTable
  MaxFail = 1
INVARIANTS
  PowerExact
  LutExact
