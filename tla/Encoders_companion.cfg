SPECIFICATION Spec
CONSTANTS
  Crtcs = {0, 1}
  Socs = {"ext"}
  MaxFail = 0
  MaxClk = 2
INVARIANTS
  CompanionDisabled
CHECK_DEADLOCK FALSE
