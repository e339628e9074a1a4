SPECIFICATION Spec
CONSTANTS
  Crtcs = {0, 1}
  Socs = {"simple", "ext", "dsi"}
  MaxFail = 1
  MaxClk = 2
INVARIANTS
  DotClockRuns
  LinksLit
  ClocksBalanced
CHECK_DEADLOCK FALSE
