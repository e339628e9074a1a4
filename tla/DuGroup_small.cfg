SPECIFICATION Spec
CONSTANTS
  Crtcs = {0, 1}
  Hw = {0, 1, 2}
  VspModes = {TRUE, FALSE}
  TvmSync = TRUE
  InitDptsr = {2}
  MaxFail = 1
INVARIANTS
  TypeOK
  StartCount
  RefCount
  RunningIffUsed
  RestartNotLost
  ActiveDisplays
  FlipNoFlicker
