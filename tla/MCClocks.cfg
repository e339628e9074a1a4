SPECIFICATION MCSpec
CONSTANTS
  Boards <- MCBoards
  Modes <- MCModes
  Devices = {"gen2", "r8a7790", "gen3"}
  Widths <- MCWidths
  Pitches <- MCPitches
INVARIANTS
  DotClockClose
  PllInRange
  TransmitterReady
  TimingsFit
  LinesMatch
CHECK_DEADLOCK FALSE
