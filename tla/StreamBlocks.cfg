SPECIFICATION BlocksSpec
CONSTANTS
  TXRX_EN_AT_RESET = FALSE
  MaxBeats = 10
  PreambleLen = 7
  MinFrame = 6
  MaxFrame = 9
  IfgBytes = 12
  StallMax = 7
  MaxLen = 12
  Bubbles = {FALSE, TRUE}
  Depth = 4
  Word = {w1, w2}
  Garbage = garbage
INVARIANTS
  WholeFrames
  WireFrameExact
PROPERTIES
  ValidKept
  SettingApplied
  GapKept
  FrameEnds
  ImplementsQueue
