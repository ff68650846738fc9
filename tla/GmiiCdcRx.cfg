SPECIFICATION LiveSpec
CONSTANTS
  Depth = 4
  Block = TRUE
  AvailDelay = 2
  PendMax = 7
  MaxFrames = 2
  MaxLen = 2
  LineErrors = {FALSE, TRUE}
  MinGap = 2
  MaxRatio = 1
INVARIANTS
  FramesKeptApart
  FlaggedIffDamaged
PROPERTY
  EveryFrameDrains
