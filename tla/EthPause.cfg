SPECIFICATION LiveSpec
CONSTANTS
  HeaderLen = 2
  MinLen = 4
  TickDiv = 2
  MaxRatio = 1
  MaxCnt = 0
  Strobes = {FALSE, TRUE}
  Errors = {FALSE, TRUE}
INVARIANT
  PauseFullLength
PROPERTIES
  PauseTakesItsOwnFrame
  PauseActsAndEnds
