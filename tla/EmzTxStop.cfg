SPECIFICATION LiveSpec
CONSTANTS
  Ring = 2
  Wake = 1
  Wrap = 4
  StallTicks = 1
  Carriers = {}
  CanFail = {FALSE}
PROPERTIES
  EveryStopIsPaired
