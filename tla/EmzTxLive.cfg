SPECIFICATION LiveSpec
CONSTANTS
  Ring = 1
  Wake = 1
  Wrap = 2
  StallTicks = 2
  Carriers = {TRUE}
  CanFail = {TRUE, FALSE}
PROPERTY
  HaltRecovered
