SPECIFICATION LiveSpec
CONSTANTS
  Depth = 6
  DstLen = 6
  VlanPos = 7
  MinFrame = 7
  MaxStd = 6
  MaxJumbo = 9
  CntMax = 11
  MaxWire = 13
  LineErrors = {FALSE, TRUE}
INVARIANTS
  FifoFraming
  DeliveredAsCounted
PROPERTY
  EveryFrameCloses
