SPECIFICATION Spec
CONSTANTS
  Ring = 2
  Wake = 1
  Wrap = 4
  StallTicks = 1
  Carriers = {TRUE}
  CanFail = {TRUE, FALSE}
INVARIANTS
  RingConsistent
  RebuildSound
  FullQueueHasWaker
PROPERTY
  FailedSlotNotReused
