SPECIFICATION Spec
CONSTANTS
  Depth = 4
  MAX_FRAME = 3
  MIN_FRAME = 2
  MaxBytes = 5
  MaxCtl = 1
  MaxToggles = 2
  Packets <- MCPackets
  First <- MCFirst
  CSUM_MAX_FRAME = 72
  FileSets <- MCFileSets
  NameLists <- MCNameLists
  NoVhdl = {2}
  VhdlOf <- MCVhdlOf
  Modules = {1, 2, 3}
  Proofs = 2
  MaxJobs = 2
INVARIANTS
  WireIsReference
  ChecksumAsReference
  GreenMeansAllRan
PROPERTIES
  SafDrains
CHECK_DEADLOCK FALSE
