SPECIFICATION Spec
CONSTANTS
  MCAST_HASH_FILTER = FALSE
  PhyRegs <- MCPhyRegs
  BridgeWrites <- MCWrites
  BridgeReads <- MCReads
  Events <- MCNone
INVARIANTS
  EachAccessAnswered
  MdioReadsOwnResult
  GoNeverLost
  ProcessorWaitsOnce
