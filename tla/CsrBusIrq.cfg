SPECIFICATION Spec
CONSTANTS
  MCAST_HASH_FILTER = FALSE
  PhyRegs <- MCPhyRegs
  BridgeWrites <- MCAck
  BridgeReads <- MCNone
  Events <- MCTxRx
INVARIANTS EventsStayLatched
