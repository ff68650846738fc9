SPECIFICATION Spec
CONSTANTS
  Base = 2
  MaxEvents = 2
  MaxFaults = 2
  ReadTries = 3
  SessionTries = 2
  Full = 8
  Frame = 1
  Margin = 0
  Quanta = {3, 4}
  Speeds <- MCSpeeds
  Stalls = {0, 5}
  Attempts = 2
  LastTap = 5
  Sat = 3
  FOLD = 2
  MaxFrames = 3
  MaxSeq = 5
  MaxHurts = 2
  LbFaults = 1
  Retries = 2
  LbSpeeds = 2
  Ids <- MCIds
  MaxBoots = 2
  MaxLost = 1
  Depth = 1
  ThrSat = 2
  ThrPackets = 2
  MaxDumps = 4
  MaxGarbled = 1
  Recent = 4
  MaxPorts = 5
  MaxPackets = 2
  MaxLoss = 1
INVARIANTS
  ReadTrusted
  ClearIsFresh
  PauseVerdict
  TapIsCentred
  VerdictExplained
  LoopVerdict
  PassIsOneBoot
  OverflowVerdict
  CountsOwnPackets
CHECK_DEADLOCK FALSE
