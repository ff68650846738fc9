SPECIFICATION CrossingSpec
CONSTANTS
  Depth = 4
  MCWidth = 3
  MaxWidth = 8
  Word = {w1, w2}
  Garbage = garbage
  Block = TRUE
  Gray <- MCGray
  Bin <- MCBin
  FullCode <- MCFullCode
  Torn <- MCTorn
PROPERTIES
  ImplementsFifo
  NothingStuck
