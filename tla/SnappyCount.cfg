\* UncompressAsMuchAsPossible, called with more than the length in front allows.
CONSTANTS
  BlockSize = 64
  MinHashTableSize = 4
  MaxHashTableSize = 32
  MinGrowth = 32
  LONG = 16
  SHORT = 8
  MaxPieces = 2
  Positions = {1, 5}
  Aligns = {0, 3}
  Multipliers = {1, 3}
  Inputs <- MCInputs
  Header <- MCHeader
  Damages <- MCDamages
  Given <- MCOverfull
  Chunks <- MCChunks
SPECIFICATION Spec
CHECK_DEADLOCK FALSE
INVARIANTS
  ReturnsTheBytesAdded
