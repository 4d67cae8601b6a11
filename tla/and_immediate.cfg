CONSTANTS
  Sources <- SwappedSources
  RawWords = {}
  WordBits = 4
SPECIFICATION ObjectSpec
CHECK_DEADLOCK FALSE
INVARIANTS
  ComputesRV32I
