CONSTANTS
  Sources <- MCSources
  RawWords <- MCRawWords
  WordBits = 4
SPECIFICATION ObjectSpec
CHECK_DEADLOCK FALSE
INVARIANTS
  DecodesAssembled
  RecognizedWellFormed
  ComputesRV32I
  BranchesRV32I
