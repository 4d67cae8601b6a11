CONSTANTS
  Modulus = 16
  NumRegs = 3
  MemSize = 8
  Stages = 3
  MaxCount = 20
  IsSq = TRUE
  Entry = 0
  Alu <- MCAlu
  BranchTaken <- MCBranchTaken
  Instructions <- ControlInstructions
  Programs <- ControlPrograms
  Image <- MCImage
SPECIFICATION Spec
INVARIANTS
  TypeOK
  LockBalance
  OperandsResolved
  NextSlotFree
  NothingEmptyProcessed
  DrainBehindSystem
  StopsAgree
PROPERTIES
  UsesMemory
