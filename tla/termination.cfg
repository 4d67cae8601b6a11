CONSTANTS
  Modulus = 16
  NumRegs = 3
  MemSize = 8
  Stages = 5
  MaxCount = 80
  MaxLines = 8
  IsSq = FALSE
  Entry = 0
  Alu <- MCAlu
  BranchTaken <- MCBranchTaken
  Instructions <- EndingInstructions
  Programs <- EndingPrograms
  Image <- MCImage
SPECIFICATION FairTracedSpec
INVARIANTS
  CycleAccounting
PROPERTIES
  Terminates
