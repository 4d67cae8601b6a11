CONSTANTS
  Modulus = 16
  NumRegs = 3
  MemSize = 8
  Stages = 5
  MaxCount = 20
  MaxLines = 8
  IsSq = TRUE
  Entry = 0
  Alu <- MCAlu
  BranchTaken <- MCBranchTaken
  Instructions <- FindingInstructions
  Programs <- PointerPrograms
  Image <- MCImage
SPECIFICATION FairTracedSpec
PROPERTIES
  Terminates
