CONSTANTS
  Modulus = 16
  NumRegs = 3
  MemSize = 8
  Stages = 5
  MaxCount = 40
  IsSq = TRUE
  Entry = 0
  Alu <- MCAlu
  BranchTaken <- MCBranchTaken
  Instructions <- FindingInstructions
  Programs <- LoadUsePrograms
  Image <- MCImage
SPECIFICATION FairSpec
PROPERTIES
  ImplementsISA
