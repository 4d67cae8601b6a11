CONSTANTS
  Modulus = 16
  NumRegs = 3
  MemSize = 8
  Stages = 5
  MaxCount = 80
  MaxLines = 8
  IsSq = TRUE
  Entry = 0
  Alu <- MCAlu
  BranchTaken <- MCBranchTaken
  Instructions <- SafeInstructions
  Programs <- SafePrograms
  Image <- MCImage
SPECIFICATION TracedSpec
PROPERTIES
  ImplementsISA
  TracesISA
