CONSTANTS
  MemBytes = 8
  BufSize = 1
  Files <- MCFiles
SPECIFICATION LoaderSpec
PROPERTIES
  StartsProgram
