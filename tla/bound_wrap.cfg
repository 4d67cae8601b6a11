CONSTANTS
  ByteValues = 4
  MemBytes = 5
  Accesses <- WrapAccesses
  Image <- MCImage
SPECIFICATION Spec
INVARIANTS
  AccessesInMemory
