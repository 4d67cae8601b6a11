CONSTANTS
  ByteValues = 4
  MemBytes = 5
  Accesses <- LoadByteAccesses
  Image <- MCImage
SPECIFICATION Spec
INVARIANTS
  LoadsExtend
