CONSTANTS
  ByteValues = 4
  MemBytes = 5
  Accesses <- SoundAccesses
  Image <- MCImage
SPECIFICATION Spec
INVARIANTS
  TypeOK
PROPERTIES
  ImplementsBytes
