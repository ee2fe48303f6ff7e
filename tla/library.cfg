SPECIFICATION Spec
CONSTANTS
  Size = 4
  Byte = 3
  Ints <- MCInts
INVARIANTS TypeOK MemoryExact LengthExact
