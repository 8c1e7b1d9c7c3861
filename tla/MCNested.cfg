SPECIFICATION Spec
CONSTANTS
  Names <- MCNames
  Sources <- NestedLoops
  Constants <- DEFAULT_CONSTANTS
  MaxU32 = 1023
  MaxInt = 1048575
INVARIANT OffsetsAfterUnroll
