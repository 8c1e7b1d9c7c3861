SPECIFICATION Spec
CONSTANTS
  CoreSize = 5
  MaxInt = 63
  Memories <- MCMemories
INVARIANT MovCopiesInstruction
CHECK_DEADLOCK FALSE
