SPECIFICATION Spec
CONSTANTS
  CoreSize = 5
  MaxInt = 63
  Memories <- MCMemories
INVARIANTS
  OutcomeOK
  PositionIndependent
  OperandsEvaluatedOnce
  CountdownAgrees
  DivisionAgrees
CHECK_DEADLOCK FALSE
