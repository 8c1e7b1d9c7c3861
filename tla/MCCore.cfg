SPECIFICATION Spec
CONSTANTS
  CoreSize = 12
  MaxInt = 127
  Battles <- MCBattles
INVARIANTS
  TypeOK
  QueueAccounting
  ThreadsUnique
  LossIffFallen
  SomeoneLeft
  TieOnlyByTimeout
  LineUpIntact
  DistanceKept
PROPERTIES
  NoResurrection
  PlaysBattle
  Terminates
