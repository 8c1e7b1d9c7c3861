SPECIFICATION MainSpec
CONSTANTS
  CoreSize = 12
  MaxInt = 127
  Rounds = 3
  Battles <- MCTournaments
INVARIANTS
  ScoresAddUp
  RoundsShared
  LoadFailsFirst
  RoundsIndependent
PROPERTY RunsToTheEnd
