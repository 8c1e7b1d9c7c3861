SPECIFICATION Spec
CONSTANTS
  CoreSize = 100
  MaxInt = 32767
  Battles <- MCBattles
PROPERTY SelfTies
