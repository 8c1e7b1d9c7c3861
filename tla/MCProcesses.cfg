SPECIFICATION Spec
CONSTANTS
  CoreSize = 12
  MaxInt = 127
  Battles <- MCBattles
INVARIANT WithinMaxProcesses
