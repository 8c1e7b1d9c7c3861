SPECIFICATION Spec
CONSTANTS
  Names <- MCNames
  Sources <- MCSources
  Constants <- DEFAULT_CONSTANTS
  MaxU32 = 1023
  MaxInt = 1048575
INVARIANTS
  TypeOK
  OffsetCountsLines
  PassedLinesHaveTokens
  ExpandsToMeaning
PROPERTIES
  AddressesKept
  Terminates
