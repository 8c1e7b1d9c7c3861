SPECIFICATION FairSpec
CONSTANTS
  Names <- MCNames
  Sources <- TokenlessLines
  Constants <- DEFAULT_CONSTANTS
  MaxU32 = 1023
  MaxInt = 1048575
PROPERTY AlwaysReturns
