SPECIFICATION ParserSpec
CONSTANTS
  Names <- MCParserNames
  Sources = {}
  Files <- MCFiles
  Directives <- MCDirectives
  Remarks <- MCRemarks
  Constants <- DEFAULT_CONSTANTS
  MaxU32 = 1023
  MaxInt = 1048575
  CoreSize = 100
INVARIANTS
  ParserTypeOK
  ParsesToMeaning
  DisplayReadsBack
PROPERTY ParserReturns
