SPECIFICATION CheckSpec
CONSTANTS
  U32MAX = 160
  U64MAX = 19999
  Sources <- SkippedSources
  RawStat <- MCRawStat
  BuiltFor = {"1ch", "2ch"}
CHECK_DEADLOCK FALSE
PROPERTY SkipsToTheEnd
