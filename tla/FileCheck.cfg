SPECIFICATION CheckSpec
CONSTANTS
  U32MAX = 160
  U64MAX = 19999
  Sources <- MCSources
  RawStat <- MCRawStat
  BuiltFor = {"1ch", "2ch"}
CHECK_DEADLOCK FALSE
INVARIANTS ReadsWhatItWrites FindsTheData RefusesUnfinished AcceptedIsCodable
PROPERTIES CheckEnds
