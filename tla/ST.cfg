SPECIFICATION STSpec
CONSTANTS
  SampleBytes = 2
  NChan = 2
  NSamplesPerFrame = 2
  SIZE_MAX = 255
  CrcSize = 1
  Files <- PcmFiles
  TTAFiles <- AllTTAFiles
INVARIANTS RejectsOnlyCut DecRejectsOnlyCut
PROPERTIES WritesInputInOrder WritesFramesInOrder
