SPECIFICATION Spec
CONSTANTS
  NULL = NULL
  UINT8_MAX = 3
  BeforeDot <- MCBeforeDot
  Starts <- AllStarts
  SampleBytes = 2
  NChan = 2
  NSamplesPerFrame = 2
  SIZE_MAX = 255
  HeaderSize = 22
  EntrySize = 4
  SEEKTABLE_INIT_DEFAULT = 512
INVARIANTS TypeOK ChecksBeforeWriting NoSourceLost NoIncompleteLeft CleanReturnMeansCoded
PROPERTIES RemovesOnlyIncomplete
