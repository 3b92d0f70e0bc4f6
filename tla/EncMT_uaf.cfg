SPECIFICATION Spec
CONSTANTS
  c1 = c1
  c2 = c2
  Coders <- MCCoders2
  Main = c1
  QueueLen = 4
  SampleBytes = 2
  NChan = 2
  NSamplesPerFrame = 1
  SIZE_MAX = 255
  Files <- WholeFiles
INVARIANTS NoUseAfterFree
