SPECIFICATION Spec
CONSTANTS
  c1 = c1
  c2 = c2
  Coders <- MCCoders
  Main = c1
  QueueLen = 4
  CrcSize = 1
  NChan = 2
  NSamplesPerFrame = 2
  TTAFiles <- AllFiles
CHECK_DEADLOCK FALSE
INVARIANTS TypeOK NoDataRace HandoverComplete CodersStopInTime
PROPERTIES WritesFramesInOrder DecmtReturns
