SPECIFICATION Spec
CONSTANTS
  W = 15
  KMax = 7
  KInit = 1
  UnaryMaxBytes <- MCUnaryMaxBytes
  NCALLS_MAX = 2
  ByteBits = 4
  TTABUF_LEN_DEFAULT = 32
  Jobs <- CodecJobs
  DamageAt = {1, 3}
INVARIANTS TypeOK StreamHoldsCodes ChunksAgree WithinBuffers Lossless OneCallDecodes FailsOnlyOnCachedTail GivesUpOnlyOnBursts BuildsAgree
PROPERTIES KeepsPromise FrameEnds
