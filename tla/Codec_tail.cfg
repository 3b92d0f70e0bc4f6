SPECIFICATION Spec
CONSTANTS
  W = 15
  KMax = 7
  KInit = 1
  UnaryMaxBytes <- MCUnaryMaxBytes
  NCALLS_MAX = 2
  ByteBits = 4
  TTABUF_LEN_DEFAULT = 32
  Jobs <- TailJobs
  DamageAt = {1, 3}
INVARIANT FailsAsDocumented
