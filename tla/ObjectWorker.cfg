CONSTANTS
  b1 = b1
  Work <- WorkParked
  Window = 1
  CopyDepth = 0
  Buffers <- MCBuffers
  MaxRetries = 0
  MaxFaults = 1
  Teardown = TRUE
SPECIFICATION EitherSpec
INVARIANTS LedgersExact AnswersHonest WorkIsLive ExitsQuiet
PROPERTIES AllAnswered StopEnds
