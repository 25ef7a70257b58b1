CONSTANTS
  b1 = b1
  b2 = b2
  Work <- WorkParked
  Window = 2
  CopyDepth = 0
  Buffers <- MCBuffers
  MaxRetries = 0
  MaxFaults = 0
  Teardown = TRUE
SPECIFICATION Spec
INVARIANT SubmitsKnown
