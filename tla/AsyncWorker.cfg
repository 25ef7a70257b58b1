CONSTANTS
  Engine = "io_uring"
  Depth = 2
  Work <- WorkUring
  Units = 2
  CopyDepth = 0
  IsDirectIO = TRUE
  MaxTransient = 1
  MaxStalls = 1
  MaxRefusals = 2
  MaxFaults = 1
  Teardown = TRUE
SPECIFICATION EitherSpec
INVARIANTS LedgersExact AnswersHonest LibaioSound
PROPERTIES AllAnswered StopEnds
