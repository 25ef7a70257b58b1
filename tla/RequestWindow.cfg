SPECIFICATION Spec
CONSTANTS
  Ranges <- CrossingRanges
  BufferSize = 2
  Depth = 2
  Modes <- Asked
  MaxStreams = 2
  MaxSessions = 2
  MaxBuffers = 8
  Faults = {"read", "unknown", "request", "late"}
  Habits = {"close", "exit", "elsewhere", "move"}
INVARIANTS TensorsIntact YieldedOnce WaitIsOwed
