SPECIFICATION FairSpec
CONSTANTS
  r1 = r1
  r2 = r2
  Readers <- MCReaders
  Loads <- MCLoads
  MaxBuffers = 2
  MaxEvents = 4
  Faults = {"open", "alloc", "read", "event", "copy", "record", "break"}
  Stops = TRUE
INVARIANTS AnsweredOnDevice MemoryOwned
PROPERTIES EndsAnswered
