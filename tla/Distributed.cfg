SPECIFICATION FairSpec
CONSTANTS
  Group <- Mounts
  Cases <- JobsAndAlone
  Faults <- AllFaults
  MaxFaults = 1
  Workers = 2
  BlockBytes = 2
  ChunkBytes = 3
  DefaultBuffers = 4
  DirectBlock = 4
  MaxPads = 1
  DeviceLimit = 10
  StagingMin = 6
  Alignment = 2
  MaxBatch = 3
INVARIANTS EveryRankHasAll NoneStranded ReadsAreTheLoad RingsHold
PROPERTIES LoadEnds
