CONSTANTS
  Streams <- MCStreams
  MaxBatch = 3
  MaxLag = 2
SPECIFICATION Spec
INVARIANT ChunkingIsInvisible
PROPERTY ArgumentsGrow
CHECK_DEADLOCK FALSE
