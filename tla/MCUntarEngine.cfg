SPECIFICATION FairSpec
CONSTANTS
  Pulls <- MCPulls
  LayerOf <- MCLayerOf
  Segs <- MCSegs
  Threads = 2
  MaxFault = 1
  Overlap = FALSE
INVARIANTS StreamsInOrder CompletedOnce
PROPERTY AllCompleted
CHECK_DEADLOCK FALSE
