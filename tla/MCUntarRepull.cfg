SPECIFICATION FairSpec
CONSTANTS
  Pulls <- RepullPulls
  LayerOf <- RepullLayerOf
  Segs <- RepullSegs
  Threads = 1
  MaxFault = 0
  Overlap = FALSE
PROPERTY AllCompleted
CHECK_DEADLOCK FALSE
