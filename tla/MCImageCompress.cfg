SPECIFICATION ImageSpec
CONSTANTS
  LayerFiles = {"a", "b"}
  Size <- MCSize
  SegmentSizes = {2, 3}
  MaxSegments = 3
  MaxRuns = 2
  None = None
  Torn = Torn
INVARIANTS TotalMeansComplete NoSpuriousRetrieve SetUpOrUndone
PROPERTIES AllPublished
CHECK_DEADLOCK FALSE
