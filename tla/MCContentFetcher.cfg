SPECIFICATION FairSpec
CONSTANTS
  img1 = img1
  img2 = img2
  la = la
  lb = lb
  lc = lc
  Images <- MCImages
  Layers <- MCLayers
  ImageLayers <- MCImageLayers
  Segs <- MCSegs
  Nc = 2
  MaxMissing = 2
INVARIANTS SegmentsInOrder OnConnectedAssertion
PROPERTIES EventuallyFetched
CHECK_DEADLOCK FALSE
