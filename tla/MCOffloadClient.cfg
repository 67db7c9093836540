SPECIFICATION FairSpec
CONSTANTS
  Clis <- MCClis
  Want <- MCWant
  NumLayers <- MCNumLayers
  BadImages = {"bad"}
  BigImages = {"big"}
  Nc = 2
  Duplicates = FALSE
INVARIANT LayersAccountedFor
PROPERTY AllAnswered
CHECK_DEADLOCK FALSE
