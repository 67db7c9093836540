SPECIFICATION FairSpec
CONSTANTS
  Clis <- FewClis
  Want <- FewWant
  NumLayers <- MCNumLayers
  BadImages = {}
  BigImages = {}
  Nc = 2
  Duplicates = TRUE
INVARIANT CompleteTaskAssertion
CHECK_DEADLOCK FALSE
