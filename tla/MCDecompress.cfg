SPECIFICATION FairSpec
CONSTANTS
  MaxSeg = 5
  MemNums = {1, 2}
  Nb = 3
  NBlobs = 1
  KInc = 2
  MaxFault = 1
  ArmSeesPending = TRUE
INVARIANTS OutIntact OutInOrder
PROPERTIES DstStable AllUntarred
CHECK_DEADLOCK FALSE
