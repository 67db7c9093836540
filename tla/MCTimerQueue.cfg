SPECIFICATION FairSpec
CONSTANTS
  MaxTimers = 2
  Delays = {0, 2}
  Intervals = {0, 2}
  MaxLate = 2
  MaxAdjust = 1
INVARIANTS AlarmCovers OneOwner CancelSticks
PROPERTIES EventuallyExpires
CHECK_DEADLOCK FALSE
