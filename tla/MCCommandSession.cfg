SPECIFICATION FairSpec
CONSTANTS
  Loops = {"base", "io"}
  CheapPrepend = 8
  InitialSize = 5
  Extra = 2
  Zero = zero
  HeaderLen = 4
  RequestLen = 5
  ResponseLen = 4
  PipeCap = 2
  BodyLen <- MCBodyLen
  Byte <- MCByte
INVARIANTS StreamIntact WholeFrames RawThisSafe
PROPERTIES CliAnswered
CHECK_DEADLOCK FALSE
