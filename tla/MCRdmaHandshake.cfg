SPECIFICATION HsFairSpec
CONSTANTS
  InfoLen = 2
  MaxFault = 1
INVARIANTS PeerReady NoEarlyClose
PROPERTIES BothConnected TcpEnds
CHECK_DEADLOCK FALSE
