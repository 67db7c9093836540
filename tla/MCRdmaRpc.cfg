SPECIFICATION FairSpec
CONSTANTS
  Nc = 3
  Ns = 3
  MaxReq = 7
  MaxLost = 3
INVARIANT ReceiversReady
PROPERTIES SendBufsStable RecvBufsStable ImplementsRpcChannel AllAnswered
CHECK_DEADLOCK FALSE
