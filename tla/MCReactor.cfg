SPECIFICATION RFairSpec
CONSTANTS
  Threads = {t1}
  Conns = {c1, c2}
  Callers = {c1}
  Acceptor = acceptor
  Channels = {c1, c2, acceptor}
  Fds = {fd1, fd2}
  WriteCompleteSet = TRUE
  None = none
  MaxFunctors = 4
INVARIANTS InOrderOnce NeverSleepsOnWork RegistrationOK NoDangling
PROPERTIES FunctorsAllRun LoopQuitEnds Reclaimed
CHECK_DEADLOCK FALSE
