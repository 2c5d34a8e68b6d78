CONSTANTS
  MaxBlocks = 3
  Lengths = {1, 2}
  MaxSeq = 5
  SndBufSize = 3
  RcvBufSize = 3
  CWnd = 2
  Mortality = {TRUE, FALSE}
  Modes = {"SOCK_DGRAM"}
  LiteAcks = {}
  Duplicating = TRUE
SPECIFICATION Spec
INVARIANTS
  NothingLost
CHECK_DEADLOCK FALSE
