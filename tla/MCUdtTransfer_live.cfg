CONSTANTS
  MaxBlocks = 2
  Lengths = {1}
  MaxSeq = 2
  SndBufSize = 2
  RcvBufSize = 2
  CWnd = 2
  Mortality = {FALSE}
  Modes = {"SOCK_STREAM"}
  LiteAcks = {2}
  Duplicating = FALSE
SPECIFICATION FairSpec
PROPERTIES
  AllAcknowledged
CHECK_DEADLOCK FALSE
