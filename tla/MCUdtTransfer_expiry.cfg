CONSTANTS
  MaxBlocks = 2
  Lengths = {2}
  MaxSeq = 4
  SndBufSize = 2
  RcvBufSize = 3
  CWnd = 2
  Mortality = {TRUE}
  Modes = {"SOCK_DGRAM"}
  LiteAcks = {}
  Duplicating = TRUE
SPECIFICATION Spec
INVARIANTS
  NeverBroken
  LossAccounted
  AckOrder
CHECK_DEADLOCK FALSE
