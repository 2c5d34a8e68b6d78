CONSTANTS
  MaxBlocks = 4
  Lengths = {1, 2}
  MaxSeq = 4
  SndBufSize = 2
  RcvBufSize = 3
  CWnd = 3
  Mortality = {FALSE}
  Modes = {"SOCK_STREAM", "SOCK_DGRAM"}
  LiteAcks = {3}
  Duplicating = TRUE
SPECIFICATION Spec
INVARIANTS
  TransferTypeOK
  RingSound
  NothingLost
PROPERTIES
  ImplementsChannel
CHECK_DEADLOCK FALSE
