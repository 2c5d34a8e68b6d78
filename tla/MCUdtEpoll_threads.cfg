CONSTANTS
  Socks = {s1}
  Apps = {a1, a2}
  Worker = rcv
  GC = gc
  NoSock = none
  MaxPolls = 1
  MaxMsgs = 1
  SndBufSize = 1
  BrokenCount = 0
  LingerOn = FALSE
  InOrder = TRUE
  AppOps = {"create", "release", "add", "remove", "recv", "send"}
  a1 = a1
  a2 = a2
  rcv = rcv
  gc = gc
  none = none
  s1 = s1
SPECIFICATION Spec
INVARIANTS
  TypeOK
  ReadyOnlyIfWatched
  NoSilentRead
  NoSilentWrite
SYMMETRY AppSymmetry
CHECK_DEADLOCK FALSE
