CONSTANTS
  Socks = {s1}
  Apps = {a1}
  Worker = rcv
  GC = gc
  NoSock = none
  MaxPolls = 1
  MaxMsgs = 1
  SndBufSize = 1
  BrokenCount = 1
  LingerOn = TRUE
  InOrder = TRUE
  AppOps = {"create", "release", "add", "remove", "recv", "send", "close"}
  a1 = a1
  a2 = a2
  rcv = rcv
  gc = gc
  none = none
  s1 = s1
SPECIFICATION Spec
INVARIANTS
  DestroyedNotWatched
CHECK_DEADLOCK FALSE
