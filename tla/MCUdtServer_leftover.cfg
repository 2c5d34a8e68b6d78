INIT UdtServerInit
NEXT UdtServerNext
CONSTANTS
  l = l
  a = a
  b = b
  Socks = {l, a}
  Listener = l
  MaxPolls = 1
  SndMax = 1
  Quota <- OneClient
INVARIANTS NothingLeftOver
CHECK_DEADLOCK FALSE
