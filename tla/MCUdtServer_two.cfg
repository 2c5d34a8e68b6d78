INIT UdtServerInit
NEXT UdtServerNext
CONSTANTS
  l = l
  a = a
  b = b
  Socks = {l, a, b}
  Listener = l
  MaxPolls = 1
  SndMax = 1
  Quota <- TwoClients
INVARIANTS UdtServerTypeOK EchoInOrder BooksMatchEpoll SilenceReported
CHECK_DEADLOCK FALSE
