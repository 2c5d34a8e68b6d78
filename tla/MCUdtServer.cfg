SPECIFICATION UdtServerSpec
CONSTANTS
  l = l
  a = a
  b = b
  Socks = {l, a}
  Listener = l
  MaxPolls = 1
  SndMax = 1
  Quota <- OneClient
INVARIANTS EchoInOrder BooksMatchEpoll SilenceReported
PROPERTIES EveryMessageEchoed BrokenUnwatched
CHECK_DEADLOCK FALSE
