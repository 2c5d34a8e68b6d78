SPECIFICATION PartsSpec
CONSTANTS
  Subjects = {"sndLossList", "rcvLossList", "rcvBuffer", "ackWindow", "speeds", "cache", "unitPool", "sndQueue", "sndHeap",
              "sndBuffer", "rcvQueue", "mux", "options", "congestion", "pacing", "sending", "receiving", "passing"}
  MaxSeqNo = 15
  ListSize = 5
  LossWindow = 4
  RcvWindow = 5
  FirstPacket = 13
  LastPacket = 17
  BufSize = 4
  Packets = 4
  DropReach = 0
  AckSize = 3
  MaxAckNo = 4
  MaxAcks = 9
  RateSize = 4
  Intervals = {0, 1, 20, 900}
  Addrs = {"a", "b", "c", "d", "e"}
  KeyOf <- MCKeyOf
  CacheMax = 3
  HashSize = 9
  MaxUpdates = 6
  EntrySize = 3
  MaxEntries = 2
  FullNum = 2
  FullDen = 3
  MaxDrift = 2
  SndSocks = {s1, s2}
  Pace = {0, 1}
  MaxWork = 2
  MaxStale = 1
  MaxClock = 2
  HeapSocks = {h1, h2, h3, h4, h5}
  HeapTimes = {1, 2, 3}
  InitBlocks = 2
  SndLimit = 4
  AllBlocks = 7
  FirstMsgNo = 7
  MaxMsgNo = 10
  FileShort = FALSE
  Garbage = {0}
  AppSocks = {1, 2}
  AcceptSocks = {3}
  SyncSocks = {2}
  Buckets = 2
  Tries = 1
  CheckInterval = 0
  ConnTTL = 1
  DestroyAfter = 0
  MaxRqClock = 3
  MaxSocks = 3
  Locals = {"v4"}
  Ports = {1, 2}
  Sizes = {1, 2}
  MaxUsers = 1
  Hdr = 1
  PktHdr = 1
  MinMSS = 3
  MinWindow = 2
  MaxSets = 2
  OptValues = {0, 3, 14}
  Defaults <- MCDefaults
  Second = 40
  FirstRate = 2
  FirstCwnd = 2
  MaxCwnd = 4
  RoundTrip = 20
  MinPeriod = 0
  Reported = {0, 1, 5}
  MaxSent = 3
  MaxReports = 7
  Parts = {2}
  Periods = {1, 3}
  MaxNow = 12
  MaxSkips = 1
  MaxHurry = 3
  Room = 2
  MaxReady = 2
  MaxEarly = 1
  MaxFile = 2
  PassSocks = {1, 2}
  StoreLimit = 1
  MaxHandshakes = 4
INVARIANTS
  LossListsExact BufferExact MessagesWhole SendBufferExact LinkStatisticsExact
  PoolRefusesOnlyWhenFull SleepersWake HeapExact ReceiverTablesSound
  SharedQueuesSound AgreedSizesFit RateSoundAndKept
CHECK_DEADLOCK FALSE
