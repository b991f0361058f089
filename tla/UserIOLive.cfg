\* Three workers and up to four messages, one of them in parts, on a live connection.
SPECIFICATION FairSpec
CONSTANTS
  t1 = t1
  t2 = t2
  t3 = t3
  Threads <- ThreeThreads
  NoThread = NoThread
  MsgSize = 4
  HeaderSize = 2
  LenOne = 1
  Traffic <- PacketsOrBoth
  MaxMessages = 4
  Split <- SecondMessage
  ConnDrops = FALSE
  MaxSyncFaults = 0
  PeerFaults = FALSE
INVARIANTS
  TypeOK
  DoneMeansNotSending
  NothingStranded
  NeverDeaf
PROPERTIES
  SendsWholeStream
  EveryRequestArrives
CHECK_DEADLOCK FALSE
