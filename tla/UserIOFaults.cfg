\* The connection may be lost, and one send fails at once.
SPECIFICATION Spec
CONSTANTS
  t1 = t1
  t2 = t2
  t3 = t3
  Threads <- TwoThreads
  NoThread = NoThread
  MsgSize = 5
  HeaderSize = 1
  LenOne = 2
  Traffic <- PacketOrMessages
  MaxMessages = 4
  Split <- FirstMessage
  ConnDrops = TRUE
  MaxSyncFaults = 1
  PeerFaults = TRUE
SYMMETRY ThreadSymmetry
INVARIANTS
  OneReceiver
  OneCloser
CHECK_DEADLOCK FALSE
