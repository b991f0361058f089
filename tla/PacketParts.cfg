\* Every split of five packets, both ways, and a queue whose size has four values.
SPECIFICATION Spec
CONSTANTS
  Ways <- BothWays
  Lengths <- FiveMessages
  WORD_RANGE = 4
  NULL = NULL
INVARIANTS
  TypeOK
  StreamIsPackets
  PacketsAreRead
  QueueIsList
CHECK_DEADLOCK FALSE
