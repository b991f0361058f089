\* Two workers and two connections; anything may fail.
SPECIFICATION FairSpec
CONSTANTS
  Workers = {w1, w2}
  Clients = {c1, c2}
  None = None
INVARIANTS
  TypeOK
  TablesOutliveWorkers
  LockIsLostOnlyAtStop
PROPERTIES
  ShutdownEnds
CHECK_DEADLOCK FALSE
