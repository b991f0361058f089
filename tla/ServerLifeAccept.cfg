\* The wait of NetAccept, with the event of a connection that has gone.
SPECIFICATION FairSpec
CONSTANTS
  Workers = {w1}
  Clients = {c1}
  None = None
PROPERTIES
  EventStopsAccepting
CHECK_DEADLOCK FALSE
