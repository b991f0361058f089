SPECIFICATION FairSpec
CONSTANTS
  MaxChats = 1
  MaxRequests = 1
  BodyUnits = 2
INVARIANTS
  TypeOK
  SocketOwner
  AskerGetsAnswerUnlessTorn
  NoChatIsLost
PROPERTIES
  ListenerEnds
  CommandEnds
CHECK_DEADLOCK FALSE
