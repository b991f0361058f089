\* Two pieces of text and a chat; a rejection or a packet in parts.
SPECIFICATION FairSpec
CONSTANTS
  MaxTyped = 2
  MaxChats = 1
  Mishaps = {"reject", "torn"}
  NameLength = 2
  Console = TRUE
INVARIANTS
  TypeOK
  TypedIsTakenOnce
  EchoMeansAcked
PROPERTIES
  ThreadsEnd
CHECK_DEADLOCK FALSE
