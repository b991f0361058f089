\* The rest of a message whose first body was cut: what the comment on MSGHOLDER says.
SPECIFICATION Spec
CONSTANTS
  Ways <- ToClient
  Lengths <- FiveMessages
  WORD_RANGE = 65536
  NULL = NULL
INVARIANTS
  PartialSendIsWhole
CHECK_DEADLOCK FALSE
