CONSTANTS
  Conn = {c1, c2}
  MaxMessages = 3
SPECIFICATION FairSpec
CHECK_DEADLOCK FALSE
INVARIANTS
  TypeOK
  NoLostWakeUp
  SentToAudience
PROPERTIES
  ImplementsService
  HandledOrTerminated
