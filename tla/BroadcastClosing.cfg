CONSTANTS
  Conn = {c1, c2}
  MaxMessages = 1
SPECIFICATION FairSpec
CHECK_DEADLOCK FALSE
PROPERTY EveryMessageIsHandled
