CONSTANTS
  Addr = {a1, a2}
  Account = {visitor, friend, waiter}
  NoAccount = NoAccount
  Server = {clientServer, waiterServer}
  Conn = {c1, c2, c3}
  ServerOf <- TwoServerOf
  Serves <- TwoServes
  NoConn = NoConn
  NoAddr = NoAddr
  Absent = Absent
  NoHdl = NoHdl
  Rename = TRUE
  ForeignLookup = TRUE
  Faults = {"crash", "throw"}
  clientServer = clientServer
  waiterServer = waiterServer
  c3 = c3
  visitor = visitor
  waiter = waiter
SPECIFICATION Spec
CHECK_DEADLOCK FALSE
INVARIANTS
  TypeOK
  HandleIsCurrent
  RowIsMapped
  RedisCovers
PROPERTY UnmapsOnlyOwn
