CONSTANTS
  Addr = {a1, a2}
  Account = {visitor, waiter}
  NoAccount = NoAccount
  Server = {clientServer}
  Conn = {c1, c2, c3}
  ServerOf <- OneServerOf
  Serves <- OneServes
  NoConn = NoConn
  NoAddr = NoAddr
  Absent = Absent
  NoHdl = NoHdl
  Rename = FALSE
  ForeignLookup = FALSE
  Faults = {}
  clientServer = clientServer
  waiterServer = waiterServer
  c3 = c3
  visitor = visitor
  waiter = waiter
SPECIFICATION FairSpec
CHECK_DEADLOCK FALSE
INVARIANTS
  OnlineIsReachable
  RedisExact
PROPERTY CloseForgets
