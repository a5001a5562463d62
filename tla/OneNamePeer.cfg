CONSTANTS
  Addr = {a1, a2, a3}
  Account = {visitor, waiter}
  NoAccount = NoAccount
  Server = {clientServer, waiterServer}
  Conn = {c1, c2, c3}
  ServerOf <- TwoServerOf
  Serves <- OneServes
  NoConn = NoConn
  NoAddr = NoAddr
  Absent = Absent
  NoHdl = NoHdl
  Rename = FALSE
  ForeignLookup = TRUE
  Faults = {"crash", "throw"}
  clientServer = clientServer
  waiterServer = waiterServer
  c3 = c3
  visitor = visitor
  waiter = waiter
SPECIFICATION Spec
CHECK_DEADLOCK FALSE
INVARIANTS
  MappedIsOwned
  OnlineIsMapped
PROPERTIES
  ImplementsRegistry
  OnlyOthersUncover
