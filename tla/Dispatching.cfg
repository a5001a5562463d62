CONSTANTS
  Addr = {a1, a2, a3}
  Account = {visitor1, visitor2}
  NoAccount = NoAccount
  Server = {clientServer, waiterServer, dispatchServer}
  Conn = {c1, c2, w1, d1}
  ServerOf <- PeersOf
  Serves <- PeersServes
  NoConn = NoConn
  NoAddr = NoAddr
  Absent = Absent
  NoHdl = NoHdl
  Rename = FALSE
  ForeignLookup = TRUE
  Faults = {"throw"}
  ClientServer = clientServer
  Dispatcher = dispatchServer
  Dispatches <- ToVisitors
  Disconnected = {visitor1}
  clientServer = clientServer
  waiterServer = waiterServer
  dispatchServer = dispatchServer
  w1 = w1
  w2 = w2
  d1 = d1
  visitor1 = visitor1
  visitor2 = visitor2
  agent = agent
  agent2 = agent2
SPECIFICATION RoutingSpec
SYMMETRY Addresses
CHECK_DEADLOCK FALSE
INVARIANTS
  RoutingTypeOK
  SentAsAddressed
  StayersAreSent
  DisconnectCloses
