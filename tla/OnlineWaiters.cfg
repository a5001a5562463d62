CONSTANTS
  Addr = {a1, a2, a3}
  Account = {visitor1, agent, agent2}
  NoAccount = NoAccount
  Server = {clientServer, waiterServer, dispatchServer}
  Conn = {w1, w2, d1}
  ServerOf <- PeersOf
  Serves <- PeersServes
  NoConn = NoConn
  NoAddr = NoAddr
  Absent = Absent
  NoHdl = NoHdl
  Rename = FALSE
  ForeignLookup = TRUE
  Faults = {}
  ClientServer = clientServer
  Dispatcher = dispatchServer
  Dispatches <- ToWaiters
  Disconnected = {}
  clientServer = clientServer
  waiterServer = waiterServer
  dispatchServer = dispatchServer
  w1 = w1
  w2 = w2
  d1 = d1
  visitor1 = visitor1
  visitor2 = visitor2
  agent = agent
  agent2 = agent2
SPECIFICATION RoutingSpec
CHECK_DEADLOCK FALSE
INVARIANTS
  OnlineGetIt
