SPECIFICATION DispatcherFairSpec
CONSTANTS
  Namespaces = {ns1}
  Hosts = {h1, h2}
  Sockets = {s1, s2}
  Capabilities = {execution}
  NoSocket = NoSocket
  Undefined = Undefined
  Requests = {r1, r2}
  Data = {d1}
  MaxChunks = 2
INVARIANTS
  DispatcherTypeOK
  IndexedHostsConnected
  PendingExact
PROPERTIES
  SettledOnce
  EveryCallSettles
CHECK_DEADLOCK FALSE
