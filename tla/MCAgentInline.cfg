SPECIFICATION FairSpec
CONSTANTS
  ns1 = ns1
  h1 = h1
  Namespaces = {ns1}
  Hosts = {h1}
  Sockets = {s1, s2, s3}
  Capabilities = {execution}
  NoSocket = NoSocket
  Undefined = Undefined
  Owner <- OneHost
  InlineStorage = TRUE
  HasStore = TRUE
INVARIANTS
  TypeOK
  StatusBacked
  RoutesAreServed
  RoutesAreOpen
PROPERTIES
  LostHostGoesOffline
CHECK_DEADLOCK FALSE
