SPECIFICATION Spec
CONSTANTS
  ns1 = ns1
  h1 = h1
  Namespaces = {ns1}
  Hosts = {h1}
  Sockets = {s1, s2}
  Capabilities = {execution}
  NoSocket = NoSocket
  Undefined = Undefined
  Owner <- OneHost
  InlineStorage = TRUE
  HasStore = TRUE
INVARIANTS
  OnlineIsRoutable
CHECK_DEADLOCK FALSE
