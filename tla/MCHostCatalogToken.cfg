SPECIFICATION Spec
CONSTANTS
  ns1 = ns1
  ns2 = ns2
  h1 = h1
  h2 = h2
  h3 = h3
  Calls = {q1, q2}
  Hosts = {h1, h2, h3}
  JwtHosts = {h3}
  Namespaces = {ns1, ns2}
  HostNamespace <- HostNs
  NoHost = NoHost
  HasStore = TRUE
  InlineStorage = TRUE
INVARIANTS
  MachineTokenAccepted
CHECK_DEADLOCK FALSE
