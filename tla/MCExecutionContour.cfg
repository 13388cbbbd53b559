SPECIFICATION Spec
CONSTANTS
  Namespaces = {ns1}
  Hosts = {h1, h2}
  Sockets = {s1}
  Capabilities = {"execution"}
  NoSocket = NoSocket
  Undefined = Undefined
  Executions = {e1, e2}
  Requests <- MCRequests
  Data = {d1}
  MaxChunks = 0
  MaxAttempts = 2
  Reasons = {"user", "disconnect"}
  NoReason = NoReason
INVARIANTS
  TypeOK
  RegistryExact
  AcceptedCancelWins
  HostLossAborts
  AttemptsExact
PROPERTIES
  AbortOnlyEnds
  ImplementsStream
SYMMETRY ContourSymmetry
CHECK_DEADLOCK FALSE
