SPECIFICATION FairSpec
CONSTANTS
  Namespaces = {ns1, ns2}
  Hosts = {h1}
  Sockets = {s1}
  Capabilities = {"execution"}
  NoSocket = NoSocket
  Undefined = Undefined
  Executions = {e1}
  Requests <- MCRequests
  Data = {d1}
  MaxChunks = 1
  MaxAttempts = 3
  Reasons = {"user", "disconnect"}
  NoReason = NoReason
PROPERTIES
  EveryExecutionEnds
CHECK_DEADLOCK FALSE
