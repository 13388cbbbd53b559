SPECIFICATION RemoteFairSpec
CONSTANTS
  Namespaces = {ns1}
  Hosts = {h1}
  Sockets = {s1}
  Capabilities = {"execution"}
  NoSocket = NoSocket
  Undefined = Undefined
  Callers = {q1, q2}
  Requests <- MCRequests
  Data = {q1, q2}
  MaxChunks = 1
  RetryOptions <- MCRetryOptions
  MaxAttempts = 2
INVARIANTS
  RemoteTypeOK
  AnswerIsOwn
  NoWorkRepeated
  PollsUntilExhausted
PROPERTIES
  EveryExecuteSettles
CHECK_DEADLOCK FALSE
