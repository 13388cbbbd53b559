SPECIFICATION ObserversSpec
CONSTANTS
  ns1 = ns1
  ns2 = ns2
  e1 = e1
  e2 = e2
  c1 = c1
  c2 = c2
  c3 = c3
  Namespaces = {ns1, ns2}
  Executions = {e1, e2}
  Clients = {c1, c2, c3}
  ClientNamespace <- ClientNs
  ExecNamespace <- ExecNs
  MaxAttempts = 2
  Reasons = {"user"}
  NoReason = NoReason
INVARIANTS
  ObserversTypeOK
  SubscriptionsAgree
  NoEventMissed
  EndIsSeen
CHECK_DEADLOCK FALSE
