SPECIFICATION HttpSpec
CONSTANTS
  Exchanges = {q1, q2}
  Durations = {0, 1}
  MaxChunks = 1
  MaxEvents = 2
  Upstreams <- MCUpstreams
  HealthTTL = 1
  ProbeTimeout = 1
  DocsTTL = 2
  DocsTimeout = 1
  MaxTime = 2
  TopLimit = 2
INVARIANTS
  HttpTypeOK
  AnsweredOnce
  FailureIsVisible
  TopOperationsSound
SYMMETRY ServerSymmetry
CHECK_DEADLOCK FALSE
