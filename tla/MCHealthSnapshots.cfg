SPECIFICATION SnapshotSpec
CONSTANTS
  Exchanges = {q1, q2, q3}
  Upstreams <- MCUpstreams
  HealthTTL = 2
  ProbeTimeout = 1
  DocsTTL = 3
  DocsTimeout = 2
  MaxTime = 5
INVARIANTS
  ServedIsFresh
SYMMETRY SnapshotSymmetry
CHECK_DEADLOCK FALSE
