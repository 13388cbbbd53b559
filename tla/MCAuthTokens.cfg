SPECIFICATION Spec
CONSTANTS
  Calls = {q1, q2, q3, q4, q5}
  Agents = {a1, a2}
  Namespaces = {ns1, ns2}
  Tokens = {t1, t2, t3}
  None = None
SYMMETRY TokenSymmetry
INVARIANTS
  TypeOK
  TokensResolve
  HeldTokensWork
  RotatedOnce
CHECK_DEADLOCK FALSE
