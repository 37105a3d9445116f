CONSTANTS
  Threads = {t1, t2, t3}
  Registrar = t1
  MAX_TYPE = 4
  MaxCalls = 3
SPECIFICATION Spec
INVARIANTS EnsuredFound
PROPERTY CallsReturn
CHECK_DEADLOCK FALSE
