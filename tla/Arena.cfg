CONSTANTS
  Threads = {t1, t2, t3}
  Requests = {1, 4}
  FirstSize = 4
  PushSize = 3
  MaxChunks = 6
  MaxBlocks = 4
  MaxDepth = 3
SPECIFICATION Spec
INVARIANTS BlocksSafe LevelsReturned
CHECK_DEADLOCK FALSE
