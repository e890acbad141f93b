SPECIFICATION Spec
CONSTANTS
  Callers = {c1}
  Workers = {w1}
  Modes = {"Sequential"}
  BatchSizes = {2}
  Workloads = {{"push_batch", "start"}}
  FirstCounter = 8
  MaxJobs = 2
  MaxLives = 2
  MaxCrashes = 0
INVARIANTS FifoKept
CHECK_DEADLOCK FALSE
