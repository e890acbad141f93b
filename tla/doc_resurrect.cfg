SPECIFICATION Spec
CONSTANTS
  Callers = {c1}
  Workers = {w1}
  Modes = {"Parallel"}
  BatchSizes = {2}
  Workloads = {{"push", "start"}}
  FirstCounter = 0
  MaxJobs = 1
  MaxLives = 2
  MaxCrashes = 0
PROPERTIES RecoversUnprocessedOnly
CHECK_DEADLOCK FALSE
