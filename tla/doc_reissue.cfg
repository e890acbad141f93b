SPECIFICATION Spec
CONSTANTS
  Callers = {c1}
  Workers = {w1}
  Modes = {"Parallel"}
  BatchSizes = {2}
  Workloads = {{"push", "start"}}
  FirstCounter = 0
  MaxJobs = 2
  MaxLives = 2
  MaxCrashes = 1
INVARIANTS IdsNeverReissued
CHECK_DEADLOCK FALSE
