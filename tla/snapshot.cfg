SPECIFICATION SnapshotSpec
CONSTANTS
  Callers = {c1}
  CpuCores = 2
  Modes = {"Parallel"}
  Requests = {1}
  BatchSizes = {}
  GetSizes = {}
  MaxItems = 2
  Ops = {"push", "remove", "start_with_results"}
  Gil = FALSE
  MaxLives = 3
  MaxJobs = 3
INVARIANTS SnapshotTypeOK Accounted OneCopyPerLife NeverBoth SavedInOrder
CHECK_DEADLOCK FALSE
