SPECIFICATION FairSpec
CONSTANTS
  Callers = {c1}
  CpuCores = 2
  Modes = {"Parallel"}
  Requests = {1}
  BatchSizes = {}
  GetSizes = {}
  MaxItems = 1
  Ops = {"push", "get_blocking", "start_with_results"}
  Gil = TRUE
PROPERTIES BlockingGetReturns
CHECK_DEADLOCK FALSE
