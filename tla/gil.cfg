SPECIFICATION FairSpec
CONSTANTS
  Callers = {c1}
  CpuCores = 3
  Modes = {"Sequential", "Parallel"}
  Requests = {0, 2}
  BatchSizes = {2}
  GetSizes = {}
  MaxItems = 2
  Ops = {"push", "push_batch", "remove", "clear", "close", "set_mode", "start", "start_with_results"}
  Gil = TRUE
INVARIANTS SequentialOrder  CancelledNeverRuns
PROPERTIES ImplementsJobQueue EventuallyHandled 
