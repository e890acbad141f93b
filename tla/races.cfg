SPECIFICATION Spec
CONSTANTS
  Callers = {c1, c2}
  CpuCores = 2
  Modes = {"Parallel"}
  Requests = {1}
  BatchSizes = {1}
  GetSizes = {2}
  MaxItems = 2
  Ops = {"push", "push_batch", "remove", "pending_items", "clear", "get", "get_batch", "get_blocking", "start_with_results"}
  Gil = FALSE
SYMMETRY CallerSymmetry
INVARIANTS TypeOK ItemsUnique CancelledNeverRuns NoItemLost OneResultPerRun RemovedOnce ConsumedCounted
PROPERTIES ImplementsJobQueue
CHECK_DEADLOCK FALSE
