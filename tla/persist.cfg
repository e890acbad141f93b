SPECIFICATION Spec
CONSTANTS
  Callers = {c1}
  Workers = {w1, w2}
  Modes = {"Parallel"}
  BatchSizes = {2}
  Workloads = {
    {"push", "push_batch", "clear", "close", "set_mode", "pending_items", "start"},
    {"push_batch", "get", "get_batch", "get_blocking", "start_with_results"},
    {"push_batch", "remove", "start"}}
  FirstCounter = 0
  MaxJobs = 2
  MaxLives = 2
  MaxCrashes = 1
SYMMETRY WorkerSymmetry
INVARIANTS TypeOK IdsNeverReissuedInOrder ShutdownKeepsOwed PrefixDurable FifoKept DeliveredCounted
PROPERTIES DurableStays
CHECK_DEADLOCK FALSE
