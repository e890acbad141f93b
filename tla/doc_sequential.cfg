SPECIFICATION Spec
CONSTANTS
  Callers = {c1}
  CpuCores = 2
  Modes = {"Sequential"}
  Requests = {1}
  BatchSizes = {}
  GetSizes = {}
  MaxItems = 2
  Ops = {"push", "pending_items", "start"}
  Gil = TRUE
INVARIANTS SequentialOrder
CHECK_DEADLOCK FALSE
