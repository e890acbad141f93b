SPECIFICATION Spec
CONSTANTS
  Callers = {c1}
  CpuCores = 2
  Modes = {"Sequential"}
  Requests = {1}
  BatchSizes = {}
  GetSizes = {}
  MaxItems = 1
  Ops = {"push", "remove", "start"}
  Gil = TRUE
PROPERTIES TrueMeansNotProcessed
CHECK_DEADLOCK FALSE
