SPECIFICATION FairSpec
CONSTANTS
  Callers = {c1, c2}
  Workers = {w1}
  Levels = {5}
  Times = {0}
  BatchSizes = {2}
  Capacity = 1
  Ops = {"push", "push_batch", "get_next", "peek_next", "update_priority", "remove", "flush", "close", "start"}
  MaxItems = 2
INVARIANTS TypeOK DiskFollows IndexCovers
PROPERTIES ImplementsJobQueue CallsReturn FlushReachesDisk
