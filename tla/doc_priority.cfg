SPECIFICATION Spec
CONSTANTS
  Callers = {c1}
  Workers = {w1}
  Levels = {1, 10}
  Times = {0}
  BatchSizes = {2}
  Capacity = 1
  Ops = {"push", "start"}
  MaxItems = 2
PROPERTIES HighestFirst
