SPECIFICATION CoreSpec
CONSTANTS
  CoreCallers = {"c1", "c2", "c3"}
INVARIANTS ResourcesOutliveHost
CHECK_DEADLOCK FALSE
