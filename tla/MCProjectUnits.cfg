CONSTANTS
  Documents = {d1}
  MaxLoads = 2
  MaxSpecs = 1
  MaxTasks = 1
SPECIFICATION Spec
CHECK_DEADLOCK FALSE
INVARIANT UnitsAreKept
