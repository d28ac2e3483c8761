SPECIFICATION Spec
CONSTANTS
  Loops = {a}
  Starts = {s}
  Cap = 1
  MaxDepth = 3
  MaxFails = 4
  Misfires = FALSE
INVARIANT BoundedRetries
CHECK_DEADLOCK FALSE
