SPECIFICATION Spec
CONSTANTS
  NoOne = NoOne
  Other = Other
  Exec = {e1}
  Control = {k}
  MaxInst = 2
  RetryCap = 1
  MaxRetry = 3
  MaxGen = 2
  Misfires = TRUE
INVARIANTS OverlapIsOrphan OneActive
