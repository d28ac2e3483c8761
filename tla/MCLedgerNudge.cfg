SPECIFICATION Spec
CONSTANTS
  r1 = r1
  r2 = r2
  r3 = r3
  Rows = {r1}
  Slot <- OneSlot
  Bucket <- OwnBuckets
  Legacy = {}
  Corrupt = {}
  Shadows = {}
  Pumps = {}
  Cycles = {c}
  Requests = {q}
  Recoveries = {}
  Cap = 1
  SaveFails = FALSE
  Restarts = FALSE
INVARIANTS NudgeOnce
