SPECIFICATION Spec
CONSTANTS
  r1 = r1
  r2 = r2
  r3 = r3
  Rows = {r1, r2}
  Slot <- OneSlot
  Bucket <- OwnBuckets
  Legacy = {}
  Corrupt = {}
  Shadows = {}
  Pumps = {}
  Cycles = {c}
  Requests = {}
  Recoveries = {}
  Cap = 1
  SaveFails = FALSE
  Restarts = FALSE
INVARIANTS NoLostAppend
