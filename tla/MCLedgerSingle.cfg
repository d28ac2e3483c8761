SPECIFICATION FairSpec
CONSTANTS
  r1 = r1
  r2 = r2
  r3 = r3
  Rows = {r1, r2, r3}
  Slot <- TwoSlots
  Bucket <- OneBucket
  Legacy = {r2}
  Corrupt = {}
  Shadows = {r3}
  Pumps = {}
  Cycles = {c}
  Requests = {}
  Recoveries = {}
  Cap = 1
  SaveFails = FALSE
  Restarts = FALSE
INVARIANTS TypeOK
PROPERTIES LedgerRefined PendingDrains
