SPECIFICATION Spec
CONSTANTS
  r1 = r1
  r2 = r2
  r3 = r3
  Rows = {r1, r2}
  Slot <- OneSlot
  Bucket <- OwnBuckets
  Legacy = {}
  Corrupt = {}
  Shadows = {}
  Pumps = {}
  Cycles = {c}
  Requests = {}
  Recoveries = {v}
  Cap = 1
  SaveFails = TRUE
  Restarts = TRUE
SYMMETRY RowSymmetry
INVARIANTS UniquePending ExpiredAfterRetries GradeIsLearnt
