SPECIFICATION FairSpec
CONSTANTS
  web = web
  other = other
  reader2 = reader2
  Procs = {web}
  Updaters = {u1, u2}
  Replacers = {m}
  Readers = {r}
  ProcOf <- Processes
  Keys = {j, k}
  MaxWrites = 2
  Failures = TRUE
  Free = Free
INVARIANTS CacheIsFile
PROPERTIES StoreRefined CallsEnd
