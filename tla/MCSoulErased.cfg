SPECIFICATION Spec
CONSTANTS
  web = web
  other = other
  reader2 = reader2
  Procs = {web, other}
  Updaters = {u1}
  Replacers = {m}
  Readers = {reader2}
  ProcOf <- Processes
  Keys = {j, k}
  MaxWrites = 1
  Failures = TRUE
  Free = Free
PROPERTIES NothingErased
