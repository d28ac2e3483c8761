SPECIFICATION Spec
CONSTANTS
  Runs = {1, 2, 3}
  Marks = {1, 2}
  MaxAge = 1
  Prog = 1
  Cap = 2
  Strikes = 2
  Grace = 1
  MaxRestarts = 1
  Procs = {p1, p2, p3}
  MaxTampers = 2
  Readers = {r1, r2}
  MaxStamp = 4
  MaxBoots = 2
  Recorders = {t1, t2}
  MaxEpoch = 2
INVARIANTS WorkerTypeOK KillJustified StallBounded OneWriter DailyLoopAlive
PROPERTIES PublishedPickKept EpochsKept
CHECK_DEADLOCK FALSE
