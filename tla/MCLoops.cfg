SPECIFICATION LoopsSpec
CONSTANTS
  Loops = {a}
  Starts = {s}
  Cap = 1
  MaxDepth = 1
  MaxFails = 3
  Misfires = FALSE
  Bodies = {b1, b2}
  Kicks = {k}
  Scores = {0, 14, 15, 19, 20, 21, 22, 29, 30, 34, 35, 41, 42, 51, 52, 54, 55, 61, 62, 100}
  ConfirmScores = {34, 35}
INVARIANTS LoopsTypeOK LoopAlive LadderSteps PumpAlive
PROPERTIES JobsGoOn PumpGatesRefined PumpRuns ChildEnds
CHECK_DEADLOCK FALSE
