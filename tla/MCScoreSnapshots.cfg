SPECIFICATION Spec
CONSTANTS
  Runs = {1, 2}
  Marks = {1}
  MaxGen = 2
  MaxCrashes = 1
INVARIANTS TypeOK FlagHasOneOwner ArmedAlive LifeTruth
PROPERTIES SuccessKept ProducerRefined
CHECK_DEADLOCK FALSE
