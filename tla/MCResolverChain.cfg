SPECIFICATION FairSpec
CONSTANTS
  NoOne = NoOne
  Other = Other
  Exec = {e1, e2}
  Control = {}
  MaxInst = 1
  RetryCap = 1
  MaxRetry = 3
  MaxGen = 4
  Misfires = FALSE
INVARIANTS TypeOK OneWorker NoForeignUnlock ArmedHasJob
PROPERTIES NoStaleSummary GateRefined ChainRearms TimeoutReported
