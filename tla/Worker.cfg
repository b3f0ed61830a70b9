SPECIFICATION Spec
CONSTANTS
  QueueSize = 2
  MaxEpoch = 2
  MaxHeight = 1
  MaxInputs = 2
  MaxFailures = 1
  Assignments <- Changes
INVARIANTS TypeOK WaitingWorkerHasTimer ProcessesOwnEpoch
PROPERTIES ViewNeverMovesBack GenesisWrittenOnce SilenceTimesOut RegisteredRuns
CHECK_DEADLOCK FALSE
