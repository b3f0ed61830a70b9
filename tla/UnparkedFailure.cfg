SPECIFICATION Spec
CONSTANTS
  QueueSize = 2
  MaxEpoch = 1
  MaxHeight = 1
  MaxInputs = 1
  MaxFailures = 1
  Assignments <- Stays
INVARIANTS RunningPacemakerIsStarted
CHECK_DEADLOCK FALSE
