SPECIFICATION Spec
CONSTANTS
  N = 2
  Power <- Equal2
  MaxHeight = 6
  MaxTimeouts = 1
  MaxCrashes = 0
  MaxDeclines = 1
INVARIANT CommittedBlocksHadVotes
CHECK_DEADLOCK FALSE
