SPECIFICATION Spec
CONSTANTS
  N = 2
  Power <- Equal2
  MaxHeight = 5
  MaxTimeouts = 2
  MaxCrashes = 1
  MaxDeclines = 1
INVARIANTS
  TypeOK
  PointersOrdered
  OneProposalPerHeight
PROPERTY LocksAndVotesNeverMoveBack
CHECK_DEADLOCK FALSE
