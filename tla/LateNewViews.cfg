SPECIFICATION SpecLateNewViews
CONSTANTS
  N = 4
  Power <- Equal4
  MaxHeight = 5
  LateHeight = 4
  MaxTimeouts = 0
  MaxCrashes = 0
  MaxDeclines = 0
INVARIANTS
  CertificatesAreBacked
  
  ThreeChainSafety
  DummyPathIsSafe
  CommitSafety
CHECK_DEADLOCK FALSE
