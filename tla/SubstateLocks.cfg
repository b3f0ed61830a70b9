SPECIFICATION Spec
CONSTANTS
  x = x
  r = r
  Substates = {x, r}
  Resources = {r}
  Txs = {1, 2, 3, 4}
  MultiShard = {1, 2}
  Versioned = {3}
  Uses <- MixUses
  Writes <- MixWrites
  Depth = 2
  MaxBlocks = 7
  MaxForks = 1
INVARIANTS TypeOK   LocksAreReleasedExactly 
CHECK_DEADLOCK FALSE
