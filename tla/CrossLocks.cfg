SPECIFICATION FairSpec
CONSTANTS
  g1 = g1
  g2 = g2
  g3 = g3
  t1 = t1
  t2 = t2
  t3 = t3
  Groups = {g1, g2}
  Txs = {t1, t2, t3}
  Inputs <- PairInputs
  Outputs <- PairOutputs
  KnownOutputs <- PairOutputs
  MayFail = {t3}
  Depth = 1
  MaxOrphans = 0
INVARIANTS SameOrderEverywhere PledgeIsKept
PROPERTY AllFinalised
CHECK_DEADLOCK FALSE
