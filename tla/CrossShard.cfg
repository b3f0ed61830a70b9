SPECIFICATION Spec
CONSTANTS
  g1 = g1
  g2 = g2
  g3 = g3
  t1 = t1
  t2 = t2
  t3 = t3
  Groups = {g1, g2, g3}
  Txs = {t1}
  Inputs <- OneInputs
  Outputs <- OneOutputs
  KnownOutputs <- OneKnown
  MayFail = {t1}
  Depth = 3
  MaxOrphans = 1
INVARIANTS TypeOK ExecutesWithAllPledges PledgeIsKept VotersAcceptProposals
PROPERTY ImplementsAtomicCommit
CHECK_DEADLOCK FALSE
