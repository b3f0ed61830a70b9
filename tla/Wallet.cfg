SPECIFICATION Spec
CONSTANTS
  t1 = t1
  t2 = t2
  o1 = o1
  o2 = o2
  Txs = {t1, t2}
  Owned = {o1, o2}
  Known = {o1, o2}
  Value <- TwoValues
  Funds = 2
  Fee = 1
  Amount <- OneEach
  Selections = {"ConfidentialOnly", "PreferRevealed"}
  MaxCrashes = 1
INVARIANTS TypeOK NoPhantomOutputs InputsAreExclusive EndedHoldsNothing
CHECK_DEADLOCK FALSE
SYMMETRY Alike
