SPECIFICATION LiveSpec
CONSTANTS
  t1 = t1
  t2 = t2
  o1 = o1
  o2 = o2
  Txs = {t1}
  Owned = {o1, o2}
  Known = {o1}
  Value <- TwoValues
  Funds = 2
  Fee = 1
  Amount <- OneEach
  Selections = {"ConfidentialOnly", "RevealedOnly", "PreferRevealed", "PreferConfidential"}
  MaxCrashes = 1
PROPERTIES EveryTransactionEnds 
CHECK_DEADLOCK FALSE
