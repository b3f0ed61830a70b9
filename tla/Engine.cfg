SPECIFICATION Spec
CONSTANTS
  XTR = XTR
  tok = tok
  account = account
  shop = shop
  fv = fv
  tv = tv
  nv = nv
  None = None
  Components = {account, shop}
  Resources = {XTR, tok}
  Kind <- TwoKinds
  Hook <- TokenHook
  Vaults = {fv, tv, nv}
  ResourceOf <- VaultResources
  Holder <- VaultHolders
  Balance <- Balances
  MaxDepth = 2
  MaxSteps = 6
  MaxBuckets = 2
  MaxProofs = 1
  MaxPayments = 2
  InitialCharge = 1
  MaxCharge = 2
  MaxMint = 1
INVARIANTS TypeOK ValueIsConserved LockedFundsHaveProofs PersistedStateIsSound
PROPERTY HeldVaultIsStable
CHECK_DEADLOCK FALSE
