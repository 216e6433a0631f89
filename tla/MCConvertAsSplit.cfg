SPECIFICATION Spec
CONSTANTS
  M1 = M1
  M2 = M2
  a1 = a1
  a2 = a2
  b1 = b1
  Mints = {M1, M2}
  TokenAccounts = {a1, a2, b1}
  MintOf <- MCMintOf
  Decimals <- MCDecimals
  ActionIds = {1}
  Rates <- MCRates
  NoRate = NoRate
  Amounts = {0, 1, 2}
  MaxU64 = 3
  MaxU128 <- MCMaxU128
CONSTRAINT Bounded
INVARIANTS
  SplitReceiptsOnlyFromSplits
CHECK_DEADLOCK FALSE
