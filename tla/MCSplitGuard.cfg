SPECIFICATION GuardSpec
CONSTANTS
  M1 = M1
  a1 = a1
  a2 = a2
  a3 = a3
  Mints = {M1}
  TokenAccounts = {a1, a2, a3}
  MintOf <- MCMintOf
  Decimals <- MCDecimals
  ActionIds = {1}
  Rates <- MCRates
  NoRate = NoRate
  Amounts = {1, 2}
  MaxU64 = 4
  MaxU128 <- MCMaxU128
  HaltInOwnTransaction = TRUE
SYMMETRY Holders
CONSTRAINT Bounded
INVARIANTS
  GuardTypeOK
  CampaignExact
CHECK_DEADLOCK FALSE
