SPECIFICATION DistSpec
CONSTANTS
  M1 = M1
  a1 = a1
  a2 = a2
  e1 = e1
  e2 = e2
  Mints = {M1}
  TokenAccounts = {a1, a2, e1, e2}
  MintOf <- MCMintOf
  Decimals <- MCDecimals
  ActionIds = {1}
  Rates = {}
  NoRate = NoRate
  Amounts = {1, 2}
  MaxU64 = 3
  MaxU128 <- MCMaxU128
  MaxLevels = 1
  ZeroNode = ZeroNode
  Distributions <- MCDistributions
  EscrowOf <- MCEscrowOf
  ProofArgs <- MCProofArgs
  ProofNodes <- MCProofNodes
  LeafIndexes = {0, 1}
CONSTRAINT Bounded
INVARIANTS
  DistTypeOK
  SettledOncePerReceipt
  EscrowCoversUnsettled
