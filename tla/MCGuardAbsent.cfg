SPECIFICATION Spec
CONSTANTS
  transfer = transfer
  mint = mint
  p1 = p1
  p2 = p2
  Ops <- MCOps
  TransferOp = transfer
  Programs <- MCPrograms
  DefaultKey = DefaultKey
  Wallet = Wallet
  MetasPda = MetasPda
  MaxPrograms = 3
  ConfigRent <- MCConfigRent
  MetasRent <- MCMetasRent
  Funds = 14
  Source = Source
  MintAccount = MintAccount
  Destination = Destination
  Holder = Holder
  DelegatePda = DelegatePda
  Guard = p1
  GuardPda = GuardPda
INVARIANTS
  GuardAbsentAllows
CHECK_DEADLOCK FALSE
