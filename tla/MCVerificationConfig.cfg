SPECIFICATION Spec
CONSTANTS
  transfer = transfer
  mint = mint
  p1 = p1
  p2 = p2
  Ops <- MCOps
  TransferOp = transfer
  Programs <- MCPrograms
  DefaultKey = DefaultKey
  Wallet = Wallet
  MetasPda = MetasPda
  MaxPrograms = 3
  ConfigRent <- MCConfigRent
  MetasRent <- MCMetasRent
  Funds = 11
  Source = Source
  MintAccount = MintAccount
  Destination = Destination
  Holder = Holder
  DelegatePda = DelegatePda
  Guard = p1
  GuardPda = GuardPda
INVARIANTS
  TypeOK
  ReadersAgree
  HookInSync
  RentExempt
  HookAcceptsExactlyApproved
PROPERTIES
  ImplementsRegistry
CHECK_DEADLOCK FALSE
