SPECIFICATION AuthSpec
CONSTANTS
  mintOp = mintOp
  initOp = initOp
  updateOp = updateOp
  trimOp = trimOp
  p1 = p1
  p2 = p2
  M = M
  O = O
  holder = holder
  other = other
  Ops <- MCOps
  Programs <- MCPrograms
  MaxPrograms = 2
  Mint = M
  OtherMint = O
  OtherRegistry <- MCOtherRegistry
  ProgramsOnlyOps = {mintOp}
  InitOp = initOp
  UpdateOp = updateOp
  TrimOp = trimOp
  InitialRegistries <- MCInitialRegistries
  Calls <- MCCalls
  Instructions <- MCInstructions
  CoreLen = 2
  MaxTx = 3
INVARIANTS
  AuthTypeOK
  EveryOperationApproved
  IntrospectionDecidesDirectly
