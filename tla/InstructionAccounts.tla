------------------------ MODULE InstructionAccounts ------------------------
(***************************************************************************)
(* From the fields of the generated client to the accounts of a handler.   *)
(* A caller sets fields of a builder, adds remaining accounts and sends    *)
(* the instruction, alone in a transaction or from a program of its own    *)
(* (CPI).  The security token program strips what verification needs, and  *)
(* the handler takes the rest by position.  Nothing but the order of four  *)
(* separate lists ties a field of the client to the variable of the        *)
(* handler, and of a verification program, that carries its account.       *)
(*                                                                         *)
(* Addresses stand for accounts: an address is the name of what is there.  *)
(* What the accounts hold is left to the other modules, and is what the    *)
(* instruction needs; the verification programs approve.                   *)
(***************************************************************************)
EXTENDS ClientInstructions, FiniteSets, SequencesExt

CONSTANTS
  Configured,   \* the verification programs of every configuration
  Addable,      \* the remaining accounts a caller may add
  MaxRemaining  \* bound: remaining accounts of a call

VARIABLE call   \* the call being put together, and what became of it

-----------------------------------------------------------------------------
(***************************************************************************)
(* The handlers of the program: the accounts they take, in order, with     *)
(* verify_writable and verify_signer of each.                              *)
(***************************************************************************)
Take(name) == [name |-> name, writable |-> FALSE, signer |-> FALSE]
TakeWritable(name) == [name |-> name, writable |-> TRUE, signer |-> FALSE]
TakeSigner(name) == [name |-> name, writable |-> TRUE, signer |-> TRUE]

InitializeMintTakes ==
  <<TakeSigner("mint_info"), TakeWritable("mint_authority_account"), TakeSigner("creator_info"),
    Take("token_program_info"), Take("system_program_info"), Take("rent_info")>>

UpdateMetadataTakes ==
  <<Take("mint_authority"), TakeSigner("payer"), TakeWritable("mint_info"),
    Take("token_program_info"), Take("system_program_info")>>

InitializeVerificationConfigTakes ==
  <<TakeSigner("payer"), Take("mint_account"), TakeWritable("config_account"),
    Take("system_program_info")>>

UpdateVerificationConfigTakes ==
  <<TakeSigner("payer"), Take("mint_account"), TakeWritable("config_account"),
    Take("system_program_info")>>

TrimVerificationConfigTakes ==
  <<Take("mint_account"), TakeWritable("config_account"), TakeWritable("recipient"),
    Take("system_program_info")>>

(* sync_transfer_hook_account_metas: what the three above expect after      *)
(* their own accounts when the configuration they write is Transfer's.      *)
TransferHookTakes ==
  <<TakeWritable("account_metas_pda"), Take("transfer_hook_pda"), Take("transfer_hook_program")>>

ExecuteMintTakes ==
  <<Take("mint_authority"), TakeWritable("mint_info"), TakeWritable("destination_account_info"),
    Take("token_program")>>

ExecuteBurnTakes ==
  <<Take("permanent_delegate_authority"), TakeWritable("mint_info"),
    TakeWritable("token_account"), Take("token_program")>>

ExecutePauseTakes ==
  <<Take("pause_authority"), TakeWritable("mint_info"), Take("token_program")>>

ExecuteResumeTakes ==
  <<Take("pause_authority"), TakeWritable("mint_info"), Take("token_program")>>

ExecuteFreezeTakes ==
  <<Take("freeze_authority"), Take("mint_info"), TakeWritable("token_account"),
    Take("token_program")>>

ExecuteThawTakes ==
  <<Take("freeze_authority"), Take("mint_info"), TakeWritable("token_account"),
    Take("token_program")>>

DestinationFirst ==
  <<Take("permanent_delegate_authority"), Take("mint_info"),
    TakeWritable("to_token_account"), TakeWritable("from_token_account"),
    Take("transfer_hook_program"), Take("token_program")>>

ExecuteTransferTakes ==
  <<Take("permanent_delegate_authority"), Take("mint_info"),
    TakeWritable("from_token_account"), TakeWritable("to_token_account"),
    Take("transfer_hook_program"), Take("token_program")>>

CreateRateAccountTakes ==
  <<TakeSigner("payer"), TakeWritable("rate_account"), Take("mint_from_account"),
    Take("mint_to_account"), Take("system_program_info")>>

UpdateRateAccountTakes ==
  <<TakeWritable("rate_account_info"), Take("mint_from_account"), Take("mint_to_info_account")>>

CloseRateAccountTakes ==
  <<TakeWritable("rate_account_info"), TakeWritable("destination_account"),
    Take("mint_from_account"), Take("mint_to_info_account")>>

ExecuteSplitTakes ==
  <<Take("mint_authority"), Take("permanent_delegate"), TakeSigner("payer"),
    TakeWritable("mint_account"), TakeWritable("token_account"), Take("rate_account"),
    TakeWritable("receipt_account"), Take("token_program"), Take("system_program")>>

ExecuteConvertTakes ==
  <<Take("mint_authority"), Take("permanent_delegate"), TakeSigner("payer"),
    TakeWritable("mint_from_account"), TakeWritable("mint_to_account"),
    TakeWritable("token_account_from"), TakeWritable("token_account_to"),
    Take("rate_account"), TakeWritable("receipt_account"), Take("token_program"),
    Take("system_program")>>

CreateProofAccountTakes ==
  <<TakeSigner("payer"), Take("mint_account"), TakeWritable("proof_account"),
    Take("token_account"), Take("system_program_info")>>

UpdateProofAccountTakes ==
  <<TakeSigner("payer"), Take("mint_account"), TakeWritable("proof_account"),
    Take("token_account"), Take("system_program_info")>>

CreateDistributionEscrowTakes ==
  <<Take("distribution_escrow_authority"), TakeSigner("payer"),
    TakeWritable("distribution_token_account"), Take("distribution_mint"),
    Take("token_program"), Take("associated_token_account_program"), Take("system_program")>>

(* The escrow only has to be writable if it is not the program's id, which  *)
(* stands for external settlement.                                          *)
IsExternalSettlement(accounts) == Len(accounts) >= 5 /\ accounts[5].key = SecurityToken

ClaimDistributionTakes(external) ==
  <<Take("permanent_delegate_authority"), TakeSigner("payer"), Take("mint_account"),
    TakeWritable("eligible_token_account"),
    IF external THEN Take("escrow_token_account") ELSE TakeWritable("escrow_token_account"),
    TakeWritable("receipt_account"), Take("proof_account"), Take("transfer_hook_program"),
    Take("token_program"), Take("system_program")>>

CloseActionReceiptTakes ==
  <<TakeWritable("receipt_account"), TakeWritable("destination_account"), Take("mint_account")>>

CloseClaimReceiptTakes ==
  <<TakeWritable("receipt_account"), TakeWritable("destination_account"), Take("mint_account"),
    Take("eligible_token_account"), Take("proof_account")>>

UpdateDefaultAccountStateTakes ==
  <<Take("freeze_authority"), TakeWritable("mint_info"), Take("token_program")>>

WritesConfiguration ==
  {"InitializeVerificationConfig", "UpdateVerificationConfig", "TrimVerificationConfig"}

(* Processor::process: the handler of an instruction.  Verify has none.     *)
HandlerTakes(op, accounts) ==
  CASE op = "InitializeMint" -> InitializeMintTakes
    [] op = "UpdateMetadata" -> UpdateMetadataTakes
    [] op = "InitializeVerificationConfig" -> InitializeVerificationConfigTakes
    [] op = "UpdateVerificationConfig" -> UpdateVerificationConfigTakes
    [] op = "TrimVerificationConfig" -> TrimVerificationConfigTakes
    [] op = "Verify" -> << >>
    [] op = "Mint" -> ExecuteMintTakes
    [] op = "Burn" -> ExecuteBurnTakes
    [] op = "Pause" -> ExecutePauseTakes
    [] op = "Resume" -> ExecuteResumeTakes
    [] op = "Freeze" -> ExecuteFreezeTakes
    [] op = "Thaw" -> ExecuteThawTakes
    [] op = "Transfer" -> ExecuteTransferTakes
    [] op = "CreateRateAccount" -> CreateRateAccountTakes
    [] op = "UpdateRateAccount" -> UpdateRateAccountTakes
    [] op = "CloseRateAccount" -> CloseRateAccountTakes
    [] op = "Split" -> ExecuteSplitTakes
    [] op = "Convert" -> ExecuteConvertTakes
    [] op = "CreateProofAccount" -> CreateProofAccountTakes
    [] op = "UpdateProofAccount" -> UpdateProofAccountTakes
    [] op = "CreateDistributionEscrow" -> CreateDistributionEscrowTakes
    [] op = "ClaimDistribution" -> ClaimDistributionTakes(IsExternalSettlement(accounts))
    [] op = "CloseActionReceiptAccount" -> CloseActionReceiptTakes
    [] op = "CloseClaimReceiptAccount" -> CloseClaimReceiptTakes
    [] op = "UpdateDefaultAccountState" -> UpdateDefaultAccountStateTakes

-----------------------------------------------------------------------------
(***************************************************************************)
(* The example verification program (verification-program-example), which  *)
(* takes the accounts of an instruction by position too.                   *)
(***************************************************************************)
VerifyUpdateMetadata == <<"mint_authority", "payer", "mint", "token_program", "system_program">>
VerifyInitializeVerificationConfig ==
  <<"payer", "mint_account", "config_account", "system_program">>
VerifyUpdateVerificationConfig == <<"payer", "mint_account", "config_account", "system_program">>
VerifyTrimVerificationConfig ==
  <<"mint_account", "config_account", "recipient", "system_program">>
VerifyMint == <<"mint_authority", "mint", "destination_account", "token_program">>
VerifyBurn == <<"permanent_delegate_authority", "mint", "token_account", "token_program">>
VerifyTransfer ==
  <<"permanent_delegate_authority", "mint", "from_token_account", "to_token_account",
    "transfer_hook_program", "token_program">>
VerifyPause == <<"pause_authority", "mint", "token_program">>
VerifyResume == <<"pause_authority", "mint", "token_program">>
VerifyFreeze == <<"freeze_authority", "mint", "token_account", "token_program">>
VerifyThaw == <<"freeze_authority", "mint", "token_account", "token_program">>
VerifyCreateRateAccount ==
  <<"payer", "rate_account", "mint_from_account", "mint_to_account", "system_program">>
VerifyUpdateRateAccount == <<"rate_account", "mint_from_account", "mint_to_account">>
VerifyCloseRateAccount ==
  <<"rate_account", "destination_account", "mint_from_account", "mint_to_account">>
VerifySplit ==
  <<"mint_authority", "permanent_delegate", "payer", "mint_account", "token_account",
    "rate_account", "receipt_account", "token_program", "system_program">>
ConvertedToFirst ==
  <<"mint_authority", "permanent_delegate", "payer", "mint_from_account", "mint_to_account",
    "token_account_to", "token_account_from", "rate_account", "receipt_account",
    "token_program", "system_program">>

VerifyConvert ==
  <<"mint_authority", "permanent_delegate", "payer", "mint_from_account", "mint_to_account",
    "token_account_from", "token_account_to", "rate_account", "receipt_account",
    "token_program", "system_program">>

(* process_instruction: the instructions it knows. *)
VerifierTakes ==
  [UpdateMetadata |-> VerifyUpdateMetadata,
   InitializeVerificationConfig |-> VerifyInitializeVerificationConfig,
   UpdateVerificationConfig |-> VerifyUpdateVerificationConfig,
   TrimVerificationConfig |-> VerifyTrimVerificationConfig,
   Mint |-> VerifyMint, Burn |-> VerifyBurn, Pause |-> VerifyPause, Resume |-> VerifyResume,
   Freeze |-> VerifyFreeze, Thaw |-> VerifyThaw, Transfer |-> VerifyTransfer,
   CreateRateAccount |-> VerifyCreateRateAccount, UpdateRateAccount |-> VerifyUpdateRateAccount,
   CloseRateAccount |-> VerifyCloseRateAccount, Split |-> VerifySplit,
   Convert |-> VerifyConvert]

(* Its handlers of configurations leave the accounts of the hook open. *)
VerifierAccepts(op, accounts) ==
  \/ Len(accounts) = Len(VerifierTakes[op])
  \/ op \in WritesConfiguration /\ Len(accounts) >= Len(VerifierTakes[op])

ClientTable ==
  [InitializeMint |-> InitializeMintAccounts,
   UpdateMetadata |-> UpdateMetadataAccounts,
   InitializeVerificationConfig |-> InitializeVerificationConfigAccounts,
   UpdateVerificationConfig |-> UpdateVerificationConfigAccounts,
   TrimVerificationConfig |-> TrimVerificationConfigAccounts,
   Verify |-> VerifyAccounts, Mint |-> MintAccounts, Burn |-> BurnAccounts,
   Pause |-> PauseAccounts, Resume |-> ResumeAccounts, Freeze |-> FreezeAccounts,
   Thaw |-> ThawAccounts, Transfer |-> TransferAccounts,
   CreateRateAccount |-> CreateRateAccountAccounts,
   UpdateRateAccount |-> UpdateRateAccountAccounts,
   CloseRateAccount |-> CloseRateAccountAccounts, Split |-> SplitAccounts,
   Convert |-> ConvertAccounts, CreateProofAccount |-> CreateProofAccountAccounts,
   UpdateProofAccount |-> UpdateProofAccountAccounts,
   CreateDistributionEscrow |-> CreateDistributionEscrowAccounts,
   ClaimDistribution |-> ClaimDistributionAccounts,
   CloseActionReceiptAccount |-> CloseActionReceiptAccountAccounts,
   CloseClaimReceiptAccount |-> CloseClaimReceiptAccountAccounts,
   UpdateDefaultAccountState |-> UpdateDefaultAccountStateAccounts]

ClientBuilder(op, given, rest) ==
  CASE op = "InitializeMint" -> InitializeMintBuilder(given, rest)
    [] op = "UpdateMetadata" -> UpdateMetadataBuilder(given, rest)
    [] op = "InitializeVerificationConfig" -> InitializeVerificationConfigBuilder(given, rest)
    [] op = "UpdateVerificationConfig" -> UpdateVerificationConfigBuilder(given, rest)
    [] op = "TrimVerificationConfig" -> TrimVerificationConfigBuilder(given, rest)
    [] op = "Verify" -> VerifyBuilder(given, rest)
    [] op = "Mint" -> MintBuilder(given, rest)
    [] op = "Burn" -> BurnBuilder(given, rest)
    [] op = "Pause" -> PauseBuilder(given, rest)
    [] op = "Resume" -> ResumeBuilder(given, rest)
    [] op = "Freeze" -> FreezeBuilder(given, rest)
    [] op = "Thaw" -> ThawBuilder(given, rest)
    [] op = "Transfer" -> TransferBuilder(given, rest)
    [] op = "CreateRateAccount" -> CreateRateAccountBuilder(given, rest)
    [] op = "UpdateRateAccount" -> UpdateRateAccountBuilder(given, rest)
    [] op = "CloseRateAccount" -> CloseRateAccountBuilder(given, rest)
    [] op = "Split" -> SplitBuilder(given, rest)
    [] op = "Convert" -> ConvertBuilder(given, rest)
    [] op = "CreateProofAccount" -> CreateProofAccountBuilder(given, rest)
    [] op = "UpdateProofAccount" -> UpdateProofAccountBuilder(given, rest)
    [] op = "CreateDistributionEscrow" -> CreateDistributionEscrowBuilder(given, rest)
    [] op = "ClaimDistribution" -> ClaimDistributionBuilder(given, rest)
    [] op = "CloseActionReceiptAccount" -> CloseActionReceiptAccountBuilder(given, rest)
    [] op = "CloseClaimReceiptAccount" -> CloseClaimReceiptAccountBuilder(given, rest)
    [] op = "UpdateDefaultAccountState" -> UpdateDefaultAccountStateBuilder(given, rest)

ClientCpi(op, given, rest) ==
  CASE op = "InitializeMint" -> InitializeMintCpi(given, rest)
    [] op = "UpdateMetadata" -> UpdateMetadataCpi(given, rest)
    [] op = "InitializeVerificationConfig" -> InitializeVerificationConfigCpi(given, rest)
    [] op = "UpdateVerificationConfig" -> UpdateVerificationConfigCpi(given, rest)
    [] op = "TrimVerificationConfig" -> TrimVerificationConfigCpi(given, rest)
    [] op = "Verify" -> VerifyCpi(given, rest)
    [] op = "Mint" -> MintCpi(given, rest)
    [] op = "Burn" -> BurnCpi(given, rest)
    [] op = "Pause" -> PauseCpi(given, rest)
    [] op = "Resume" -> ResumeCpi(given, rest)
    [] op = "Freeze" -> FreezeCpi(given, rest)
    [] op = "Thaw" -> ThawCpi(given, rest)
    [] op = "Transfer" -> TransferCpi(given, rest)
    [] op = "CreateRateAccount" -> CreateRateAccountCpi(given, rest)
    [] op = "UpdateRateAccount" -> UpdateRateAccountCpi(given, rest)
    [] op = "CloseRateAccount" -> CloseRateAccountCpi(given, rest)
    [] op = "Split" -> SplitCpi(given, rest)
    [] op = "Convert" -> ConvertCpi(given, rest)
    [] op = "CreateProofAccount" -> CreateProofAccountCpi(given, rest)
    [] op = "UpdateProofAccount" -> UpdateProofAccountCpi(given, rest)
    [] op = "CreateDistributionEscrow" -> CreateDistributionEscrowCpi(given, rest)
    [] op = "ClaimDistribution" -> ClaimDistributionCpi(given, rest)
    [] op = "CloseActionReceiptAccount" -> CloseActionReceiptAccountCpi(given, rest)
    [] op = "CloseClaimReceiptAccount" -> CloseClaimReceiptAccountCpi(given, rest)
    [] op = "UpdateDefaultAccountState" -> UpdateDefaultAccountStateCpi(given, rest)
-----------------------------------------------------------------------------
(***************************************************************************)
(* Addresses.  Several names, in the client, in the handlers and in the    *)
(* verification program, are meant to be one account.  Every operation     *)
(* works on the one verified mint; mint_from may be another.               *)
(***************************************************************************)
AddressOf(name) ==
  CASE name \in {"mint", "mint_account", "mint_info", "mint_to", "mint_to_account",
                 "mint_to_info_account", "distribution_mint"} -> "mint"
    [] name \in {"mint_from", "mint_from_account"} -> "mint_from"
    [] name \in {"destination", "destination_account", "destination_account_info"} -> "destination"
    [] name \in {"permanent_delegate", "permanent_delegate_authority"} -> "permanent_delegate"
    [] name \in {"rate_account", "rate_account_info"} -> "rate_account"
    [] name \in {"authority", "mint_authority_account"} -> "mint_authority"
    [] name \in {"payer", "creator_info"} -> "payer"
    [] name \in {"system_program", "system_program_info"} -> "system_program"
    [] name \in {"token_program", "token_program_info"} -> "token_program"
    [] name \in {"rent_sysvar", "rent_info"} -> "rent_sysvar"
    [] OTHER -> name

(* Whether the creator of the mint pays the fees of the transaction itself. *)
Creator(c) == IF c.creatorPays THEN "payer" ELSE "creator"

Address(c, name) ==
  CASE name = "verification_config_or_mint_authority" ->
         IF c.mode = "creator" THEN "mint_authority" ELSE "verification_config"
    [] name = "instructions_sysvar_or_creator" ->
         IF c.mode = "creator" THEN Creator(c) ELSE "instructions_sysvar"
    [] OTHER -> AddressOf(name)

Addresses ==
  {AddressOf(name) : name \in UNION {NamesIn(ClientTable[op]) : op \in DOMAIN ClientTable}}
    \cup {"verification_config", "mint_authority", "instructions_sysvar", "payer", "creator"}

(* The program's own address is the placeholder, and stands in no field.    *)
ASSUME CallsAssumption ==
  /\ Configured \in Seq(Range(Configured))
  /\ SecurityToken \notin Addresses

Given(c) == [name \in NamesIn(ClientTable[c.op]) \ c.omitted |-> Address(c, name)]

CpiBuilder(op, given, rest) ==
  IF Required(ClientTable[op]) \subseteq DOMAIN given
    THEN ClientCpi(op, given, [i \in DOMAIN rest |-> Tuple(rest[i])])
    ELSE Uninvoked

-----------------------------------------------------------------------------
(***************************************************************************)
(* The runtime.  An account is writable, or signs, in all its places if it *)
(* is or does so in one of them; the payer of the fees does both wherever  *)
(* it occurs in the transaction.  A program can invoke only with accounts  *)
(* it hands over, and cannot make an account sign that did not: the        *)
(* calling program has been given every account writable.                  *)
(***************************************************************************)
Signers(op) == IF op = "InitializeMint" THEN {"payer", "mint"} ELSE {"payer"}

Merged(metas, payer) ==
  [i \in DOMAIN metas |->
     LET same == {j \in DOMAIN metas : metas[j].key = metas[i].key}
     IN  Meta(metas[i].key,
              metas[i].key = payer \/ \E j \in same : metas[j].writable,
              metas[i].key = payer \/ \E j \in same : metas[j].signer)]

SignaturesFound(op, metas) ==
  \A i \in DOMAIN metas : metas[i].signer => metas[i].key \in Signers(op)

(* What the program is called with; nothing if it is not called. *)
Delivered(c) ==
  IF c.layer = "builder"
    THEN LET metas == ClientBuilder(c.op, Given(c), c.rest)
         IN  IF SignaturesFound(c.op, metas) THEN Merged(metas, "payer") ELSE << >>
    ELSE LET invoked == CpiBuilder(c.op, Given(c), c.rest)
         IN  IF /\ SignaturesFound(c.op, invoked.metas)
                /\ \A i \in DOMAIN invoked.metas : invoked.metas[i].key \in invoked.infos
               THEN Merged(invoked.metas, "nobody")
               ELSE << >>

-----------------------------------------------------------------------------
(***************************************************************************)
(* The program.  What verification leaves to the handler: a set with one   *)
(* sequence of accounts, or empty if verification fails.                   *)
(***************************************************************************)
InstructionAccounts(accounts) == SubSeq(accounts, 4, Len(accounts))

TooFewStripped(accounts) ==
  SubSeq(InstructionAccounts(accounts), 1, Len(accounts) - 2 - Len(Configured))

TargetAccounts(accounts) ==
  SubSeq(InstructionAccounts(accounts), 1, Len(accounts) - 3 - Len(Configured))

CpiPossible(accounts) ==
  /\ Len(Configured) <= Len(InstructionAccounts(accounts))
  /\ \A p \in Range(Configured) : \E i \in DOMAIN accounts : accounts[i].key = p

VerifyByPrograms(c, accounts) ==
  {cleaned \in {IF c.mode = "cpi" THEN TargetAccounts(accounts)
                                  ELSE InstructionAccounts(accounts)} :
     /\ Len(accounts) >= 3
     /\ Configured # << >>
     /\ accounts[2].key = "verification_config"
     /\ accounts[3].key = "instructions_sysvar"
     /\ c.mode = "cpi" => CpiPossible(accounts)}

VerifyByMintAuthority(c, accounts) ==
  {cleaned \in {InstructionAccounts(accounts)} :
     /\ Len(accounts) >= 3
     /\ accounts[2].key = "mint_authority"
     /\ accounts[3].key = Creator(c)
     /\ accounts[3].signer}

(* verify_by_strategy looks at what the second account is. *)
VerifyByStrategy(c, accounts) ==
  IF Len(accounts) >= 3 /\ accounts[2].key = "mint_authority"
    THEN VerifyByMintAuthority(c, accounts)
    ELSE VerifyByPrograms(c, accounts)

ProgramsOnly ==
  {"Burn", "Mint", "Pause", "Resume", "Freeze", "Thaw", "Transfer", "Split", "Convert",
   "CreateProofAccount", "UpdateProofAccount", "ClaimDistribution"}
Unverified == {"InitializeMint", "Verify"}

(* Processor::verify *)
Verified(c, accounts) ==
  CASE c.op \in Unverified -> {accounts}
    [] c.op \in ProgramsOnly -> VerifyByPrograms(c, accounts)
    [] OTHER -> VerifyByStrategy(c, accounts)

(* The addresses that handlers take as they come.  Every other one is       *)
(* derived, recorded or fixed, and checked; two are optional, and the       *)
(* program's id stands in for them.                                         *)
AnyAddress ==
  {"payer", "creator_info", "recipient", "destination_account", "destination_account_info",
   "token_account", "from_token_account", "to_token_account", "token_account_to"}

AddressChecked(name, key) ==
  \/ name \in AnyAddress
  \/ key = AddressOf(name)
  \/ name \in {"escrow_token_account", "proof_account"} /\ key = SecurityToken

FitsHandler(takes, accounts) ==
  \A i \in DOMAIN takes :
    /\ takes[i].writable => accounts[i].writable
    /\ takes[i].signer => accounts[i].signer
    /\ AddressChecked(takes[i].name, accounts[i].key)

Takes(c, accounts) ==
  HandlerTakes(c.op, accounts) \o (IF c.forTransfer THEN TransferHookTakes ELSE << >>)

HandlerAccepts(c, accounts) ==
  LET takes == Takes(c, accounts)
  IN  /\ IF c.op \in WritesConfiguration /\ ~c.forTransfer
           THEN Len(accounts) >= Len(takes)
           ELSE Len(accounts) = Len(takes)
      /\ FitsHandler(takes, accounts)

(* verify_instruction: Verify's remaining accounts are those of the         *)
(* instruction it asks about.                                               *)
VerifyInstruction(c, accounts) == VerifyByPrograms(c, accounts) # {}

(* The accounts of the handler, if all goes well. *)
Process(c, accounts) ==
  {cleaned \in Verified(c, accounts) :
     IF c.op = "Verify" THEN VerifyInstruction(c, accounts) ELSE HandlerAccepts(c, cleaned)}

-----------------------------------------------------------------------------
Ops == DOMAIN ClientTable

Modes(op) ==
  CASE op = "InitializeMint" -> {"none"}
    [] op \in ProgramsOnly \cup {"Verify"} -> {"introspection", "cpi"}
    [] OTHER -> {"introspection", "cpi", "creator"}

NoCall == [stage |-> "none"]

Draft(op, layer, mode, creatorPays, forTransfer) ==
  [stage |-> "draft", op |-> op, layer |-> layer, mode |-> mode, creatorPays |-> creatorPays,
   forTransfer |-> forTransfer, omitted |-> {}, rest |-> << >>, sent |-> << >>,
   accepted |-> FALSE, accounts |-> << >>]

InitCall ==
  \E op \in Ops, layer \in {"builder", "cpi"} :
    \E mode \in Modes(op) :
      \E creatorPays \in IF mode = "creator" THEN BOOLEAN ELSE {FALSE},
         forTransfer \in IF op \in WritesConfiguration THEN BOOLEAN ELSE {FALSE} :
        call = Draft(op, layer, mode, creatorPays, forTransfer)

(* A field is never set: any of the optional ones, or one of the others. *)
Omit(name) ==
  /\ call.stage = "draft"
  /\ call.rest = << >>
  /\ call.omitted \cap Required(ClientTable[call.op]) = {}
  /\ name \in NamesIn(ClientTable[call.op]) \ call.omitted
  /\ call' = [call EXCEPT !.omitted = @ \cup {name}]

AddRemainingAccount(account) ==
  /\ call.stage = "draft"
  /\ Len(call.rest) < MaxRemaining
  /\ call.omitted \cap Required(ClientTable[call.op]) = {}
  /\ call' = [call EXCEPT !.rest = Append(@, account)]

(* What the client asks the runtime for, before anything else happens. *)
Sent(c) ==
  IF c.layer = "builder"
    THEN ClientBuilder(c.op, Given(c), c.rest)
    ELSE CpiBuilder(c.op, Given(c), c.rest).metas

Send ==
  /\ call.stage = "draft"
  /\ LET delivered == Delivered(call)
         results == IF delivered = << >> THEN {} ELSE Process(call, delivered)
     IN  call' = [call EXCEPT !.stage = "sent",
                              !.sent = Sent(call),
                              !.accepted = results # {},
                              !.accounts = IF results = {} THEN << >>
                                           ELSE CHOOSE accounts \in results : TRUE]

NextCall ==
  \/ \E op \in Ops : \E name \in NamesIn(ClientTable[op]) : Omit(name)
  \/ \E account \in Addable : AddRemainingAccount(account)
  \/ Send

CallSpec == InitCall /\ [][NextCall]_call

-----------------------------------------------------------------------------
(* What a caller has to do, independently of all the lists: set every       *)
(* required field, except that the builder knows the addresses of the       *)
(* programs and sysvars; have a program configured, or be the creator; in   *)
(* CPI mode add every verification program, and otherwise nothing; for the  *)
(* transfer configuration give the accounts of the hook; and let the        *)
(* creator sign, for which the client has no flag.                          *)
(*                                                                          *)
(* A configuration may list a program more than once, and wants an account  *)
(* for each slot.  Where the accounts of the hook are not taken, they are   *)
(* stripped like any other, and their fields can stand in for slots.        *)
HookFields == {"account_metas_pda", "transfer_hook_pda", "transfer_hook_program"}

Complete(c) ==
  /\ c.omitted \cap Required(ClientTable[c.op]) \subseteq
       IF c.layer = "builder"
         THEN {"instructions_sysvar", "token_program", "system_program", "rent_sysvar"}
         ELSE {}
  /\ c.mode \in {"introspection", "cpi"} => Configured # << >>
  /\ c.mode = "cpi" => \A p \in Range(Configured) : \E i \in DOMAIN c.rest : c.rest[i].key = p
  /\ LET slots == IF c.mode = "cpi" THEN Len(Configured) ELSE 0
     IN  CASE c.op = "Verify" -> Len(c.rest) >= slots
           [] c.op \in WritesConfiguration /\ ~c.forTransfer ->
                Len(c.rest) + Len(TransferHookTakes) >= slots
           [] OTHER -> Len(c.rest) = slots
  /\ c.forTransfer => c.omitted \cap HookFields = {}
  /\ c.mode = "creator" =>
       c.creatorPays /\ (c.layer = "builder" \/ "payer" \in NamesIn(ClientTable[c.op]))

(* A call goes through exactly when it is complete: no client type, builder *)
(* or CPI struct drops, moves or under-privileges an account that any of    *)
(* the 25 handlers insists on, in any mode of verification, with the        *)
(* placeholders of optional accounts and the trailing verification programs *)
(* that CPI verification strips (verify_by_programs).                       *)
AcceptedExactlyWhenComplete ==
  call.stage = "sent" => (call.accepted <=> Complete(call))

(* A handler that runs has in each of its variables the account that the    *)
(* caller set under the corresponding field, or the placeholder of an       *)
(* optional field left out: the source, destination and payer that nothing  *)
(* else ties down included (the slice patterns of operations.rs and         *)
(* verification.rs against the generated lists).                            *)
AccountsAsMeant ==
  call.stage = "sent" /\ call.accepted /\ call.op # "Verify" =>
    LET takes == Takes(call, call.accounts)
    IN  \A i \in DOMAIN takes :
          call.accounts[i].key =
            IF takes[i].name \in call.omitted \ Required(ClientTable[call.op])
              THEN SecurityToken ELSE AddressOf(takes[i].name)

(* The example verification program, given the accounts that CPI            *)
(* verification passes on, or that introspection demands, accepts their     *)
(* number and judges the very accounts that the handler will use, under the *)
(* names it gives them.                                                     *)
VerifierReadsSameAccounts ==
  call.stage = "sent" /\ call.accepted /\ call.op \in DOMAIN VerifierTakes =>
    /\ VerifierAccepts(call.op, call.accounts)
    /\ \A i \in DOMAIN VerifierTakes[call.op] :
         call.accounts[i].key = AddressOf(VerifierTakes[call.op][i])

(* The doc comment of add_remaining_accounts in every CPI builder: "Each    *)
(* account is represented by a tuple of the `AccountInfo`, a `bool`         *)
(* indicating whether the account is writable or not, and a `bool`          *)
(* indicating whether the account is a signer or not."  What is invoked has *)
(* each remaining account with those flags.                                 *)
RemainingAsGiven ==
  call.stage = "sent" /\ call.sent # Panic =>
    \A i \in DOMAIN call.rest :
      call.sent[Len(call.sent) - Len(call.rest) + i] = call.rest[i]
============================================================================
