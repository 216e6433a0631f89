------------------------- MODULE ClientInstructions -------------------------
(***************************************************************************)
(* The generated Rust client (clients/rust/src/generated/instructions): in *)
(* which order and with which flags a caller's accounts reach the program. *)
(* Every instruction has its accounts listed three times over: in the      *)
(* struct that makes the instruction (here its table, XAccounts), in the   *)
(* builder that fills the struct in (XBuilder), and in the struct that     *)
(* invokes the instruction from another program (XCpi).  The last lists    *)
(* its metas in code of its own, read to be the same as the first's, so    *)
(* that one table stands for both.                                         *)
(*                                                                         *)
(* A table is a sequence of fields; `given` is a function from the fields  *)
(* that the caller has set to addresses; `rest` are the remaining accounts *)
(* of the caller, each with the flags it asks for.                         *)
(***************************************************************************)
EXTENDS Sequences

CONSTANT SecurityToken   \* SECURITY_TOKEN_PROGRAM_ID

Field(name, writable, signer, optional) ==
  [name |-> name, writable |-> writable, signer |-> signer, optional |-> optional]
Readonly(name) == Field(name, FALSE, FALSE, FALSE)
Writable(name) == Field(name, TRUE, FALSE, FALSE)
WritableSigner(name) == Field(name, TRUE, TRUE, FALSE)
OptionalReadonly(name) == Field(name, FALSE, FALSE, TRUE)
OptionalWritable(name) == Field(name, TRUE, FALSE, TRUE)

NamesIn(table) == {table[i].name : i \in DOMAIN table}
Required(table) == {table[i].name : i \in {j \in DOMAIN table : ~table[j].optional}}

Meta(key, writable, signer) == [key |-> key, writable |-> writable, signer |-> signer]

(* An optional account that is not given is replaced by the program's id,   *)
(* read only.                                                               *)
MetaOf(field, given) ==
  IF field.name \in DOMAIN given
    THEN Meta(given[field.name], field.writable, field.signer)
    ELSE Meta(SecurityToken, FALSE, FALSE)

Metas(table, given, rest) ==
  [i \in DOMAIN table |-> MetaOf(table[i], given)] \o rest

(* A builder panics when a field without a default has not been set; the    *)
(* defaults are fixed addresses, written here as the name of the field.     *)
Panic == << >>

Built(table, defaults, given, rest) ==
  LET filled == [name \in DOMAIN given \cup defaults |->
                   IF name \in DOMAIN given THEN given[name] ELSE name]
  IN  IF Required(table) \subseteq DOMAIN filled THEN Metas(table, filled, rest) ELSE Panic

(* What is invoked: the account metas, and the accounts handed to the       *)
(* runtime with them.  A remaining account is a tuple whose second member   *)
(* becomes is_signer, and whose third becomes is_writable.                  *)
Remaining(tuple) == Meta(tuple[1], tuple[3], tuple[2])

Invoked(table, given, rest) ==
  [metas |-> Metas(table, given, [i \in DOMAIN rest |-> Remaining(rest[i])]),
   infos |-> {SecurityToken} \cup {given[name] : name \in DOMAIN given}
               \cup {rest[i][1] : i \in DOMAIN rest}]

(* The CPI builders have no defaults.  They collect the remaining accounts  *)
(* as tuples of the account, is_writable and is_signer.                     *)
Tuple(account) == <<account.key, account.writable, account.signer>>

Uninvoked == [metas |-> Panic, infos |-> {}]

ProgramsOverhead ==
  <<Readonly("mint"), Readonly("verification_config"), Readonly("instructions_sysvar")>>
EitherOverhead ==
  <<Readonly("mint"), Readonly("verification_config_or_mint_authority"),
    Readonly("instructions_sysvar_or_creator")>>

-----------------------------------------------------------------------------
InitializeMintAccounts ==
  <<WritableSigner("mint"), Writable("authority"), WritableSigner("payer"),
    Readonly("token_program"), Readonly("system_program"),
    Readonly("rent_sysvar")>>
InitializeMintBuilder(given, rest) ==
  Built(InitializeMintAccounts, {"token_program", "system_program", "rent_sysvar"}, given, rest)
InitializeMintCpi(given, rest) == Invoked(InitializeMintAccounts, given, rest)

UpdateMetadataAccounts ==
  EitherOverhead \o
  <<Readonly("mint_authority"), WritableSigner("payer"),
    Writable("mint_account"), Readonly("token_program"),
    Readonly("system_program")>>
UpdateMetadataBuilder(given, rest) ==
  Built(UpdateMetadataAccounts, {"token_program", "system_program"},
        given, rest)
UpdateMetadataCpi(given, rest) == Invoked(UpdateMetadataAccounts, given, rest)

InitializeVerificationConfigAccounts ==
  EitherOverhead \o
  <<WritableSigner("payer"), Readonly("mint_account"),
    Writable("config_account"), Readonly("system_program"),
    OptionalWritable("account_metas_pda"),
    OptionalReadonly("transfer_hook_pda"),
    OptionalReadonly("transfer_hook_program")>>
InitializeVerificationConfigBuilder(given, rest) ==
  Built(InitializeVerificationConfigAccounts, {"system_program"}, given, rest)
InitializeVerificationConfigCpi(given, rest) ==
  Invoked(InitializeVerificationConfigAccounts, given, rest)

UpdateVerificationConfigAccounts ==
  EitherOverhead \o
  <<WritableSigner("payer"), Readonly("mint_account"),
    Writable("config_account"), Readonly("system_program"),
    OptionalWritable("account_metas_pda"),
    OptionalReadonly("transfer_hook_pda"),
    OptionalReadonly("transfer_hook_program")>>
UpdateVerificationConfigBuilder(given, rest) ==
  Built(UpdateVerificationConfigAccounts, {"system_program"}, given, rest)
UpdateVerificationConfigCpi(given, rest) ==
  Invoked(UpdateVerificationConfigAccounts, given, rest)

TrimVerificationConfigAccounts ==
  EitherOverhead \o
  <<Readonly("mint_account"), Writable("config_account"),
    Writable("recipient"), Readonly("system_program"),
    OptionalWritable("account_metas_pda"),
    OptionalReadonly("transfer_hook_pda"),
    OptionalReadonly("transfer_hook_program")>>
TrimVerificationConfigBuilder(given, rest) ==
  Built(TrimVerificationConfigAccounts, {"system_program"}, given, rest)
TrimVerificationConfigCpi(given, rest) ==
  Invoked(TrimVerificationConfigAccounts, given, rest)

VerifyAccounts ==
  ProgramsOverhead
VerifyBuilder(given, rest) ==
  Built(VerifyAccounts, {"instructions_sysvar"}, given, rest)
VerifyCpi(given, rest) == Invoked(VerifyAccounts, given, rest)

MintAccounts ==
  ProgramsOverhead \o
  <<Readonly("mint_authority"), Writable("mint_account"),
    Writable("destination"), Readonly("token_program")>>
MintBuilder(given, rest) ==
  Built(MintAccounts, {"instructions_sysvar", "token_program"}, given, rest)
MintCpi(given, rest) == Invoked(MintAccounts, given, rest)

BurnAccounts ==
  ProgramsOverhead \o
  <<Readonly("permanent_delegate"), Writable("mint_account"),
    Writable("token_account"), Readonly("token_program")>>
BurnBuilder(given, rest) ==
  Built(BurnAccounts, {"instructions_sysvar", "token_program"}, given, rest)
BurnCpi(given, rest) == Invoked(BurnAccounts, given, rest)

PauseAccounts ==
  ProgramsOverhead \o
  <<Readonly("pause_authority"), Writable("mint_account"),
    Readonly("token_program")>>
PauseBuilder(given, rest) ==
  Built(PauseAccounts, {"instructions_sysvar", "token_program"}, given, rest)
PauseCpi(given, rest) == Invoked(PauseAccounts, given, rest)

ResumeAccounts ==
  ProgramsOverhead \o
  <<Readonly("pause_authority"), Writable("mint_account"),
    Readonly("token_program")>>
ResumeBuilder(given, rest) ==
  Built(ResumeAccounts, {"instructions_sysvar", "token_program"}, given, rest)
ResumeCpi(given, rest) == Invoked(ResumeAccounts, given, rest)

FreezeAccounts ==
  ProgramsOverhead \o
  <<Readonly("freeze_authority"), Readonly("mint_account"),
    Writable("token_account"), Readonly("token_program")>>
FreezeBuilder(given, rest) ==
  Built(FreezeAccounts, {"instructions_sysvar", "token_program"}, given, rest)
FreezeCpi(given, rest) == Invoked(FreezeAccounts, given, rest)

ThawAccounts ==
  ProgramsOverhead \o
  <<Readonly("freeze_authority"), Readonly("mint_account"),
    Writable("token_account"), Readonly("token_program")>>
ThawBuilder(given, rest) ==
  Built(ThawAccounts, {"instructions_sysvar", "token_program"}, given, rest)
ThawCpi(given, rest) == Invoked(ThawAccounts, given, rest)

TransferAccounts ==
  ProgramsOverhead \o
  <<Readonly("permanent_delegate_authority"), Readonly("mint_account"),
    Writable("from_token_account"), Writable("to_token_account"),
    Readonly("transfer_hook_program"), Readonly("token_program")>>
TransferBuilder(given, rest) ==
  Built(TransferAccounts, {"instructions_sysvar", "token_program"},
        given, rest)
TransferCpi(given, rest) == Invoked(TransferAccounts, given, rest)

CreateRateAccountAccounts ==
  EitherOverhead \o
  <<WritableSigner("payer"), Writable("rate_account"), Readonly("mint_from"),
    Readonly("mint_to"), Readonly("system_program")>>
CreateRateAccountBuilder(given, rest) ==
  Built(CreateRateAccountAccounts, {"system_program"}, given, rest)
CreateRateAccountCpi(given, rest) ==
  Invoked(CreateRateAccountAccounts, given, rest)

UpdateRateAccountAccounts ==
  EitherOverhead \o
  <<Writable("rate_account"), Readonly("mint_from"), Readonly("mint_to")>>
UpdateRateAccountBuilder(given, rest) ==
  Built(UpdateRateAccountAccounts, {}, given, rest)
UpdateRateAccountCpi(given, rest) ==
  Invoked(UpdateRateAccountAccounts, given, rest)

CloseRateAccountAccounts ==
  EitherOverhead \o
  <<Writable("rate_account"), Writable("destination"), Readonly("mint_from"),
    Readonly("mint_to")>>
CloseRateAccountBuilder(given, rest) ==
  Built(CloseRateAccountAccounts, {}, given, rest)
CloseRateAccountCpi(given, rest) ==
  Invoked(CloseRateAccountAccounts, given, rest)

SplitAccounts ==
  ProgramsOverhead \o
  <<Readonly("mint_authority"), Readonly("permanent_delegate"),
    WritableSigner("payer"), Writable("mint_account"),
    Writable("token_account"), Readonly("rate_account"),
    Writable("receipt_account"), Readonly("token_program"),
    Readonly("system_program")>>
SplitBuilder(given, rest) ==
  Built(SplitAccounts, {"instructions_sysvar", "token_program", "system_program"}, given, rest)
SplitCpi(given, rest) == Invoked(SplitAccounts, given, rest)

ConvertAccounts ==
  ProgramsOverhead \o
  <<Readonly("mint_authority"), Readonly("permanent_delegate"),
    WritableSigner("payer"), Writable("mint_from"), Writable("mint_to"),
    Writable("token_account_from"), Writable("token_account_to"),
    Readonly("rate_account"), Writable("receipt_account"),
    Readonly("token_program"), Readonly("system_program")>>
ConvertBuilder(given, rest) ==
  Built(ConvertAccounts, {"instructions_sysvar", "token_program", "system_program"}, given, rest)
ConvertCpi(given, rest) == Invoked(ConvertAccounts, given, rest)

CreateProofAccountAccounts ==
  ProgramsOverhead \o
  <<WritableSigner("payer"), Readonly("mint_account"),
    Writable("proof_account"), Readonly("token_account"),
    Readonly("system_program")>>
CreateProofAccountBuilder(given, rest) ==
  Built(CreateProofAccountAccounts, {"instructions_sysvar", "system_program"},
        given, rest)
CreateProofAccountCpi(given, rest) ==
  Invoked(CreateProofAccountAccounts, given, rest)

UpdateProofAccountAccounts ==
  ProgramsOverhead \o
  <<WritableSigner("payer"), Readonly("mint_account"),
    Writable("proof_account"), Readonly("token_account"),
    Readonly("system_program")>>
UpdateProofAccountBuilder(given, rest) ==
  Built(UpdateProofAccountAccounts, {"instructions_sysvar", "system_program"},
        given, rest)
UpdateProofAccountCpi(given, rest) ==
  Invoked(UpdateProofAccountAccounts, given, rest)

CreateDistributionEscrowAccounts ==
  EitherOverhead \o
  <<Readonly("distribution_escrow_authority"), WritableSigner("payer"),
    Writable("distribution_token_account"), Readonly("distribution_mint"),
    Readonly("token_program"), Readonly("associated_token_account_program"),
    Readonly("system_program")>>
CreateDistributionEscrowBuilder(given, rest) ==
  Built(CreateDistributionEscrowAccounts, {"token_program", "system_program"},
        given, rest)
CreateDistributionEscrowCpi(given, rest) ==
  Invoked(CreateDistributionEscrowAccounts, given, rest)

ClaimDistributionAccounts ==
  ProgramsOverhead \o
  <<Readonly("permanent_delegate_authority"), WritableSigner("payer"),
    Readonly("mint_account"), Writable("eligible_token_account"),
    OptionalWritable("escrow_token_account"), Writable("receipt_account"),
    OptionalReadonly("proof_account"), Readonly("transfer_hook_program"),
    Readonly("token_program"), Readonly("system_program")>>
ClaimDistributionBuilder(given, rest) ==
  Built(ClaimDistributionAccounts, {"instructions_sysvar", "token_program", "system_program"}, given, rest)
ClaimDistributionCpi(given, rest) ==
  Invoked(ClaimDistributionAccounts, given, rest)

CloseActionReceiptAccountAccounts ==
  EitherOverhead \o
  <<Writable("receipt_account"), Writable("destination"),
    Readonly("mint_account")>>
CloseActionReceiptAccountBuilder(given, rest) ==
  Built(CloseActionReceiptAccountAccounts, {}, given, rest)
CloseActionReceiptAccountCpi(given, rest) ==
  Invoked(CloseActionReceiptAccountAccounts, given, rest)

CloseClaimReceiptAccountAccounts ==
  EitherOverhead \o
  <<Writable("receipt_account"), Writable("destination"),
    Readonly("mint_account"), Readonly("eligible_token_account"),
    OptionalReadonly("proof_account")>>
CloseClaimReceiptAccountBuilder(given, rest) ==
  Built(CloseClaimReceiptAccountAccounts, {}, given, rest)
CloseClaimReceiptAccountCpi(given, rest) ==
  Invoked(CloseClaimReceiptAccountAccounts, given, rest)

UpdateDefaultAccountStateAccounts ==
  EitherOverhead \o
  <<Readonly("freeze_authority"), Writable("mint_account"),
    Readonly("token_program")>>
UpdateDefaultAccountStateBuilder(given, rest) ==
  Built(UpdateDefaultAccountStateAccounts, {"token_program"}, given, rest)
UpdateDefaultAccountStateCpi(given, rest) ==
  Invoked(UpdateDefaultAccountStateAccounts, given, rest)
=============================================================================
