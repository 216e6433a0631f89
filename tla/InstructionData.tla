-------------------------- MODULE InstructionData --------------------------
(***************************************************************************)
(* The data of instructions and accounts, as the program and as the        *)
(* generated client reads it.  Each has its own description of the same    *)
(* bytes: the parsers of program/src/instructions and program/src/state    *)
(* are written by hand, the types of clients/rust are generated and read   *)
(* by borsh.  The example verification program uses the client's types, so *)
(* it judges what the client reads while the program does what it reads    *)
(* itself.                                                                 *)
(*                                                                         *)
(* Bytes are abstracted to cells: a number, an address, a tree node, the   *)
(* flag of an option and the length of a list are a cell each, a boolean   *)
(* is 0 or 1.  Data that ends inside a cell is treated as data that ends   *)
(* before it: both are refused wherever the cell is needed.  A slice out   *)
(* of range aborts the program, which is a refusal too.                    *)
(***************************************************************************)
EXTENDS Integers, Sequences

CONSTANTS
  Cells,          \* bound: the contents of a cell, 0..n
  Discriminants,  \* the cells that stand for an instruction
  MaxPrograms,    \* MAX_VERIFICATION_PROGRAMS, scaled down
  MaxNodes,      \* MAX_PROOF_LEVELS, scaled down
  MaxVerifyLen,   \* MAX_INSTRUCTION_DATA_LEN, scaled down
  Values(_),      \* bound: the values of a description that are sent
  MaxEdits,       \* bound: edits of a message
  ShortMessage    \* bound: messages up to this length are edited again

(* A boolean, a state and a discriminator are cells, and so is the length    *)
(* of any list that the program accepts.                                     *)
ASSUME CellsAssumption ==
  /\ Cells \subseteq Nat /\ 0..4 \subseteq Cells /\ Discriminants \subseteq Cells
  /\ 1..MaxPrograms \subseteq Cells /\ 1..MaxNodes \subseteq Cells
  /\ 0..MaxVerifyLen \subseteq Cells

VARIABLE wire     \* a message on its way to its two readers

-----------------------------------------------------------------------------
(***************************************************************************)
(* Descriptions.  A description is a sequence of fields, each with a name  *)
(* and a kind, and is exact if nothing may follow them.  A strict option   *)
(* has the flag 0 or 1; of a loose one, anything but 1 is none, and so is  *)
(* the end of the data.  A flag is true unless it is 0; a boolean is 0     *)
(* or 1.  The value of a description is a function from the names.         *)
(***************************************************************************)
CellIn(allowed) == [is |-> "cell", allowed |-> allowed]
AnyCell == CellIn(Cells)
NonZero == CellIn(Cells \ {0})
Flag == [is |-> "flag"]
Boolean == CellIn({0, 1})
ListOf(lengths, allowed) == [is |-> "list", lengths |-> lengths, allowed |-> allowed]
AnyList == ListOf(Cells, Cells)
Optional(fields) == [is |-> "option", strict |-> TRUE, fields |-> fields]
LooseOptional(fields) == [is |-> "option", strict |-> FALSE, fields |-> fields]

Exact(fields) == [fields |-> fields, open |-> FALSE]
Open(fields) == [fields |-> fields, open |-> TRUE]

(* Reading takes a value from the front of the data: one result, or none.   *)
Result(value, rest) == [value |-> value, rest |-> rest]

ReadList(kind, data) ==
  {Result(SubSeq(data, 2, n + 1), SubSeq(data, n + 2, Len(data))) :
     n \in {m \in kind.lengths : /\ data[1] = m /\ m < Len(data)
                                 /\ \A i \in 2..m+1 : data[i] \in kind.allowed}}

ReadPlain(kind, data) ==
  CASE data = << >> -> {}
    [] data # << >> /\ kind.is = "list" -> ReadList(kind, data)
    [] data # << >> /\ kind.is = "cell" ->
         {Result(c, Tail(data)) : c \in {data[1]} \cap kind.allowed}
    [] data # << >> /\ kind.is = "flag" ->
         {Result(IF data[1] = 0 THEN 0 ELSE 1, Tail(data))}

(* What is read after a field of what came before is one value more.        *)
With(value, name, field) ==
  [n \in DOMAIN value \cup {name} |-> IF n = name THEN field ELSE value[n]]

FieldsInTurn(ReadOne(_, _), fields, data) ==
  LET upTo[n \in 0..Len(fields)] ==
        IF n = 0 THEN {Result(<< >>, data)}
        ELSE UNION {{Result(With(before.value, fields[n][1], next.value), next.rest) :
                       next \in ReadOne(fields[n][2], before.rest)} : before \in upTo[n - 1]}
  IN  upTo[Len(fields)]

ReadOption(kind, data) ==
  CASE data = << >> -> IF kind.strict THEN {} ELSE {Result(<< >>, data)}
    [] data # << >> /\ Head(data) = 1 ->
         {Result(<<some.value>>, some.rest) :
            some \in FieldsInTurn(ReadPlain, kind.fields, Tail(data))}
    [] OTHER -> IF kind.strict /\ Head(data) # 0 THEN {} ELSE {Result(<< >>, Tail(data))}

ReadKind(kind, data) ==
  IF kind.is = "option" THEN ReadOption(kind, data) ELSE ReadPlain(kind, data)

ReadFields(fields, data) == FieldsInTurn(ReadKind, fields, data)

Read(description, data) ==
  {r.value : r \in {result \in ReadFields(description.fields, data) :
                      description.open \/ result.rest = << >>}}

Concatenated(parts) ==
  LET last[n \in 0..Len(parts)] ==
        IF n = 0 THEN << >> ELSE parts[Len(parts) - n + 1] \o last[n - 1]
  IN  last[Len(parts)]

WritePlain(kind, value) == IF kind.is = "list" THEN <<Len(value)>> \o value ELSE <<value>>

WritePlains(fields, value) ==
  Concatenated([i \in DOMAIN fields |-> WritePlain(fields[i][2], value[fields[i][1]])])

WriteKind(kind, value) ==
  CASE kind.is = "option" /\ value = << >> -> <<0>>
    [] kind.is = "option" /\ value # << >> -> <<1>> \o WritePlains(kind.fields, value[1])
    [] OTHER -> WritePlain(kind, value)

Write(fields, value) ==
  Concatenated([i \in DOMAIN fields |-> WriteKind(fields[i][2], value[fields[i][1]])])

(* The values of a field of a kind and of the fields of a description.      *)
PlainValue(kind, value) ==
  CASE kind.is = "list" -> value \in Seq(kind.allowed) /\ Len(value) \in kind.lengths
    [] kind.is = "cell" -> value \in kind.allowed
    [] kind.is = "flag" -> value \in {0, 1}

FieldValues(IsValue(_, _), fields, value) ==
  /\ value = [name \in {fields[i][1] : i \in DOMAIN fields} |-> value[name]]
  /\ \A i \in DOMAIN fields : IsValue(fields[i][2], value[fields[i][1]])

KindValue(kind, value) ==
  IF kind.is = "option"
    THEN \/ value = << >>
         \/ value = <<value[1]>> /\ FieldValues(PlainValue, kind.fields, value[1])
    ELSE PlainValue(kind, value)

IsValueOf(fields, value) == FieldValues(KindValue, fields, value)

-----------------------------------------------------------------------------
(***************************************************************************)
(* The program's readers of instructions: try_from_bytes, with the checks  *)
(* of validate where the processor calls it.                               *)
(***************************************************************************)
ActionId == NonZero
BoundedNodes == ListOf(1..MaxNodes, Cells \ {0})
Nodes == ListOf(Cells \ {0}, Cells \ {0})
MerkleProof == <<"merkle_proof", Optional(<<<<"nodes", BoundedNodes>>>>)>>
AccountState == CellIn({1, 2})

RateConfig ==
  <<<<"rounding", Boolean>>, <<"numerator", NonZero>>, <<"denominator", NonZero>>>>
ActionAndRateArgs == Exact(<<<<"action_id", ActionId>>>> \o RateConfig)
CreateRateArgs == ActionAndRateArgs
UpdateRateArgs == ActionAndRateArgs
CloseRateArgs == Exact(<<<<"action_id", ActionId>>>>)
SplitArgs == Exact(<<<<"action_id", ActionId>>>>)
AmountFirst == Exact(<<<<"amount_to_convert", NonZero>>, <<"action_id", ActionId>>>>)

ConvertArgs == Exact(<<<<"action_id", ActionId>>, <<"amount_to_convert", NonZero>>>>)
CreateProofArgs == Open(<<<<"action_id", ActionId>>, <<"data", Nodes>>>>)
UpdateProofArgs ==
  Exact(<<<<"action_id", ActionId>>, <<"data", NonZero>>, <<"offset", AnyCell>>>>)
CreateDistributionEscrowArgs ==
  Exact(<<<<"action_id", ActionId>>, <<"merkle_root", NonZero>>>>)
ClaimDistributionArgs ==
  Open(<<<<"action_id", ActionId>>, <<"amount", NonZero>>, <<"merkle_root", NonZero>>,
         <<"leaf_index", AnyCell>>, MerkleProof>>)
CloseActionReceiptArgs == Exact(<<<<"action_id", ActionId>>, <<"token_account", AnyCell>>>>)
CloseClaimReceiptArgs ==
  Open(<<<<"action_id", ActionId>>, MerkleProof>>)

InitializeVerificationConfigArgs ==
  Open(<<<<"instruction_discriminator", AnyCell>>, <<"cpi_mode", Flag>>,
         <<"program_addresses", ListOf(1..MaxPrograms, Cells \ {0})>>>>)
UpdateVerificationConfigArgs ==
  Open(<<<<"instruction_discriminator", AnyCell>>, <<"cpi_mode", Flag>>, <<"offset", AnyCell>>,
         <<"program_addresses", ListOf(Cells, Cells \ {0})>>>>)
RawClose ==
  Open(<<<<"instruction_discriminator", AnyCell>>, <<"size", AnyCell>>, <<"close", AnyCell>>>>)

TrimVerificationConfigArgs ==
  Open(<<<<"instruction_discriminator", AnyCell>>, <<"size", AnyCell>>, <<"close", Flag>>>>)
VerifyArgs ==
  Open(<<<<"ix", CellIn(Discriminants)>>,
         <<"instruction_data", ListOf(0..MaxVerifyLen, Cells)>>>>)

MintArgs ==
  <<<<"decimals", AnyCell>>, <<"mint_authority", AnyCell>>, <<"freeze_authority", AnyCell>>>>
MetadataPointerArgs == <<<<"authority", AnyCell>>, <<"metadata_address", AnyCell>>>>
TokenMetadataArgs ==
  <<<<"name", AnyList>>, <<"symbol", AnyList>>, <<"uri", AnyList>>,
    <<"additional_metadata", AnyList>>>>
ScaledUiAmountConfigArgs ==
  <<<<"authority", AnyCell>>, <<"multiplier", AnyCell>>,
    <<"new_multiplier_effective_timestamp", AnyCell>>, <<"new_multiplier", AnyCell>>>>
InitializeMintArgs ==
  Open(MintArgs \o
       <<<<"ix_metadata_pointer", LooseOptional(MetadataPointerArgs)>>,
         <<"ix_metadata", LooseOptional(TokenMetadataArgs)>>,
         <<"ix_scaled_ui_amount", LooseOptional(ScaledUiAmountConfigArgs)>>,
         <<"ix_default_account_state", LooseOptional(<<<<"state", AccountState>>>>)>>>>)
UpdateMetadataArgs == Open(TokenMetadataArgs)
UpdateDefaultAccountStateArgs == Open(<<<<"state", AccountState>>>>)

(* process_mint, process_burn and process_transfer read the amount alone.   *)
ProcessAmount == Open(<<<<"amount", AnyCell>>>>)

(* Accounts: the discriminator, and what the handlers store.                *)
MintAuthority ==
  Exact(<<<<"discriminator", CellIn({0})>>, <<"mint", NonZero>>, <<"mint_creator", NonZero>>,
          <<"bump", AnyCell>>>>)
VerificationConfig ==
  Open(<<<<"discriminator", CellIn({1})>>, <<"instruction_discriminator", AnyCell>>,
         <<"cpi_mode", Flag>>, <<"bump", AnyCell>>,
         <<"verification_programs", ListOf(Cells \ {0}, Cells \ {0})>>>>)
HeaderlessRate ==
  Exact(<<<<"rounding", Boolean>>, <<"numerator", AnyCell>>, <<"denominator", AnyCell>>,
          <<"bump", AnyCell>>>>)
Rate ==
  Exact(<<<<"discriminator", CellIn({2})>>, <<"rounding", Boolean>>, <<"numerator", AnyCell>>,
          <<"denominator", AnyCell>>, <<"bump", AnyCell>>>>)
Proof == Open(<<<<"discriminator", CellIn({4})>>, <<"bump", AnyCell>>, <<"data", Nodes>>>>)

ProgramReads ==
  [InitializeMint |-> InitializeMintArgs, UpdateMetadata |-> UpdateMetadataArgs,
   InitializeVerificationConfig |-> InitializeVerificationConfigArgs,
   UpdateVerificationConfig |-> UpdateVerificationConfigArgs,
   TrimVerificationConfig |-> TrimVerificationConfigArgs, Verify |-> VerifyArgs,
   Mint |-> ProcessAmount, Burn |-> ProcessAmount, Transfer |-> ProcessAmount,
   CreateRateAccount |-> CreateRateArgs, UpdateRateAccount |-> UpdateRateArgs,
   CloseRateAccount |-> CloseRateArgs, Split |-> SplitArgs, Convert |-> ConvertArgs,
   CreateProofAccount |-> CreateProofArgs, UpdateProofAccount |-> UpdateProofArgs,
   CreateDistributionEscrow |-> CreateDistributionEscrowArgs,
   ClaimDistribution |-> ClaimDistributionArgs,
   CloseActionReceiptAccount |-> CloseActionReceiptArgs,
   CloseClaimReceiptAccount |-> CloseClaimReceiptArgs,
   UpdateDefaultAccountState |-> UpdateDefaultAccountStateArgs]

ProgramStores ==
  [MintAuthority |-> MintAuthority, VerificationConfig |-> VerificationConfig,
   Rate |-> Rate, Proof |-> Proof]

(* What validate asks of two fields together. *)
Valid(op, value) ==
  CASE op = "InitializeMint" -> value.ix_metadata # << >> => value.ix_metadata_pointer # << >>
    [] op = "UpdateVerificationConfig" ->
         /\ value.offset < MaxPrograms
         /\ value.offset + Len(value.program_addresses) <= MaxPrograms
    [] OTHER -> TRUE

ReadByProgram(op, data) ==
  IF op \in DOMAIN ProgramStores
    THEN Read(ProgramStores[op], data)
    ELSE {value \in Read(ProgramReads[op], data) : Valid(op, value)}

-----------------------------------------------------------------------------
(***************************************************************************)
(* The client's types (clients/rust/src/generated/types and accounts).     *)
(***************************************************************************)
ClientRateConfig ==
  <<<<"rounding", AnyCell>>, <<"numerator", AnyCell>>, <<"denominator", AnyCell>>>>
ClientCreateRateArgs == <<<<"action_id", AnyCell>>>> \o ClientRateConfig
ClientUpdateRateArgs == <<<<"action_id", AnyCell>>>> \o ClientRateConfig
ClientCloseRateArgs == <<<<"action_id", AnyCell>>>>
ClientSplitArgs == <<<<"action_id", AnyCell>>>>
ClientConvertArgs == <<<<"action_id", AnyCell>>, <<"amount_to_convert", AnyCell>>>>
ClientCreateProofArgs == <<<<"action_id", AnyCell>>, <<"data", AnyList>>>>
ClientUpdateProofArgs ==
  <<<<"action_id", AnyCell>>, <<"data", AnyCell>>, <<"offset", AnyCell>>>>
ClientCreateDistributionEscrowArgs == <<<<"action_id", AnyCell>>, <<"merkle_root", AnyCell>>>>
ClientClaimDistributionArgs ==
  <<<<"action_id", AnyCell>>, <<"amount", AnyCell>>, <<"merkle_root", AnyCell>>,
    <<"leaf_index", AnyCell>>, <<"merkle_proof", Optional(<<<<"nodes", AnyList>>>>)>>>>
ClientCloseActionReceiptArgs == <<<<"action_id", AnyCell>>, <<"token_account", AnyCell>>>>
ClientCloseClaimReceiptArgs ==
  <<<<"action_id", AnyCell>>, <<"merkle_proof", Optional(<<<<"nodes", AnyList>>>>)>>>>
ClientInitializeVerificationConfigArgs ==
  <<<<"instruction_discriminator", AnyCell>>, <<"cpi_mode", Boolean>>,
    <<"program_addresses", AnyList>>>>
ClientUpdateVerificationConfigArgs ==
  <<<<"instruction_discriminator", AnyCell>>, <<"cpi_mode", Boolean>>, <<"offset", AnyCell>>,
    <<"program_addresses", AnyList>>>>
ClientTrimVerificationConfigArgs ==
  <<<<"instruction_discriminator", AnyCell>>, <<"size", AnyCell>>, <<"close", Boolean>>>>
ClientVerifyArgs == <<<<"ix", AnyCell>>, <<"instruction_data", AnyList>>>>
ClientMintArgs ==
  <<<<"decimals", AnyCell>>, <<"mint_authority", AnyCell>>, <<"freeze_authority", AnyCell>>>>
ClientMetadataPointerArgs == <<<<"authority", AnyCell>>, <<"metadata_address", AnyCell>>>>
ClientTokenMetadataArgs ==
  <<<<"name", AnyList>>, <<"symbol", AnyList>>, <<"uri", AnyList>>,
    <<"additional_metadata", AnyList>>>>
ClientScaledUiAmountConfigArgs ==
  <<<<"authority", AnyCell>>, <<"multiplier", AnyCell>>,
    <<"new_multiplier_effective_timestamp", AnyCell>>, <<"new_multiplier", AnyCell>>>>
ClientInitializeMintArgs ==
  ClientMintArgs \o
  <<<<"ix_metadata_pointer", Optional(ClientMetadataPointerArgs)>>,
    <<"ix_metadata", Optional(ClientTokenMetadataArgs)>>,
    <<"ix_scaled_ui_amount", Optional(ClientScaledUiAmountConfigArgs)>>,
    <<"ix_default_account_state", Optional(<<<<"state", AnyCell>>>>)>>>>
ClientUpdateMetadataArgs == ClientTokenMetadataArgs
ClientUpdateDefaultAccountStateArgs == <<<<"state", AnyCell>>>>
ClientMintAuthority ==
  <<<<"discriminator", AnyCell>>, <<"mint", AnyCell>>, <<"mint_creator", AnyCell>>,
    <<"bump", AnyCell>>>>
ClientVerificationConfig ==
  <<<<"discriminator", AnyCell>>, <<"instruction_discriminator", AnyCell>>,
    <<"cpi_mode", Boolean>>, <<"bump", AnyCell>>, <<"verification_programs", AnyList>>>>
ClientRate ==
  <<<<"discriminator", AnyCell>>, <<"rounding", Boolean>>, <<"numerator", AnyCell>>,
    <<"denominator", AnyCell>>, <<"bump", AnyCell>>>>
ClientProof == <<<<"discriminator", AnyCell>>, <<"bump", AnyCell>>, <<"data", AnyList>>>>

(* verify_mint, verify_burn and verify_transfer of the verification program *)
VerifyAmount == Open(<<<<"amount", AnyCell>>>>)

(* try_from_slice wants the data used up; the accounts' from_bytes does not.*)
ClientReads ==
  [InitializeMint |-> Exact(ClientInitializeMintArgs),
   UpdateMetadata |-> Exact(ClientUpdateMetadataArgs),
   InitializeVerificationConfig |-> Exact(ClientInitializeVerificationConfigArgs),
   UpdateVerificationConfig |-> Exact(ClientUpdateVerificationConfigArgs),
   TrimVerificationConfig |-> Exact(ClientTrimVerificationConfigArgs),
   Verify |-> Exact(ClientVerifyArgs),
   Mint |-> VerifyAmount, Burn |-> VerifyAmount, Transfer |-> VerifyAmount,
   CreateRateAccount |-> Exact(ClientCreateRateArgs),
   UpdateRateAccount |-> Exact(ClientUpdateRateArgs),
   CloseRateAccount |-> Exact(ClientCloseRateArgs),
   Split |-> Exact(ClientSplitArgs), Convert |-> Exact(ClientConvertArgs),
   CreateProofAccount |-> Exact(ClientCreateProofArgs),
   UpdateProofAccount |-> Exact(ClientUpdateProofArgs),
   CreateDistributionEscrow |-> Exact(ClientCreateDistributionEscrowArgs),
   ClaimDistribution |-> Exact(ClientClaimDistributionArgs),
   CloseActionReceiptAccount |-> Exact(ClientCloseActionReceiptArgs),
   CloseClaimReceiptAccount |-> Exact(ClientCloseClaimReceiptArgs),
   UpdateDefaultAccountState |-> Exact(ClientUpdateDefaultAccountStateArgs),
   MintAuthority |-> Open(ClientMintAuthority),
   VerificationConfig |-> Open(ClientVerificationConfig),
   Rate |-> Open(ClientRate), Proof |-> Open(ClientProof)]

ReadByClient(op, data) == Read(ClientReads[op], data)

-----------------------------------------------------------------------------
(***************************************************************************)
(* Messages.  The client writes the data of instructions, the program that *)
(* of its accounts.  Anyone may send other data: a message is edited, cut  *)
(* short or added to before it is read; accounts are only read.            *)
(***************************************************************************)
NoData == [op |-> "none"]

FieldsOf(op) == IF op \in DOMAIN ProgramStores THEN ProgramStores[op].fields
                                               ELSE ProgramReads[op].fields

Written(op, value) ==
  Write(IF op \in DOMAIN ProgramStores THEN FieldsOf(op) ELSE ClientReads[op].fields, value)

ASSUME ValuesAssumption ==
  \A op \in DOMAIN ClientReads : \A value \in Values(FieldsOf(op)) :
    IsValueOf(FieldsOf(op), value)

InitData ==
  \E op \in DOMAIN ClientReads :
    \E value \in Values(FieldsOf(op)) :
      /\ Valid(op, value)
      /\ wire = [op |-> op, value |-> value, data |-> Written(op, value), edits |-> 0]

Edited(data) ==
  /\ wire.op \in DOMAIN ProgramReads
  /\ wire.edits < MaxEdits
  /\ wire.edits > 0 => Len(wire.data) <= ShortMessage
  /\ wire' = [wire EXCEPT !.data = data, !.edits = @ + 1]

CutShort == \E n \in 0..Len(wire.data)-1 : Edited(SubSeq(wire.data, 1, n))
AddedTo == \E c \in Cells : Edited(Append(wire.data, c))
Changed == \E i \in DOMAIN wire.data, c \in Cells : Edited([wire.data EXCEPT ![i] = c])

NextData == wire # NoData /\ (CutShort \/ AddedTo \/ Changed)

DataSpec == InitData /\ [][NextData]_wire

-----------------------------------------------------------------------------
(* What the client writes, the program reads as it was meant, and so does   *)
(* the verification program; what the program stores, the client reads: no  *)
(* parser of program/src/instructions or state, none of which shares code   *)
(* with the types of clients/rust, takes a field for its neighbour, starts  *)
(* it at another place or leaves one out.                                   *)
SentIsRead ==
  wire # NoData /\ wire.edits = 0 =>
    /\ ReadByProgram(wire.op, wire.data) = {wire.value}
    /\ ReadByClient(wire.op, wire.data) = {wire.value}

(* Whatever data is sent, the program and the verification program do not   *)
(* both accept it with different meanings: their treatment of flags, ends   *)
(* and options differs (InitializeMintArgs::try_from_bytes takes a flag of  *)
(* 2 for none and cpi_mode 2 is true, where borsh refuses), but not so as   *)
(* to have one amount, rate or list of programs approved and another used.  *)
JudgedIsActedOn ==
  wire # NoData =>
    \A acted \in ReadByProgram(wire.op, wire.data),
       judged \in ReadByClient(wire.op, wire.data) : acted = judged

(* Whatever data is sent, what the program takes from it is something the   *)
(* client could have sent: no combination of missing ends, stray flags and  *)
(* extra bytes gives the handlers arguments that have no proper encoding.   *)
NothingUnsayable ==
  wire # NoData /\ wire.op \in DOMAIN ProgramReads =>
    \A acted \in ReadByProgram(wire.op, wire.data) :
      /\ ReadByClient(wire.op, Written(wire.op, acted)) = {acted}
      /\ ReadByProgram(wire.op, Written(wire.op, acted)) = {acted}
=============================================================================
