---------------------------- MODULE MintLifecycle ----------------------------
(***************************************************************************)
(* One mint from its creation on: initialize_mint, update_metadata and     *)
(* update_default_account_state (program/src/modules/verification.rs).     *)
(* initialize_mint creates the account with the extensions asked for, hands*)
(* every authority over to addresses derived by the program, and leaves a  *)
(* MintAuthority account that names the creator.  update_metadata replaces *)
(* the metadata kept in the mint, whose size, and so whose rent, changes   *)
(* with it.                                                                *)
(*                                                                         *)
(* Token-2022 keeps the mint; what it checks and does is modelled with the *)
(* call that asks for it.  The authority of the metadata pointer is a key  *)
(* of the client's, who may use it without the program, and anybody may    *)
(* send lamports to an address before an account is created there.  An     *)
(* instruction that leaves an account short of its rent is undone by the   *)
(* runtime.  Sizes are bytes; a lamport is the rent of one byte.           *)
(***************************************************************************)
EXTENDS Integers, SequencesExt

CONSTANTS
  Creators,       \* wallets that may create the mint
  MintKey,        \* the address of the mint
  None,           \* an argument that is left out
  OtherAddresses, \* addresses external metadata may be at
  Keys,           \* keys of additional metadata
  KeyLen,         \* KeyLen[k]: the length of a key
  ValueLens,      \* lengths of the values of additional metadata
  NameLens,       \* lengths of the name, symbol and uri together
  Requests,       \* lists of additional metadata an instruction may carry
  MaxRemembered,  \* the rows of fields_buffer
  MaxKeptKey,     \* the bytes in a row of fields_buffer
  Overhead        \* ACCOUNT_STORAGE_OVERHEAD

ASSUME MintAssumption ==
  /\ MintKey \notin OtherAddresses
  /\ KeyLen \in [Keys -> Nat]
  /\ ValueLens \subseteq Nat
  /\ NameLens \subseteq Nat
  /\ MaxRemembered \in Nat
  /\ MaxKeptKey \in Nat
  /\ Overhead \in Nat

VARIABLES
  mint,         \* the mint account, without its metadata
  metadata,     \* its TokenMetadata extension
  lamports,     \* the lamports of the mint account
  authorities   \* the lamports and owner of every creator's MintAuthority address

mintVars == <<mint, metadata, lamports, authorities>>

-----------------------------------------------------------------------------
(* Addresses derived from the mint, by their seeds (utils.rs)               *)
MintAuthorityPda(creator) == <<"mint.authority", creator>>
FreezeAuthorityPda == <<"mint.freeze_authority">>
DelegatePda == <<"mint.permanent_delegate">>
HookPda == <<"mint.transfer_hook">>
PausePda == <<"mint.pause_authority">>

(* Accounts that are not there  *)
NoMint == [exists |-> FALSE]
NoMetadata == [exists |-> FALSE]

(* The account of a MintAuthority address *)
Vacant == "vacant"         \* no account
Prefunded == "prefunded"   \* lamports, and no data
Created == "created"       \* the MintAuthority account

(* calculate_mint_size_with_extensions *)
ExtensionLen ==
  [PermanentDelegate |-> 32, TransferHook |-> 64, Pausable |-> 33,
   MetadataPointer |-> 64, ScaledUiAmount |-> 56, DefaultAccountState |-> 1]

ExtensionsOf(args) ==
  {"PermanentDelegate", "TransferHook", "Pausable"}
    \cup (IF args.pointer # None THEN {"MetadataPointer"} ELSE {})
    \cup (IF args.scaled THEN {"ScaledUiAmount"} ELSE {})
    \cup (IF args.state # None THEN {"DefaultAccountState"} ELSE {})

MintSize(extensions) ==
  82 + 83 + 1 + SumFunctionOnSet([e \in extensions |-> 4 + ExtensionLen[e]], extensions)

(* Rent::minimum_balance *)
MinimumBalance(size) == Overhead + size

-----------------------------------------------------------------------------
(***************************************************************************)
(* Additional metadata is a list of fields [key, len], as Token-2022 keeps *)
(* it and as an instruction carries it: one that Token-2022 keeps has      *)
(* every key once, the other may repeat keys.                              *)
(***************************************************************************)
FieldLen(field) == 4 + KeyLen[field.key] + 4 + field.len
FieldsLen(fields) ==
  SumFunctionOnSet([i \in DOMAIN fields |-> FieldLen(fields[i])], DOMAIN fields)
KeysIn(fields) == {fields[i].key : i \in DOMAIN fields}

(* parse_additional_metadata refuses longer keys and values. *)
KeysParse(fields) == \A i \in DOMAIN fields : KeyLen[fields[i].key] <= 256
Parses(fields) ==
  \A i \in DOMAIN fields : KeyLen[fields[i].key] <= 256 /\ fields[i].len <= 1024

(* calculate_metadata_tlv_size: headers, two addresses and four lengths     *)
NoFieldHeaders(names, fields) ==
  4 + 64 + 12 + names + 4
    + SumFunctionOnSet([i \in DOMAIN fields |-> FieldLen(fields[i]) - 8], DOMAIN fields)
MetadataSize(names, fields) == 4 + 64 + 12 + names + 4 + FieldsLen(fields)

(* What Token-2022 uses for the extension, header included                  *)
KeptSize(md) ==
  IF md.exists
    THEN 4 + 64 + 16 + md.names + FieldsLen(md.fields)
    ELSE 0

(* UpdateField(Key) of Token-2022: replace the field or append it.          *)
FieldUpdated(fields, field) ==
  IF field.key \in KeysIn(fields)
    THEN [i \in DOMAIN fields |-> IF fields[i].key = field.key THEN field ELSE fields[i]]
    ELSE Append(fields, field)

FieldsUpdated(fields, request) ==
  LET after[i \in 0 .. Len(request)] ==
        IF i = 0 THEN fields ELSE FieldUpdated(after[i - 1], request[i])
  IN  after[Len(request)]

(* The fields whose keys are not in gone, in the order they are in          *)
Without(fields, gone) ==
  LET kept[i \in 0 .. Len(fields)] ==
        IF i = 0 THEN << >>
        ELSE IF fields[i].key \in gone THEN kept[i - 1]
        ELSE Append(kept[i - 1], fields[i])
  IN  kept[Len(fields)]

(* The keys update_metadata remembers: the first that fit the buffer        *)
ShortFields(fields) == Without(fields, {k \in Keys : KeyLen[k] > MaxKeptKey})
Remembered(fields) ==
  LET short == ShortFields(fields)
  IN  {short[i].key : i \in {j \in DOMAIN short : j <= MaxRemembered}}

(* RemoveKey for what is remembered and not asked for any more              *)
RemovedUnlessEmpty(fields, request) ==
  IF request = << >> THEN fields ELSE Without(fields, Remembered(fields) \ KeysIn(request))
ObsoleteRemoved(fields, request) == Without(fields, Remembered(fields) \ KeysIn(request))

-----------------------------------------------------------------------------
(* InitializeMintArgs::validate, and the rules of the two kinds of pointer. *)
IsInternal(args) == args.pointer # None /\ args.pointer.address = MintKey
ValidArgs(args) ==
  /\ args.metadata # None => args.pointer # None
  /\ args.state \in {None, "Initialized", "Frozen"}
  /\ args.pointer # None => (IsInternal(args) <=> args.metadata # None)

(* The freeze authority the client names must be the program's.             *)
AnyFreezeAuthority(args) == args.freezeAuthority # None
FreezeAuthorityMatches(args) == args.freezeAuthority = FreezeAuthorityPda

(* What initialize_mint leaves in the mint account *)
InitializedMint(creator, args) ==
  [exists          |-> TRUE,
   mintAuthority   |-> MintAuthorityPda(creator),
   freezeAuthority |-> args.freezeAuthority,
   delegate        |-> DelegatePda,
   hookAuthority   |-> HookPda,
   pauseAuthority  |-> PausePda,
   pointer         |-> args.pointer,
   scaled          |-> args.scaled,
   state           |-> args.state]

InitializedMetadata(creator, args) ==
  IF args.metadata = None THEN NoMetadata
  ELSE [exists          |-> TRUE,
        updateAuthority |-> MintAuthorityPda(creator),
        names           |-> args.metadata.names,
        fields          |-> FieldsUpdated(<< >>, args.metadata.fields)]

InitialRent(args) ==
  MinimumBalance(MintSize(ExtensionsOf(args)) +
                   IF args.metadata = None THEN 0
                   ELSE MetadataSize(args.metadata.names, args.metadata.fields))

(* The size Token-2022 gives the account, and its rent *)
SizeOf(m, md) == MintSize(ExtensionsOf(m)) + KeptSize(md)
RentHeld(m, md, balance) == balance >= MinimumBalance(SizeOf(m, md))

(* What initialize_mint and the calls it makes check.  The creator is the   *)
(* mint authority until it is handed over; the metadata come after that.    *)
CanInitializeMint(creator, args) ==
  /\ ValidArgs(args)
  /\ authorities[creator] = Vacant
  /\ args.mintAuthority = creator
  /\ FreezeAuthorityMatches(args)
  /\ args.metadata # None => Parses(args.metadata.fields)
  /\ ~mint.exists
  /\ lamports = 0

InitializeMint(creator, args) ==
  /\ CanInitializeMint(creator, args)
  /\ mint' = InitializedMint(creator, args)
  /\ metadata' = InitializedMetadata(creator, args)
  /\ lamports' = InitialRent(args)
  /\ authorities' = [authorities EXCEPT ![creator] = Created]
  /\ RentHeld(mint', metadata', lamports')

-----------------------------------------------------------------------------
(* What update_metadata takes from the payer: nothing unless the metadata   *)
(* asked for are larger than the ones that are there.                       *)
Charge(names, request) ==
  LET new == MetadataSize(names, request)
      old == KeptSize(metadata)
  IN  IF new > old THEN MinimumBalance(new - old) ELSE 0

MetadataUpdated(names, request) ==
  [metadata EXCEPT !.names = names,
                   !.fields = FieldsUpdated(ObsoleteRemoved(@, request), request)]

(* A pointer to the mint is enough for the handler; UpdateField then fails  *)
(* if there are no metadata.                                                *)
CanUpdateMetadata(creator, request) ==
  /\ mint.exists
  /\ authorities[creator] = Created
  /\ mint.pointer # None /\ mint.pointer.address = MintKey
  /\ Parses(request)
  /\ metadata.exists
  /\ metadata.updateAuthority = MintAuthorityPda(creator)

UpdateMetadata(creator, names, request) ==
  /\ CanUpdateMetadata(creator, request)
  /\ metadata' = MetadataUpdated(names, request)
  /\ lamports' = lamports + Charge(names, request)
  /\ UNCHANGED <<mint, authorities>>
  /\ RentHeld(mint', metadata', lamports')

(* The extension has to be there, and the freeze authority's signature is   *)
(* the program's.                                                           *)
UpdateDefaultAccountState(state) ==
  /\ mint.exists
  /\ state \in {"Initialized", "Frozen"}
  /\ mint.freezeAuthority = FreezeAuthorityPda
  /\ mint.state # None
  /\ mint' = [mint EXCEPT !.state = state]
  /\ UNCHANGED <<metadata, lamports, authorities>>

-----------------------------------------------------------------------------
(* Token-2022's own instruction, signed by the pointer's authority          *)
RepointMetadata(address) ==
  /\ mint.exists
  /\ mint.pointer # None
  /\ mint' = [mint EXCEPT !.pointer.address = address]
  /\ UNCHANGED <<metadata, lamports, authorities>>

(* Anybody's transfer to an address that has no account yet                 *)
Prefund ==
  \/ /\ ~mint.exists
     /\ lamports = 0
     /\ lamports' = MinimumBalance(0)
     /\ UNCHANGED <<mint, metadata, authorities>>
  \/ \E creator \in Creators :
       /\ authorities[creator] = Vacant
       /\ authorities' = [authorities EXCEPT ![creator] = Prefunded]
       /\ UNCHANGED <<mint, metadata, lamports>>

-----------------------------------------------------------------------------
Pointers == {None} \cup [address : {MintKey} \cup OtherAddresses]
Fields == [key : Keys, len : ValueLens]
MetadataArgs == [names : NameLens, fields : Requests]
InitArgs ==
  [mintAuthority : Creators, freezeAuthority : Creators \cup {FreezeAuthorityPda},
   pointer : Pointers, metadata : {None} \cup MetadataArgs, scaled : BOOLEAN,
   state : {None, "Uninitialized", "Initialized", "Frozen"}]

ASSUME ArgumentsAssumption ==
  /\ None \notin [address : {MintKey} \cup OtherAddresses]
  /\ None \notin MetadataArgs
  /\ None \notin {"Uninitialized", "Initialized", "Frozen"}
  /\ Requests \subseteq Seq(Fields)

MintInit ==
  /\ mint = NoMint
  /\ metadata = NoMetadata
  /\ lamports = 0
  /\ authorities = [c \in Creators |-> Vacant]

MintNext ==
  \/ \E c \in Creators, args \in InitArgs : InitializeMint(c, args)
  \/ \E c \in Creators, names \in NameLens, request \in Requests :
       UpdateMetadata(c, names, request)
  \/ \E s \in {"Uninitialized", "Initialized", "Frozen"} : UpdateDefaultAccountState(s)
  \/ \E a \in {MintKey} \cup OtherAddresses : RepointMetadata(a)
  \/ Prefund

MintSpec == MintInit /\ [][MintNext]_mintVars

-----------------------------------------------------------------------------
(* The types of the mint's state.  Metadata never hold what the parser      *)
(* refuses, nor a key twice ("The program must avoid storing the same key   *)
(* twice", token22_extensions/metadata.rs).                                 *)
MintTypeOK ==
  /\ mint = NoMint \/ mint \in
       [exists : {TRUE}, mintAuthority : {MintAuthorityPda(c) : c \in Creators},
        freezeAuthority : Creators \cup {FreezeAuthorityPda}, delegate : {DelegatePda},
        hookAuthority : {HookPda}, pauseAuthority : {PausePda}, pointer : Pointers,
        scaled : BOOLEAN, state : {None, "Initialized", "Frozen"}]
  /\ metadata.exists =>
       /\ metadata.names \in NameLens
       /\ metadata.fields \in Seq(Fields)
       /\ \A i \in DOMAIN metadata.fields : metadata.fields[i].len <= 1024
       /\ Cardinality(KeysIn(metadata.fields)) = Len(metadata.fields)
  /\ lamports \in Nat
  /\ authorities \in [Creators -> {Vacant, Prefunded, Created}]

(* A mint and the MintAuthority account that signs for it exist together,   *)
(* whoever funds which address first and whoever else tries to create the   *)
(* mint; there is one such account, the mint and its metadata answer to it, *)
(* and to no key of a client's, and every other authority is the one the    *)
(* handlers sign as.                                                        *)
AuthoritiesHeld ==
  /\ mint.exists <=> \E c \in Creators : authorities[c] = Created
  /\ \A c \in Creators : authorities[c] = Created =>
       /\ \A d \in Creators : authorities[d] = Created => d = c
       /\ mint.mintAuthority = MintAuthorityPda(c)
       /\ mint.freezeAuthority = FreezeAuthorityPda
       /\ mint.delegate = DelegatePda
       /\ mint.pauseAuthority = PausePda
       /\ mint.hookAuthority = HookPda
       /\ metadata.exists => metadata.updateAuthority = MintAuthorityPda(c)

(* The keys update_metadata cannot remove: too long for a row of its        *)
(* buffer, or after as many short ones as it has rows.                      *)
IsShort(field) == KeyLen[field.key] <= MaxKeptKey
Unremovable(fields) ==
  {fields[i].key : i \in {j \in DOMAIN fields :
     IsShort(fields[j]) => Cardinality({k \in 1 .. j - 1 : IsShort(fields[k])}) >= MaxRemembered}}

(* "Updates the token metadata stored in the mint account" (docs): the      *)
(* fields afterwards are the ones asked for, each with the last value asked *)
(* for it, and of those that were there before only the ones that           *)
(* update_metadata cannot remove.                                           *)
FieldsAsRequested ==
  metadata.exists =>
    \A names \in NameLens, request \in Requests :
      LET old == metadata.fields
          new == MetadataUpdated(names, request).fields
      IN  /\ KeysIn(new) = KeysIn(request) \cup Unremovable(old)
          /\ \A i \in DOMAIN new :
               IF new[i].key \in KeysIn(request)
                 THEN \E j \in DOMAIN request :
                        /\ request[j] = new[i]
                        /\ \A k \in DOMAIN request : k > j => request[k].key # new[i].key
                 ELSE \E j \in DOMAIN old : old[j] = new[i]

(* Rent stops no instruction the handlers accept: initialize_mint pays for  *)
(* all it creates, and an update pays for what it adds, as long as it asks  *)
(* again for the fields it cannot remove.                                   *)
RentNeverStops ==
  /\ ~mint.exists =>
       \A c \in Creators, args \in InitArgs :
         CanInitializeMint(c, args) =>
           RentHeld(InitializedMint(c, args), InitializedMetadata(c, args), InitialRent(args))
  /\ \A c \in Creators, names \in NameLens, request \in Requests :
       /\ CanUpdateMetadata(c, request)
       /\ Unremovable(metadata.fields) \subseteq KeysIn(request)
       => RentHeld(mint, MetadataUpdated(names, request), lamports + Charge(names, request))
=============================================================================
