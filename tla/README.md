# Security Token Program: a TLA+ verification project

This directory specifies the Solana security token program of this repository
(`program/`), its transfer hook (`transfer_hook/`), the split-guard
verification program (`examples/split-guard/`) and the interface that clients
and verification programs use (`clients/rust/`, `examples/`), model-checks the
specifications with TLC on small instances, and proves theorems about them
with TLAPS for every value of their constants. `PROJECT.json` maps every
definition to the source lines it stands for; paths below are relative to the
repository.

Run a model with `tlc -workers 2 -config MCSplitGuard.cfg MCSplitGuard.tla` and
the proofs with `tlapm VerificationConfigProofs.tla` (and the seven other `*Proofs.tla`).

## The system

A security token is a Token-2022 mint whose authorities (mint, freeze, pause,
permanent delegate, transfer hook) are addresses derived from the security
token program. Every operation on it is an instruction of that program, and
every instruction is first authorised: by the mint's creator, or by the
*verification programs* that a `VerificationConfig` account lists for the
instruction. A transaction is a sequence of instructions on one state, rolled
back together when one fails; transactions that share a writable account run
one after the other. So an action here is one successful instruction, and what
is concurrent is who sends which instruction when.

| Component | State it keeps | Operations | Module |
| --- | --- | --- | --- |
| Verification configurations (`modules/verification.rs`, `state/verification.rs`) | per instruction: CPI flag, stored count, program slots, account size, lamports | initialize, update, trim, close | `VerificationConfig`, abstractly `ConfigRegistry` |
| Transfer hook's account-metas list (`transfer_hook/src/lib.rs`) | the list Token-2022 resolves on a transfer, its owner, its lamports | initialize, update, called by CPI from the former | `ExtraAccountMetas` |
| Authorization (`processor.rs`, `modules/verification.rs`, `modules/utils.rs`) | none of its own; reads the transaction (introspection) or calls programs (CPI) | `verify`, before every handler | `Authorization` |
| Token operations, rates and corporate actions (`modules/operations.rs`) | balances, frozen accounts, paused mints (in Token-2022), `Rate` and `Receipt` accounts | mint, burn, transfer, pause, resume, freeze, thaw, rate create/update/close, split, convert, receipt close | `CorporateActions` |
| Rate arithmetic (`state/rate.rs`) | none | `validate`, `calculate`, `convert_from_to_amount` | `RateMath` |
| Distributions (`modules/operations.rs`, `state/proof.rs`, `merkle_tree_utils.rs`) | escrow token accounts, `Proof` accounts, claim receipts | proof create/update, escrow create, claim, receipt close | `Distribution`, `MerkleTrees` |
| Split guard (`examples/split-guard/src/lib.rs`) | a guard account per mint | activate, deactivate, verify a transfer | `SplitGuard` |
| Transfer hook Execute (`transfer_hook/src/lib.rs`) | none; reads the transfer configuration and the hook's list | decides on every transfer that reaches Token-2022 | `TransferHook` |
| Mint life cycle, default account state, metadata (`modules/verification.rs`) | the mint, its extensions and rent, `MintAuthority` accounts | initialize_mint, update_metadata, update_default_account_state; by others: a metadata pointer moved, an address funded | `MintLifecycle` |
| Verify instruction (`modules/verification.rs`) | none | asks whether an instruction would be authorised | `Authorization`, `InstructionAccounts`, `InstructionData` |
| Accounts of a call: generated Rust client, `Processor::process`, handlers, example verifier | none | direct, builder and CPI calls; stripping; taking by position | `ClientInstructions`, `InstructionAccounts` |
| Data of instructions and accounts: `program/src/instructions`, `program/src/state`, generated types | none | `to_bytes`, `try_from_bytes`, `validate` | `InstructionData` |
| Token-2022 extension views and CPI builders, TypeScript client, IDL, RPC fetch helpers, error enums | none | | not modelled |

How they interact: the handlers of configurations call the hook by CPI to keep
its list a copy of the transfer configuration; authorization reads the
configurations before every handler and, by introspection, the earlier
instructions of the same transaction; splits, conversions and claims read rates
or Merkle proofs and leave receipts, which later attempts must not find; the
split guard is a verification program that looks at its own account when
it is called, for a transfer that runs later in the transaction.

What is hard here: two copies of one list with different readers; rent moved
between accounts that may be the same account; approvals matched to operations
by scanning a transaction backwards, while the operations of that transaction
change the configurations; decisions taken at one instruction and used at a
later one; corporate actions that visit holders one transaction at a time while
holders move their tokens; receipts whose addresses are derived from different
things than the action they stand for; narrow integers and two roundings. There
are no timeouts, retries or background tasks in this code, and nothing is
obliged to happen: nobody has to send the next instruction. So no fairness is
assumed anywhere and no liveness property is stated; a crash between two steps
does not exist either, since an instruction that fails is undone as a whole.
What must never be stopped is stated as safety: `RentNeverStops`. The `hazards` of
`PROJECT.json` give each of these at its line.

## Modules

**`ExtraAccountMetas`** - the value of the hook's list account, and the two
hook handlers as operators on it: what they refuse, what they write, and the
lamports an update hands back.

**`VerificationConfig`** (extends it) - `config[op]` is the data of an
instruction's configuration account: the stored count and the *area* of program
slots its size leaves room for are separate, because the program reads `count`
programs and the hook every slot. `lamports` holds the balances of the
configurations, the list and the wallet. One action per handler, with close as
the second mode of trim; the order of debits and credits is the code's, since
the recipient of rent may be any of the accounts. `Funds` bounds the wallet.

**`TransferHook`** (extends it) - `Execute` with the accounts Token-2022
resolves from the list, as formulas over the states above: the hook keeps no
state, so its decision is a function of the configuration and the list. A transfer is sent by the
permanent delegate, which the hook lets through, or by a holder, and then the
programs are called with the accounts the configuration leaves them. With the
split guard as one of the programs, its account exists or does not, and is
registered somewhere on the hook's list, as the header of `split-guard` asks, or
is not.

**`ConfigRegistry`** - the abstract specification: an instruction has at most
one list, never empty or too long, that changes by four operations, and a
retired instruction never gets a list again.
**`VerificationConfigRefinement`** maps the accounts to it.

**`MintLifecycle`** - one mint. `mint`, `metadata` and `lamports` are the mint
account, `authorities` the `MintAuthority` addresses of the creators. Actions:
`InitializeMint` (the checks, the extensions asked for, the rent paid in
advance, the CPIs, the authorities handed over), `UpdateMetadata` (the charge
for growth, the buffer of keys to remove, removals, updates),
`UpdateDefaultAccountState`, and by others `RepointMetadata` and `Prefund`. Sizes
are bytes and a lamport is the rent of one; the runtime undoes an instruction
that leaves too little (`RentHeld`).

**`Authorization`** (extends `ConfigRegistry`) - transactions. `trace` is the
executed part of the current one: calls of verification programs, and
instructions that were authorised. `Scanned` is the backward scan with its
queues of slots; `Verified` is `Processor::verify`; instructions that write
configurations do so in the middle of a transaction; commit and abort end it
(`saved` is what an abort returns to). Accounts are names, instruction data is
an op and its arguments. A failing verification program is an abort.

**`RateMath`** - the arithmetic, with the integer widths as constants and a
value for a failed computation. **`RateReference`** compares it with exact
rational arithmetic.

**`CorporateActions`** (extends `RateMath`) - one mint or several, their token
accounts, rates and receipts. Token-2022 is external: it refuses to mint to,
burn from or transfer between accounts that are frozen or whose mint is paused,
and to exceed 64 bits of supply. Every action is taken after its authorization;
PDA checks are the keys of `rates` and `receipts`. `ran` is history: what ran
under a receipt's address since the address was free.

**`SplitGuard`** (extends `CorporateActions`) - the guard accounts, the
transfers approved so far in the current transaction, and history of balances
and receipts when a mint was halted. A prefix of a transaction is itself a
transaction, so the states in the middle of one are states of the chain, and
other parties' transactions may come between `EndTransaction` and the next
call; with `approved` empty nothing of a transaction is left. The issuer is
assumed to follow the lifecycle of the guard's header: `BetweenCampaigns`
operations touch no halted mint. `HaltInOwnTransaction` says whether
`ActivateHalt` is sent in a transaction of its own.

**`MerkleTrees`** - leaves, inner nodes and `verify_merkle_proof`, with the hash
as a free constructor (no collisions), and the trees an issuer builds, row by row
from its leaves (`IsComplete` says that a power of two of them fills every row).
**`MerkleReference`** compares the check with the trees: an attempt is any leaf
(`Entries`), index and proof.

**`Distribution`** (extends `CorporateActions` and `MerkleTrees`) - escrows, Proof
accounts and claims. A claim takes its proof from its argument or from the
Proof account, which is written one node at a time; it pays from the escrow of
its root, or only issues the receipt (external settlement). The escrow is a
token account that the ordinary token operations fund and may drain.
`settled` and `funding` are history: how each leaf was settled since its
receipt was free, and what the issuer has put into an escrow, less what was
paid to leaves whose receipt the issuer then closed.

**`ClientInstructions`** - for each of the 25 instructions the tables of the
generated client: the fields in the order they are sent with their flags
(`...Accounts`), the fields the builder asks for (`...Builder`), and how the CPI
struct pairs fields with accounts (`...Cpi`).
**`InstructionAccounts`** (extends it) - `call` is a call being put together:
fields given or left out, remaining accounts added, sent alone or by CPI, and
then what the program makes of it: the overhead it strips, the positions the
handler takes with the signer and writable checks, and the positions the
verification program takes.

**`InstructionData`** - `wire` is a message with its two descriptions: the
hand-written parser of the program and the type of the client, which a
verification program uses. Bytes are abstracted to cells (see the module). A message is
sent from values, then cut, extended or changed. A description is a list of fields,
of which an option holds fields itself; the options of this program hold no further
options, so reading and writing have two levels, the second (`ReadPlain`, `WritePlain`)
without options. `CellsAssumption` says that booleans, states, discriminators and the
list lengths the parsers allow fit in a cell, `ValuesAssumption` that what is sent are
values of the description (`IsValueOf`).

**`Interfaces`**, **`StatelessParts`** - the state machine over the two, and the
one over all parts without state: a behaviour is about one of them, chosen by
`subject`.

## What each run shows

| Run | Question | Bounds |
| --- | --- | --- |
| `MCVerificationConfig` | Do the program and the hook always read the same valid list (`ReadersAgree`), is the hook's list always the transfer configuration's (`HookInSync`), does every account keep its rent whoever receives what is recovered (`RentExempt`)? Do the accounts implement the abstract registry (`ImplementsRegistry`)? Does the hook accept a holder's transfer exactly if every configured program does (`HookAcceptsExactlyApproved`)? | two instructions, one of them the transfer; two programs and the default key; lists of up to 3, so that windows inside, across and at the end of a list, and every growth and shrink, occur; a wallet that can pay for one long configuration or two short ones, and runs out; all recipients |
| `MCAuthorization` | Does every executed operation have the creator's signature or a call of its own for every slot of the list in force (`EveryOperationApproved`)? Does the queue algorithm decide what its direct reading says (`IntrospectionDecidesDirectly`)? | three instructions per transaction (enough for two calls and an operation, or a change of configuration between a call and an operation); lists with distinct and with repeated programs, both modes; account lists that match, extend, miss or differ; another mint's configuration |
| `MCStateless` | Is the arithmetic exact, consistent between split and conversion, never swapping the order of two holdings (`OrderPreserved`), and never creating value in a round trip when rounding down? Is a Merkle proof accepted exactly for members, at their index (`AcceptsExactlyMembers`)? Does a call succeed exactly when the client could make it complete, with the handler's variables holding the accounts of the client's fields, and the verification program reading the same ones (`AcceptedExactlyWhenComplete`, `AccountsAsMeant`, `VerifierReadsSameAccounts`)? Is data read as it was sent, does whoever judges a message read what the program acts on, and is there no data the program takes that no client can say (`SentIsRead`, `JudgedIsActedOn`, `NothingUnsayable`)? | amounts up to 150, so that the narrowed 64- and 128-bit overflows both happen, decimals 0 to 3; all trees of 2 and 4 leaves of three kinds, indexes up to 7, whole, reversed and cut proofs; 25 instructions by client call, builder and CPI in each mode of verification, up to 6 remaining accounts, two programs configured six times between them (more slots than programs and hook fields together, so that lists with repeated programs, too few and too many slots occur); messages of distinct cells, two edits, the second on messages of up to 9 cells |
| `MCMintLifecycle` | Do the mint and the account that signs for it exist together, with every authority at an address the program signs for (`AuthoritiesHeld`)? Are the fields after an update the ones asked for (`FieldsAsRequested`)? Does rent never stop an instruction the handlers accept (`RentNeverStops`)? | two creators; a buffer of one row of 64 bytes, two keys that fit and one that does not, so that the buffer fills and a key is too long; values of 1, 150 and 2000 bytes, within and above what an update accepts; lamports up to 900; the mint has its other extensions exactly when it has no metadata |
| `MCCorporateActions` | Does a receipt mean that exactly one split or conversion took place since it was free (`OnceUntilClosed`)? Are conversions burn-and-mint pairs with the right receipt (`ConversionsPaired`)? | two mints, three accounts, supply up to 3, a doubling, a halving and an invalid rate, rates from one mint only, one frozen account at a time |
| `MCSplitGuard` | Has every holder, at every moment of a campaign, exactly its holding at the outset or exactly the split of it (`CampaignExact`)? | three holders (symmetric), one action, one approved transfer per transaction, one frozen account at a time |
| `MCDistribution` | Is there one settlement per receipt (`SettledOncePerReceipt`)? Can a funded escrow always pay every leaf not yet claimed (`EscrowCoversUnsettled`)? | two distributions of one action, the second correcting the first, so that one holder has the same proof in both; supply up to 3, enough to fund either; one Proof account at a time, only the first holder frozen and the mint never paused |

The bounds cut repetition, not kinds of steps: lists, supplies and transactions
are long enough for each guard to pass and to fail, and each property has, in
`PROJECT.json`, a mutated definition under which the same run finds it violated.

The runs stop where the model's parties choose to stop; deadlock checking is
off in those in which a bound can leave nobody with anything to do.

### Disagreements between the code and its texts

Each has a run that TLC ends with a counterexample.

- `MCTransferReconfigure`: a transfer configuration that was closed can never be initialised again.
- `MCConvertAsSplit`: a conversion of a mint into itself is carried out and takes the split's receipt.
- `MCHaltInTransaction`: a transfer runs under an active guard when its verification came earlier in the transaction that raised the guard.
- `MCGuardAbsent`: with the split guard among the programs of the transfer
  configuration, what a holder sends to Token-2022 is refused although nothing is
  halted (`examples/split-guard/src/lib.rs:17` "Guard absent -> transfer allowed"),
  also with the guard's account registered as an extra account, as line 29 asks:
  `verify_transfer` takes seven accounts, its own last, and the hook gives it a
  program as the seventh, or more of them. Under a guard tokens move by the
  program's own transfers only; that is what `SplitGuard` models.
- `MCRemainingFlags`: the CPI structs of the generated client take a remaining account's writable flag for its signer flag, and the other way round.

Met on the way and without a run of their own: `verify_by_programs` wants the
instructions sysvar before it looks at the mode (`verification.rs:680`), so that the
placeholder `docs/program-instructions.md:127` gives CPI mode is refused; a configuration closed with
itself as the recipient of its rent (`verification.rs:1288`) stays, funded, owned by the
program and empty, and cannot be initialised again; the client's constants
`Rate::LEN` (4) and `MintAuthority::LEN` (65) leave out the discriminator (5 and
66 bytes are stored); the client has no signer flag for the mint's creator, where
`docs/program-instructions.md:137` asks for a signature, so that a creator's
authorization needs the flag set by hand; and that authorization also works
where programs are configured (`docs/program-instructions.md:157` reads otherwise).
The models have the code's behaviour in each case.

## What is proved

Eight modules hold proofs, each for all values of the constants that satisfy
the named assumptions of the modules. No proof assumes anything else, except
where a condition is named below.

**`VerificationConfigProofs`**, for every set of instructions and programs,
every limit, every strictly growing rent schedule and every recipient:
`TypeCorrect`, `ReadersAlwaysAgree`, `HookAlwaysInSync` and `AlwaysRentExempt`. The assumptions are those of the modules: the instruction names,
the wallet and the list's address are different, the default key is no program,
rents grow with size.

The invariants are not inductive one by one. That a balance stays natural when
a trim takes rent out needs `RentExempt`; that the recipient of a trim pays
nothing to the hook needs the list to shrink when the configuration does, which
is `HookInSync`; that the programs written are the ones the hook reads needs the
stored count to be the number of slots (`SlotsCounted`); and `RentExempt` after a
close needs an account that does not exist to be empty. `IInv` is their
conjunction. The argument: `MetaListFacts`, `HookUpdatedEffect`, `OverwrittenFacts`
and `PayEffect` say what the handlers' helpers do; `WrittenPreserves` collects what
initialize, update and trim have in common; there is one lemma per action;
`StepPreserves` joins them.

In the same module, `RegistryImplemented`: the accounts implement the abstract
registry. Under `IInv` each handler is one abstract change
(`InitializeRegisters`, `UpdateRevises`, `TrimShortens`, `CloseUnregisters`).
`RetirementFacts` carries the one hard part: an address with lamports can never be
created again, so moving rent may retire an instruction, and only the one
whose account was closed or whose empty address was paid. And the transfer hook's
decision: `HookAlwaysExact`, a holder's transfer goes through exactly if every
configured program approves. And `GuardedTransfersNeverResume`, the general form
of the disagreement `MCGuardAbsent` finds on one list: under a configured guard no
holder's transfer goes through, whatever the list, with the guard's account on it
or not. Both are consequences of `IInv`, not new invariants: `HookAccountsFacts`
computes the accounts that reach the hook from `HookInSync` and `SlotsCounted`,
`HolderTransfers` the decision, and `GuardRefuses` that they are not seven, or the
seventh is a program.

**`DataProofs`** has the lemmas about data that the others cite. The library's
induction theorems take a predicate as a parameter, which the provers here cannot
instantiate; so induction is stated for *sets*, over the naturals
(`NatSetInduction`) and over finite sets (`FiniteSetInduction`): the set of those
that have a property is everything, since its complement would have a least
element. On these rest that folds and recursive functions have values
(`FoldExists`, `IterationExists`), the laws of sums over finite sets
(`SumIsFold` to `SumMonotone`), of powers (`PowersAdd`), the unfolding of the
functions that build and climb a Merkle tree (`RowSteps`, `AscentSteps`), and
`Descent`: from the root of a complete tree down, what a proof passes is what the
tree has at that place.

**`AuthorizationProofs`**, for all transactions, lists and programs:
`AuthTypeCorrect`, `EveryOperationAlwaysApproved` and `IntrospectionAlwaysDirect`.
The scan is a fold over the transaction; `ScanSteps` turns it into one scan per
instruction visited. What a scan knows is `Takes`: every closed slot was closed
by a call of its own, and no call was passed over for an earlier one. Two facts
follow: a slot left open means that its program was called too seldom
(`OpenMeansFew`), and if all slots of a program are closed they hold its latest
calls (`ClosedByLatest`). Together they are the direct reading of introspection, and the
second gives every operation as many calls as its list has slots. `AuthInv` joins
the properties with `TraceIsSeq`; what was approved stays approved because an executed
part of a transaction never changes. `ProfilesAssumption`, `RegistriesAssumption` and
`InputsAssumption` say that configurations and arguments are ones the parsers let
through.

**`MintLifecycleProofs`**: `AuthoritiesAlwaysHeld`, `MintTypeCorrect`,
`FieldsAlwaysAsRequested` and `RentStopsNothing`. `MintInv` adds to the
authorities the fields that a mint and its metadata have, so that a change of one
field leaves the others; `MintTypes` adds the types, keys without repetition, values
within the limit, and rent always paid. The handler's three loops over fields are
recursive functions, and each has a loop invariant proved by induction over the
fields visited: `WithoutKeeps` for removals, `FieldsUpdate` for updates and
`RememberedExactly` for the buffer, which remembers every key but those too long
for a row or short ones that come after the buffer is full. `NoLongerThanAsked` bounds the size of the
result by what was charged, from which rent stops nothing. The
assumptions are `MintAssumption`, that lengths and limits are numbers and the mint
is not one of the other addresses, and `ArgumentsAssumption`, that requests are
lists of fields and the value of an absent option is not also one of a present
option.

**`CorporateActionsProofs`**, for any finite set of token accounts:
`CorporateTypeCorrect`, `OnceUntilClosedAlways`, `RatesAlwaysUsable` and
`ConversionsAlwaysPaired`. `CorporateInv` is the conjunction of `HoldingsInv`
(each supply, a sum over accounts, fits in 64 bits), `RateInv` and `ReceiptInv`.
The last adds to `OnceUntilClosed` that the history is kept for the addresses
receipts have: an operation that runs has found its address free. Beside its
type, each step is proved to change one supply at most, or to be a conversion.

**`SplitGuardProofs`**: `GuardImplementsOperations`, the guard only restricts the
operations, so that everything proved of `CorporateActions` holds under it
(`OnceUntilClosedUnderGuard`); `GuardTypeCorrect`; and, under `HaltInOwnTransaction`,
`HaltAlwaysBlocksTransfers` and `CampaignAlwaysExact`. The latter is not inductive:
that nothing moves needs every pending approval to be of a mint that is not halted
(`ApprovalsOfUnhalted`, which is where the condition is used, and
`MCHaltInTransaction` shows that it cannot be dropped), that nothing is split
twice needs the receipts of the outset to be there still (`OutsetReceiptsKept`).
`GuardInv` is the conjunction.

**`ReferenceProofs`**. For every width of the integers, every rate whose parts
fit in it and all decimals: `CalculateAlwaysExact` and `ConvertAlwaysExact` (a
split and a conversion are the exact quotient rounded in the rate's direction, or
fail, and then the split's product, the conversion's scale or its result does not fit
in 64 bits), `ConvertAlwaysAgreesWithSplit`,
`RoundTripNeverEverGains` and `OrderAlwaysPreserved`. They follow from what a
rounded quotient is (`QuotientDown`, `DividedExact`), from the law of exponents
for the scale of a conversion (`SameRatio`), and from cancelling a factor of both
sides (`RoundedScaled`). For complete trees of any depth:
`AlwaysAcceptsExactlyMembers`, a proof is accepted exactly if it is that of the
leaf at the index; `AcceptedIsMember` and `MemberIsAccepted` are its two halves,
both from `Descent`.
For calls (`CallSpec`), with any number of remaining accounts and any sequence of
configured programs (`CallsAssumption`, which also says that the program's own
address, the placeholder, stands in no field): `AccountsAlwaysAsMeant` and
`VerifierAlwaysReadsSame`. The argument has two halves. The tables agree position by
position: the client's with what the handler takes (`HandlerTables`, which has a step
for each handler) and with what the verification program reads (`VerifierTables`).
And nothing on the way moves an account from its position: filling in defaults and
placeholders (`FilledKeys`), adding the remaining accounts, merging the payer's flags
(`DeliveredKeys`) and stripping what verification needs (`VerifiedStretch`).
`PlacedKey` joins the two, and `CallInv` adds what a call looks like before it is
sent. `Verify` has no handler and is excepted, as in the property.

`AcceptedAlwaysExactly` is the stronger statement, and an equivalence: a call goes
through exactly when it is `Complete`. It has two conditions that the code does not
enforce. Verification programs are accounts of their own, none of those the fields
are for (`ProgramsApart`); otherwise a field can stand in for a program. Remaining
accounts ask for no privileges (`PlainRemaining`), since the CPI structs exchange the
flags of those that do (`MCRemainingFlags`). Configurations may list a program
more than once. The proof goes through what arrives (`Arrived`: number, keys, flags,
who signs; `DeliveredArrives`), what verification lets through and keeps
(`Passes`, `VerifiedKept`, `KeptStretch`), and what a handler wants at each place
(`Served`, from the tables of `GrantTables`; `PlaceFits`): every place is filled as
wanted, except where an account of the transfer hook was left out.

For messages (`DataSpec`), of any cells, with lists of any length and any number of
edits: `SentAlwaysRead`, `JudgedAlwaysActedOn` and `NothingEverUnsayable`, for all 21
instructions and 4 accounts. Fields in turn are read by a recursive function, which
has a value (`TurnsSteps`). Three things are shown of one field, then of the fields of
an option, then of a whole description. Two readers of the same data that
both accept a field take the same value and leave the same rest
(`DescriptionsMeanOne`). What is written of a value is read back as that value and
nothing else (`DescriptionReadsBack`). What is read is a value of the description
(`DescriptionReadsValues`). The link between program and client is `FieldsAccepted`:
each pair of descriptions has the same field names in the same order, and the
client's accepts whatever cell or list the program's does. This is the comparison of
the two sources, with a lemma for each pair. The invariant `DataType` adds that a
message nobody edited is still the encoding of the value that was sent.

**`DistributionProofs`**: `DistTypeCorrect`, `SettledOnceAlways` (every receipt of
a claim stands for exactly one settlement of one leaf) and `EscrowAlwaysCovers` (a
funded escrow can pay every leaf not yet settled), for any distributions over
complete trees. `SettledInv` adds that whatever a Proof account goes through
it holds a list of nodes, since a claim may use it; that an accepted claim is one
of the tree's leaves is `AcceptedIsMember`; two leaves that share a receipt are
kept apart by `RootsAssumption`. `EscrowInv` is the exact account that the escrow
property lacks: an escrow holds at least its funding less the total of the leaves
that were paid from it (`PaidLeaves`). A claim takes from one side what it adds to the
other (`ClaimAddsLeaf`), and the closing of a receipt writes both off.
`DistInv` joins it with `CorporateInv`, since escrows are ordinary token accounts.

### Only model-checked

Every invariant and every action property of the passing runs is stated by a theorem,
so no property is only model-checked. TLC's part is to show in small instances that
each one holds and that each is broken by a plausible change of the code, and to find
the five disagreements with the texts: their counterexamples also show that two
conditions of the theorems are needed, `HaltInOwnTransaction` (`MCHaltInTransaction`)
and `PlainRemaining` (`MCRemainingFlags`). That the recursive functions of the models
compute what they should is proved through their invariants, step by step, with the
induction over sets of `DataProofs`; the one `RECURSIVE` operator left is in
`MCStateless`, which lists the values that are sent in that run.

Liveness is not stated, for the reason given above.

## Assumed or left out

- Token-2022, the System program, the runtime and `spl_merkle_tree_reference` are
  external: modelled by what this code relies on.
- Lamports are modelled for configurations, the hook's list and the mint. Elsewhere
  an address is either free or holds its account.
- Program-derived addresses do not collide, and hashes do not.
- Account checks that compare an address with its derivation are the keys of the
  state's functions in the state machines; signer and writable flags are in
  `InstructionAccounts` only.
- In `InstructionData` a field is a cell whatever its width: the width of
  integers, keys and hashes, and data that ends inside one, are not told apart.
- Lamports of rates, receipts and proofs (`state/program_account.rs`) are left
  out: their creation and closing are there, their rent is not.
- A change of a rate between the splits of two holders, and a claim during a
  campaign, are allowed by the code and lie outside `CampaignExact`; the hazards
  say so.

## Not modelled

- Readers and builders of Token-2022's extensions (`program/src/token22_extensions`
  and the like): bytes for another program, whose effects are part of
  `MintLifecycle` and `CorporateActions`.
- The TypeScript client and the IDL: generated from the same program
  interface as the Rust client, which is modelled. The RPC fetch helpers and error
  enums of the Rust client: input and output, and names.
- Logging.

## Plan

Done, in this order: configurations and list, refinement, authorization, rate
arithmetic, corporate actions, split guard, Merkle proofs, distributions, the
proofs about configurations; then the transfer hook's decision, the mint's life
cycle and its metadata, the accounts and the data of every instruction; then the
proofs about authorization, the mint, corporate actions, campaigns, rates, Merkle
trees, escrows, calls and messages, with the lemmas about data they needed.

What is left, models:

1. `SplitGuard` composed with `Distribution`: what claims do to a campaign.
2. Rents of rates, receipts and proofs.
