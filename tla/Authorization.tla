--------------------------- MODULE Authorization ---------------------------
(***************************************************************************)
(* How the security token program decides that an instruction may run      *)
(* (Processor::verify and the verify_* functions of                        *)
(* program/src/modules/verification.rs), in the transaction it belongs to. *)
(*                                                                         *)
(* A transaction is a sequence of instructions, executed one after the     *)
(* other against the same accounts and rolled back together when one of    *)
(* them fails.  `trace` is the part of the current transaction that has    *)
(* been executed: calls of verification programs, which approved, and      *)
(* instructions of the security token program, which were authorised.      *)
(* Introspection reads the trace; an instruction that writes a             *)
(* configuration changes what the rest of its own transaction is verified  *)
(* against.  The configurations themselves are those of ConfigRegistry.    *)
(***************************************************************************)
EXTENDS ConfigRegistry, SequencesExt

CONSTANTS
  Mint,            \* the mint whose configurations may change
  OtherMint,       \* another mint, of another creator
  OtherRegistry,   \* its configurations, which stay as they are
  ProgramsOnlyOps, \* VerificationProfile::VerificationPrograms; the other
                   \* Ops are VerificationProgramsOrMintAuthority
  InitOp, UpdateOp, TrimOp,  \* the Ops that write a configuration
  InitialRegistries,  \* registries that past transactions have left
  Calls,           \* the verification program calls a client may include
  Instructions,    \* the security token instructions a client may include
  CoreLen,         \* the number of accounts the handlers expect
  MaxTx            \* bound: instructions per transaction

ASSUME ProfilesAssumption ==
  /\ ProgramsOnlyOps \subseteq Ops
  /\ {InitOp, UpdateOp, TrimOp} \cap ProgramsOnlyOps = {}

(* What an account of a configuration that exists, or does not, can hold.  *)
EntryType ==
  {NoEntry} \cup {Entry(cpi, ps) : cpi \in BOOLEAN, ps \in Lists}

ASSUME RegistriesAssumption ==
  /\ MaxPrograms \in Nat /\ MaxTx \in Nat
  /\ InitialRegistries \subseteq [Ops -> EntryType]
  /\ OtherRegistry \in [Ops -> EntryType]

(* Arguments are what the parsers and their validate() let through: lists  *)
(* within the limit, and not empty where a configuration is created.       *)
ASSUME InputsAssumption ==
  /\ \A call \in Calls : call.kind = "call"
  /\ \A ins \in Instructions :
       /\ ins.op \in Ops /\ ins.second.op \in Ops
       /\ ins.accounts \in Seq(Range(ins.accounts))
       /\ ins.op \in {InitOp, UpdateOp, TrimOp} => ins.data.args.op \in Ops
       /\ ins.op = InitOp => /\ ins.data.args.cpi \in BOOLEAN
                             /\ ins.data.args.programs \in Lists
       /\ ins.op = UpdateOp => /\ ins.data.args.cpi \in BOOLEAN
                               /\ ins.data.args.offset \in Nat
                               /\ ins.data.args.programs \in Lists \cup {<< >>}
       /\ ins.op = TrimOp => ins.data.args.size \in Nat

VARIABLES
  trace,  \* the instructions of the current transaction so far
  saved   \* registry and retired as the last committed transaction left them

authVars == <<registry, retired, trace, saved>>

Creator(mint) == IF mint = Mint THEN "Creator" ELSE "OtherCreator"

EntryFor(mint, op) == IF mint = Mint THEN registry[op] ELSE OtherRegistry[op]

-----------------------------------------------------------------------------
(***************************************************************************)
(* execute_introspection_verification.  The earlier instructions are       *)
(* visited from the last to the first; each is matched with the first      *)
(* configured slot of its program that is still open (the queue of slot    *)
(* indices per program), provided its data is the target's.  A slot keeps  *)
(* the accounts of the call that took it.                                  *)
(***************************************************************************)
OpenSlots(list, scan, program) == {i \in scan.open : list[i] = program}

(* A queue that was only ever looked at: one call serves every slot of its *)
(* program.                                                                *)
AnyCallFills(list, data, call, scan) ==
  LET slots == {i \in scan.open : list[i] = call.program}
  IN  IF call.kind = "call" /\ slots # {} /\ call.data = data
        THEN [open |-> scan.open \ slots,
              found |-> [i \in 1 .. Len(list) |->
                           IF i \in slots THEN call.accounts ELSE scan.found[i]]]
        ELSE scan

FillSlot(list, data, call, scan) ==
  LET slots == OpenSlots(list, scan, call.program)
  IN  IF call.kind = "call" /\ slots # {} /\ call.data = data
        THEN [open |-> scan.open \ {Min(slots)},
              found |-> [scan.found EXCEPT ![Min(slots)] = call.accounts]]
        ELSE scan

Scanned(list, data, earlier) ==
  FoldRight(LAMBDA call, scan : FillSlot(list, data, call, scan), earlier,
            [open |-> 1 .. Len(list), found |-> [i \in 1 .. Len(list) |-> << >>]])

(* validate_account_verification *)
SomeAccounts(target, accounts) == accounts # << >>
CoversAccounts(target, accounts) == accounts # << >> /\ IsPrefix(target, accounts)

Introspected(list, data, target, earlier) ==
  LET scan == Scanned(list, data, earlier)
  IN  /\ scan.open = {}
      /\ \A i \in 1 .. Len(list) : CoversAccounts(target, scan.found[i])

(***************************************************************************)
(* execute_cpi_mode_verification: the last accounts, one per program, are  *)
(* stripped, and every program is invoked with the rest.  The runtime can  *)
(* only invoke a program whose account the instruction was given.          *)
(***************************************************************************)
KeptAccounts(list, accounts) == SubSeq(accounts, 1, Len(accounts) - Len(list))

CpiPossible(list, accounts) ==
  /\ Len(list) <= Len(accounts)
  /\ \A i \in 1 .. Len(list) : \E j \in 1 .. Len(accounts) : accounts[j] = list[i]

-----------------------------------------------------------------------------
(***************************************************************************)
(* verify_by_programs.  An instruction carries three overhead accounts     *)
(* before its own: the mint, a second account that is a configuration, a   *)
(* mint authority or something else (with the mint and the op its PDA was  *)
(* derived from, and whether the security token program owns it), and the  *)
(* instructions sysvar or a signer.                                        *)
(***************************************************************************)
IgnoreMintOfPda(ins) == ins.second.op = ins.op
ConfigPdaMatches(ins) == ins.second.mint = ins.mint /\ ins.second.op = ins.op

ConfigUsable(ins) ==
  /\ ins.third = "Sysvar"
  /\ ins.second.kind = "VerificationConfig"
  /\ ins.second.owned
  /\ EntryFor(ins.second.mint, ins.second.op).registered
  /\ ConfigPdaMatches(ins)
  /\ EntryFor(ins.second.mint, ins.second.op).programs # << >>

ApprovedBy(entry, ins, earlier) ==
  IF entry.cpi
    THEN CpiPossible(entry.programs, ins.accounts)
    ELSE Introspected(entry.programs, ins.data, ins.accounts, earlier)

VerifiedByPrograms(ins, earlier) ==
  /\ ConfigUsable(ins)
  /\ ApprovedBy(EntryFor(ins.second.mint, ins.second.op), ins, earlier)

(* The accounts left to the handler when the programs have approved. *)
CoreAccounts(ins) ==
  IF ins.second.kind = "VerificationConfig" /\ EntryFor(ins.second.mint, ins.second.op).cpi
    THEN KeptAccounts(EntryFor(ins.second.mint, ins.second.op).programs, ins.accounts)
    ELSE ins.accounts

(* verify_by_mint_authority: the third account signed, and is the creator  *)
(* recorded in the authority of this mint.                                 *)
VerifiedByCreator(ins) ==
  /\ ins.second.kind = "MintAuthority"
  /\ ins.second.owned
  /\ ins.second.mint = ins.mint
  /\ ins.third = Creator(ins.second.mint)

(* Processor::verify; verify_by_strategy reads the kind of the second      *)
(* account to choose.                                                      *)
AnyStrategy(ins, earlier) == VerifiedByPrograms(ins, earlier) \/ VerifiedByCreator(ins)
Verified(ins, earlier) ==
  \/ VerifiedByPrograms(ins, earlier)
  \/ ins.op \notin ProgramsOnlyOps /\ VerifiedByCreator(ins)

(* Every handler expects a fixed number of accounts and checks that the    *)
(* mint among them (here the first) is the verified one.                   *)
SkipMintMatch(ins) == Len(CoreAccounts(ins)) = CoreLen
HandlerAccepts(ins) ==
  /\ Len(CoreAccounts(ins)) = CoreLen
  /\ CoreAccounts(ins)[1] = ins.mint

-----------------------------------------------------------------------------
(* A verification program is called by the transaction, and approves. *)
CallVerificationProgram(call) ==
  /\ Len(trace) < MaxTx
  /\ trace' = Append(trace, call)
  /\ UNCHANGED <<registry, retired, saved>>

(* What the trace keeps of an executed instruction: besides the            *)
(* instruction, the entry that was in force for it and the calls that its  *)
(* CPI verification made.                                                  *)
InForce(ins) == EntryFor(ins.mint, ins.op)

MadeCalls(ins) ==
  LET list == InForce(ins).programs
  IN  IF ins.second.kind = "VerificationConfig" /\ InForce(ins).cpi
        THEN [i \in 1 .. Len(list) |->
                [kind |-> "call", program |-> list[i], data |-> ins.data,
                 accounts |-> KeptAccounts(list, ins.accounts)]]
        ELSE << >>

Executed(ins) ==
  [kind |-> "op", program |-> "SecurityToken", data |-> ins.data,
   accounts |-> CoreAccounts(ins), mint |-> ins.mint, op |-> ins.op,
   third |-> ins.third, inForce |-> InForce(ins), made |-> MadeCalls(ins)]

(* The handler's effect on the configurations of Mint; args names the op   *)
(* whose configuration it writes.                                          *)
RunHandler(ins) ==
  LET args == ins.data.args
  IN  \/ /\ ins.op = InitOp /\ ins.mint = Mint
         /\ Register(args.op, args.cpi, args.programs)
      \/ /\ ins.op = UpdateOp /\ ins.mint = Mint
         /\ Revise(args.op, args.cpi, args.offset, args.programs)
      \/ /\ ins.op = TrimOp /\ ins.mint = Mint
         /\ IF args.close THEN Unregister(args.op) ELSE Shorten(args.op, args.size)
      \/ /\ ins.op \notin {InitOp, UpdateOp, TrimOp} \/ ins.mint # Mint
         /\ UNCHANGED registryVars

ExecuteInstruction(ins) ==
  /\ Len(trace) < MaxTx
  /\ Verified(ins, trace)
  /\ HandlerAccepts(ins)
  /\ RunHandler(ins)
  /\ trace' = Append(trace, Executed(ins))
  /\ UNCHANGED saved

CommitTransaction ==
  /\ trace # << >>
  /\ trace' = << >>
  /\ saved' = [registry |-> registry, retired |-> retired]
  /\ UNCHANGED registryVars

(* An instruction or a verification program failed. *)
AbortTransaction ==
  /\ trace # << >>
  /\ trace' = << >>
  /\ registry' = saved.registry
  /\ retired' = saved.retired
  /\ UNCHANGED saved
-----------------------------------------------------------------------------
AuthInit ==
  /\ registry \in InitialRegistries
  /\ retired = {}
  /\ trace = << >>
  /\ saved = [registry |-> registry, retired |-> retired]

AuthNext ==
  \/ \E call \in Calls : CallVerificationProgram(call)
  \/ \E ins \in Instructions : ExecuteInstruction(ins)
  \/ CommitTransaction
  \/ AbortTransaction

AuthSpec == AuthInit /\ [][AuthNext]_authVars

-----------------------------------------------------------------------------
AuthTypeOK ==
  /\ registry \in [Ops -> EntryType]
  /\ retired \subseteq Ops
  /\ Len(trace) <= MaxTx
  /\ \A i \in 1 .. Len(trace) : trace[i].kind \in {"call", "op"}
  /\ saved.registry \in [Ops -> EntryType] /\ saved.retired \subseteq Ops

(* A call that approves what the executed instruction `e` did: same        *)
(* program, same discriminator and arguments, and the instruction's        *)
(* accounts first in its own.                                              *)
Approves(call, program, e) ==
  /\ call.kind = "call"
  /\ call.program = program
  /\ call.data = e.data
  /\ IsPrefix(e.accounts, call.accounts)

ApprovalsOf(program, e, calls) ==
  Cardinality({j \in DOMAIN calls : Approves(calls[j], program, e)})

(* Either the creator signed, or every slot of the list in force has an    *)
(* approval of its own.                                                    *)
OperationApproved(e, earlier) ==
  /\ e.accounts[1] = e.mint
  /\ \/ e.op \notin ProgramsOnlyOps /\ e.third = Creator(e.mint)
     \/ /\ e.inForce.registered
        /\ \A k \in 1 .. Len(e.inForce.programs) :
             LET p == e.inForce.programs[k]
                 slots == {n \in 1 .. Len(e.inForce.programs) : e.inForce.programs[n] = p}
             IN  Cardinality(slots) <= ApprovalsOf(p, e, earlier) + ApprovalsOf(p, e, e.made)

(* Nothing the security token program executes, in any position of any     *)
(* transaction, escapes authorisation: either the creator of the mint it   *)
(* worked on signed an instruction that allows it, or the list in force    *)
(* for that mint and instruction was not empty and every slot of it has a  *)
(* call of its own, earlier in the same transaction or made by the         *)
(* instruction itself, that approved the same operation on the same        *)
(* accounts (Processor::verify and the check of the mint in each handler). *)
EveryOperationApproved ==
  \A i \in 1 .. Len(trace) :
    trace[i].kind = "op" => OperationApproved(trace[i], SubSeq(trace, 1, i - 1))

(* What the queue algorithm decides, said directly: for every configured   *)
(* program there are as many earlier calls with the target's data as it    *)
(* has slots, and the most recent of them, one per slot, all cover the     *)
(* target's accounts.  A later call with other accounts therefore spoils   *)
(* an earlier good one.                                                    *)
LatestCalls(program, data, earlier, n) ==
  LET mine == {j \in 1 .. Len(earlier) : /\ earlier[j].kind = "call"
                                         /\ earlier[j].program = program
                                         /\ earlier[j].data = data}
  IN  {j \in mine : Cardinality({k \in mine : k >= j}) <= n}

DirectlyApproved(list, data, target, earlier) ==
  \A p \in Range(list) :
    LET n == Cardinality({i \in 1 .. Len(list) : list[i] = p})
        latest == LatestCalls(p, data, earlier, n)
    IN  /\ Cardinality(latest) = n
        /\ \A j \in latest : earlier[j].accounts # << >> /\ IsPrefix(target, earlier[j].accounts)

Targets == {[data |-> ins.data, accounts |-> ins.accounts] : ins \in Instructions}

IntrospectionDecidesDirectly ==
  \A list \in Lists, target \in Targets :
    Introspected(list, target.data, target.accounts, trace)
      <=> DirectlyApproved(list, target.data, target.accounts, trace)
============================================================================
