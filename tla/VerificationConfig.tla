------------------------- MODULE VerificationConfig -------------------------
(***************************************************************************)
(* The VerificationConfig accounts of one mint: which verification         *)
(* programs must approve each instruction.  The module models the three    *)
(* handlers of program/src/modules/verification.rs that write them,        *)
(* together with what they do to the transfer hook's account-metas list    *)
(* (ExtraAccountMetas) and to the lamports of every account involved.      *)
(*                                                                         *)
(* Each action is one successful instruction: the runtime rolls a failed   *)
(* one back.  Authorisation is the subject of module Authorization; here   *)
(* the caller has been authorised for the mint.                            *)
(***************************************************************************)
EXTENDS ExtraAccountMetas

CONSTANTS
  Ops,         \* instruction discriminators that may get a configuration
  TransferOp,  \* the one that also drives the transfer hook's list
  Programs,    \* verification programs
  DefaultKey,  \* Pubkey::default(), never a verification program
  Wallet,      \* the payer, and the usual recipient, of the instructions
  MetasPda,    \* the address of the mint's ExtraAccountMetaList
  ConfigRent,  \* ConfigRent[n]: Rent::minimum_balance of n program slots
  Funds        \* the lamports the wallet starts with

(* An instruction's discriminator also names its configuration account.    *)
Accounts == Ops \cup {Wallet, MetasPda}

ASSUME NamesAssumption ==
  /\ TransferOp \in Ops
  /\ DefaultKey \notin Programs
  /\ Wallet # MetasPda
  /\ Wallet \notin Ops
  /\ MetasPda \notin Ops

(* A configuration account is never smaller than its 8-byte header.        *)
ASSUME ConfigRentAssumption ==
  /\ Funds \in Nat
  /\ ConfigRent \in [0 .. MaxPrograms -> Nat \ {0}]
  /\ \A n, m \in 0 .. MaxPrograms : n < m => ConfigRent[n] < ConfigRent[m]

VARIABLES
  config,   \* config[op]: the data of op's configuration account
  metas,    \* the ExtraAccountMetaList account
  lamports  \* lamports[a]: the balance of account a

vars == <<config, metas, lamports>>

-----------------------------------------------------------------------------
(***************************************************************************)
(* A configuration account holds the CPI flag, the stored program count    *)
(* and the area of program slots its size leaves room for: data_len is     *)
(* 8 + 32 * Len(area).  The security token program reads `count` programs; *)
(* the hook ignores the count and reads every slot.                        *)
(***************************************************************************)
NoConfig == [allocated |-> FALSE, cpi |-> FALSE, count |-> 0, area |-> << >>]

Stored(cpi, count, area) ==
  [allocated |-> TRUE, cpi |-> cpi, count |-> count, area |-> area]

ProgramReads(c) == SubSeq(c.area, 1, c.count)
HookReads(c) == c.area

(* VerificationConfig::validate *)
NoDefaultKey(ps) == \A i \in 1 .. Len(ps) : ps[i] # DefaultKey
ValidPrograms(ps) == Len(ps) > 0 /\ NoDefaultKey(ps)

(* The list the hook must hold: the configuration account, then its programs. *)
MetaList(op, ps) == <<op>> \o ps

Initialized(op) == config[op].allocated /\ lamports[op] > 0

(* System program transfer, and the direct moves between program accounts: *)
(* the debit, then the credit, which may be to the same account.           *)
Pay(balances, from, to, amount) ==
  LET debited == [balances EXCEPT ![from] = @ - amount]
  IN  [debited EXCEPT ![to] = @ + amount]

(* The extra rent a larger account needs, as the handlers compute it.      *)
LateRentIncrease(rent, old, new) == IF new > old + 1 THEN rent[new] - rent[old] ELSE 0
RentIncrease(rent, old, new) == IF new > old THEN rent[new] - rent[old] ELSE 0

-----------------------------------------------------------------------------
(***************************************************************************)
(* sync_transfer_hook_account_metas, which only a configuration of the     *)
(* transfer instruction reaches.  `balances` are the lamports as the       *)
(* calling handler leaves them before the CPI; `ps` is the program list    *)
(* the hook must now serve.  The initialisation pays the full rent of the  *)
(* list into the account first; an update pays the rent of a growth in,    *)
(* and the hook pays the excess of a shrink back to the same account.      *)
(***************************************************************************)
CanInitializeHook(op, ps, payer, balances) ==
  op = TransferOp =>
    /\ balances[payer] >= MetasRent[Len(MetaList(op, ps))]
    /\ CanInitializeMetas(metas, balances[MetasPda] + MetasRent[Len(MetaList(op, ps))])

HookInitialized(op, ps, payer, balances) ==
  IF op = TransferOp
    THEN Pay(balances, payer, MetasPda, MetasRent[Len(MetaList(op, ps))])
    ELSE balances

MetasGrowth(list) == RentIncrease(MetasRent, Len(metas.list), Len(list))

CanUpdateHook(op, ps, payer, balances) ==
  op = TransferOp =>
    /\ CanUpdateMetas(metas)
    /\ balances[payer] >= MetasGrowth(MetaList(op, ps))

HookUpdated(op, ps, payer, balances) ==
  LET list == MetaList(op, ps)
      paid == Pay(balances, payer, MetasPda, MetasGrowth(list))
  IN  IF op = TransferOp
        THEN Pay(paid, MetasPda, payer, MetasRefund(metas, list, paid[MetasPda]))
        ELSE balances

OnlyFirstSync(op, ps) ==
  IF op = TransferOp /\ ~metas.owned THEN MetasHolding(MetaList(op, ps)) ELSE metas
HookMetas(op, ps) == IF op = TransferOp THEN MetasHolding(MetaList(op, ps)) ELSE metas

-----------------------------------------------------------------------------
(* InitializeVerificationConfigArgs::validate *)
LengthOnlyInitArgs(ps) == Len(ps) > 0 /\ Len(ps) <= MaxPrograms
ValidInitArgs(ps) == ValidPrograms(ps) /\ Len(ps) <= MaxPrograms

Created(op, ps) == Pay(lamports, Wallet, op, ConfigRent[Len(ps)])

(* Everything initialize_verification_config and its CPIs check.  System's *)
(* CreateAccount refuses an address that already holds lamports.           *)
CanInitialize(op, ps) ==
  /\ ValidInitArgs(ps)
  /\ ~config[op].allocated
  /\ lamports[op] = 0
  /\ lamports[Wallet] >= ConfigRent[Len(ps)]
  /\ CanInitializeHook(op, ps, Wallet, Created(op, ps))

(* initialize_verification_config *)
InitializeVerificationConfig(op, cpi, ps) ==
  /\ CanInitialize(op, ps)
  /\ config' = [config EXCEPT ![op] = Stored(cpi, Len(ps), ps)]
  /\ metas' = HookMetas(op, ps)
  /\ lamports' = HookInitialized(op, ps, Wallet, Created(op, ps))

-----------------------------------------------------------------------------
(* UpdateVerificationConfigArgs::validate.  An empty list is allowed: it   *)
(* only sets the CPI flag.                                                 *)
ValidUpdateArgs(offset, ps) ==
  /\ offset < MaxPrograms
  /\ offset + Len(ps) <= MaxPrograms
  /\ NoDefaultKey(ps)

ReplaceTail(old, offset, ps) == SubSeq(old, 1, offset) \o ps

(* The program list after a replacement at `offset`: resized with default  *)
(* keys when the replacement runs past its end, then overwritten.          *)
Overwritten(old, offset, ps) ==
  LET end == offset + Len(ps)
  IN  [i \in 1 .. (IF end > Len(old) THEN end ELSE Len(old)) |->
         IF offset < i /\ i <= end THEN ps[i - offset]
         ELSE IF i <= Len(old) THEN old[i]
         ELSE DefaultKey]

(* The serialised list overwrites the first slots; what is beyond stays.   *)
WriteSlots(area, ps) == ps \o SubSeq(area, Len(ps) + 1, Len(area))

(* update_verification_config *)
UpdateVerificationConfig(op, cpi, offset, ps) ==
  LET c     == config[op]
      new   == Overwritten(ProgramReads(c), offset, ps)
      extra == RentIncrease(ConfigRent, Len(c.area), Len(new))
      paid  == Pay(lamports, Wallet, op, extra)
  IN  /\ ValidUpdateArgs(offset, ps)
      /\ Initialized(op)
      /\ offset <= c.count
      /\ ValidPrograms(new)
      /\ lamports[Wallet] >= extra
      /\ CanUpdateHook(op, new, Wallet, paid)
      /\ config' = [config EXCEPT ![op] = Stored(cpi, Len(new), WriteSlots(c.area, new))]
      /\ metas' = HookMetas(op, new)
      /\ lamports' = HookUpdated(op, new, Wallet, paid)

-----------------------------------------------------------------------------
(***************************************************************************)
(* trim_verification_config.  The rent to recover is fixed before the hook *)
(* is called; the recipient is any writable account, and the hook's refund *)
(* goes to it too.  A call that does not close and asks for the current    *)
(* size succeeds and writes nothing: it is a stuttering step.              *)
(***************************************************************************)
TrimChecks(op, size, programs, recipient) ==
  /\ Initialized(op)
  /\ size <= config[op].count
  /\ CanUpdateHook(op, programs, recipient, lamports)

ListOnlyTruncated(area, size) == area
(* config_account.resize *)
Truncated(area, size) == SubSeq(area, 1, size)

(* args.close = false *)
TrimVerificationConfig(op, size, recipient) ==
  LET c         == config[op]
      new       == SubSeq(ProgramReads(c), 1, size)
      recovered == ConfigRent[Len(c.area)] - ConfigRent[size]
      synced    == HookUpdated(op, new, recipient, lamports)
  IN  /\ size < c.count
      /\ ValidPrograms(new)
      /\ TrimChecks(op, size, new, recipient)
      /\ synced[op] >= recovered
      /\ config' = [config EXCEPT ![op] =
                      Stored(c.cpi, size, WriteSlots(Truncated(c.area, size), new))]
      /\ metas' = HookMetas(op, new)
      /\ lamports' = Pay(synced, op, recipient, recovered)

(* args.close = true.  The account's balance is set to zero, and what it   *)
(* held before the hook was called is credited to the recipient, in that   *)
(* order.  The runtime rejects an instruction that does not preserve the   *)
(* sum of the balances, so nothing may have reached the account since.     *)
CloseVerificationConfig(op, size, recipient) ==
  LET held    == lamports[op]
      synced  == HookUpdated(op, << >>, recipient, lamports)
      emptied == [synced EXCEPT ![op] = 0]
  IN  /\ TrimChecks(op, size, << >>, recipient)
      /\ synced[op] = held
      /\ config' = [config EXCEPT ![op] = NoConfig]
      /\ metas' = HookMetas(op, << >>)
      /\ lamports' = [emptied EXCEPT ![recipient] = @ + held]

-----------------------------------------------------------------------------
Init ==
  /\ config = [op \in Ops |-> NoConfig]
  /\ metas = NoMetas
  /\ lamports = [a \in Accounts |-> IF a = Wallet THEN Funds ELSE 0]

(* Program lists an instruction can carry. *)
ProgramLists ==
  UNION {[1 .. n -> Programs \cup {DefaultKey}] : n \in 0 .. MaxPrograms}

Next ==
  \E op \in Ops :
    \/ \E cpi \in BOOLEAN, ps \in ProgramLists :
         InitializeVerificationConfig(op, cpi, ps)
    \/ \E cpi \in BOOLEAN, offset \in 0 .. MaxPrograms, ps \in ProgramLists :
         UpdateVerificationConfig(op, cpi, offset, ps)
    \/ \E size \in 0 .. MaxPrograms, recipient \in Accounts :
         TrimVerificationConfig(op, size, recipient)
    \/ \E size \in 0 .. MaxPrograms, recipient \in Accounts :
         CloseVerificationConfig(op, size, recipient)

Spec == Init /\ [][Next]_vars

-----------------------------------------------------------------------------
TypeOK ==
  /\ config \in [Ops -> [allocated : BOOLEAN, cpi : BOOLEAN, count : 0 .. MaxPrograms,
                         area : Seq(Programs)]]
  /\ metas \in [owned : BOOLEAN, list : Seq(Programs \cup Ops)]
  /\ lamports \in [Accounts -> Nat]

(* Every program list an instruction can be verified against is non-empty, *)
(* within the limit that the hook enforces, and the same list for both     *)
(* readers: the program, which trusts the stored count, and the hook,      *)
(* which trusts the size of the account.                                   *)
ReadersAgree ==
  \A op \in Ops : config[op].allocated =>
    /\ ProgramReads(config[op]) = HookReads(config[op])
    /\ Len(HookReads(config[op])) \in 1 .. MaxPrograms

(* The list Token-2022 resolves for a transfer names the transfer          *)
(* configuration and exactly the programs the hook will invoke from it;    *)
(* after a close, the configuration alone.  A transfer configuration never *)
(* exists without a list.                                                  *)
HookInSync ==
  /\ metas.owned =>
       metas.list = MetaList(TransferOp, HookReads(config[TransferOp]))
  /\ config[TransferOp].allocated => metas.owned

(* No sequence of grows, shrinks and refunds, whoever receives the rent,   *)
(* leaves a live account below the rent its size requires.                 *)
RentExempt ==
  /\ \A op \in Ops : config[op].allocated =>
       lamports[op] >= ConfigRent[Len(config[op].area)]
  /\ metas.owned => lamports[MetasPda] >= MetasRent[Len(metas.list)]

(* initialize_verification_config: "Each instruction (burn, transfer,      *)
(* mint, etc.) gets its own config."  While the transfer instruction has   *)
(* none, a wallet that can pay for one can give it one.                    *)
TransferConfigurable ==
  \A p \in Programs :
    /\ ~config[TransferOp].allocated
    /\ lamports[TransferOp] = 0
    /\ lamports[Wallet] >= ConfigRent[1] + MetasRent[2]
    => CanInitialize(TransferOp, <<p>>)

=========================================================================================
