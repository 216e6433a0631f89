----------------------------- MODULE SplitGuard -----------------------------
(***************************************************************************)
(* The split-guard verification program (examples/split-guard) composed    *)
(* with the operations it protects.  A split changes a holding in place,   *)
(* so a holder who moves split tokens to another account could have them   *)
(* split again; a guard account halts the transfers of a mint for as long  *)
(* as its issuer splits the holdings.                                      *)
(*                                                                         *)
(* The guard is the one program of the Transfer verification config, in    *)
(* introspection mode: a transfer runs only if, earlier in the same        *)
(* transaction, the guard was called with the same accounts and amount and *)
(* did not fail.  Transfers that a wallet sends to Token-2022 reach the    *)
(* guard from the transfer hook with accounts it does not accept, and so   *)
(* always fail.  Transactions that share the guard account run one after   *)
(* the other; a prefix of one is itself a transaction, so the states in    *)
(* the middle of a transaction are states the chain can be in.             *)
(***************************************************************************)
EXTENDS CorporateActions

CONSTANT
  HaltInOwnTransaction  \* no verification precedes ActivateHalt in its transaction

ASSUME HaltAssumption == HaltInOwnTransaction \in BOOLEAN

VARIABLES
  guards,    \* the mints whose split guard account exists
  approved,  \* the transfers verified so far in the current transaction
  outset     \* history: the balances and receipts when the guard was created

guardVars == <<guards, approved, outset>>
allVars == <<vars, guardVars>>

Transfers == TokenAccounts \X TokenAccounts \X Amounts
NoOutset == [balance |-> [a \in TokenAccounts |-> 0], receipts |-> {}]

GuardInit ==
  /\ Init
  /\ guards = {}
  /\ approved = {}
  /\ outset = [m \in Mints |-> NoOutset]

-----------------------------------------------------------------------------
(* verify_transfer fails while the guard account of the mint exists.        *)
AnyTransferAllowed(account) == account \in TokenAccounts
TransferAllowed(account) == MintOf[account] \notin guards

VerifyTransfer(from, to, amount) ==
  /\ MintOf[from] = MintOf[to]
  /\ TransferAllowed(from)
  /\ approved' = approved \cup {<<from, to, amount>>}
  /\ UNCHANGED <<vars, guards, outset>>

(* A transfer through the security token program: verify_by_programs finds  *)
(* the guard's approval among the instructions of the transaction.          *)
VerifiedTransfer(from, to, amount) ==
  /\ <<from, to, amount>> \in approved
  /\ Transfer(from, to, amount)
  /\ UNCHANGED guardVars

(* activate_halt, signed by the mint's creator *)
ActivateHalt(mint) ==
  /\ mint \notin guards
  /\ HaltInOwnTransaction => approved = {}
  /\ guards' = guards \cup {mint}
  /\ outset' = [outset EXCEPT ![mint] = [balance |-> balance, receipts |-> receipts]]
  /\ UNCHANGED <<vars, approved>>

(* deactivate_halt, signed by whoever activated it *)
DeactivateHalt(mint) ==
  /\ mint \in guards
  /\ guards' = guards \ {mint}
  /\ outset' = [outset EXCEPT ![mint] = NoOutset]
  /\ UNCHANGED <<vars, approved>>

(* The transaction ends, and its approvals with it. *)
EndTransaction ==
  /\ approved # {}
  /\ approved' = {}
  /\ UNCHANGED <<vars, guards, outset>>

-----------------------------------------------------------------------------
(* What the issuer does to a halted mint: split its holdings, and restrict   *)
(* them.  The campaign ends before the issuer mints, burns, converts, lets   *)
(* distributions of the mint be claimed (module Distribution), changes a     *)
(* rate or closes a receipt: the guard stops none of these.                  *)
Campaign ==
  \/ \E a \in TokenAccounts, i \in ActionIds : Split(a, i)
  \/ \E a \in TokenAccounts : Freeze(a) \/ Thaw(a)
  \/ \E m \in Mints : Pause(m) \/ Resume(m)

BetweenCampaigns ==
  \/ \E a \in TokenAccounts, n \in Amounts :
       /\ MintOf[a] \notin guards
       /\ Mint(a, n) \/ Burn(a, n)
  \/ \E a, b \in TokenAccounts, i \in ActionIds, n \in Amounts :
       /\ {MintOf[a], MintOf[b]} \cap guards = {}
       /\ Convert(a, b, i, n)
  \/ \E k \in RateKeys :
       /\ k[3] \notin guards
       /\ \/ \E r \in Rates : CreateRateAccount(k, r) \/ UpdateRateAccount(k, r)
          \/ CloseRateAccount(k)
  \/ \E k \in ReceiptKeys :
       /\ k[1] \notin guards
       /\ CloseActionReceiptAccount(k)

GuardNext ==
  \/ \E a, b \in TokenAccounts, n \in Amounts :
       VerifyTransfer(a, b, n) \/ VerifiedTransfer(a, b, n)
  \/ \E m \in Mints : ActivateHalt(m) \/ DeactivateHalt(m)
  \/ EndTransaction
  \/ (Campaign \/ BetweenCampaigns) /\ UNCHANGED guardVars

GuardSpec == GuardInit /\ [][GuardNext]_allVars

-----------------------------------------------------------------------------
(* The types of the guard's state and of what it guards. *)
GuardTypeOK ==
  /\ TypeOK
  /\ guards \subseteq Mints
  /\ approved \subseteq Transfers
  /\ outset \in [Mints -> [balance : [TokenAccounts -> 0 .. MaxU64],
                           receipts : SUBSET ReceiptKeys]]

(* The splits of an account since its mint was halted *)
SplitsSince(account) ==
  LET mint == MintOf[account]
  IN  {i \in ActionIds : ActionReceipt(mint, account, i) \in receipts \ outset[mint].receipts}

(* Execute Split for all holders while transfers are halted (the lifecycle  *)
(* in split-guard's header): whatever the holders and the issuer do in      *)
(* between, at every moment of the campaign a holder has exactly what it    *)
(* held at the outset, or exactly what the rate makes of that.  Nothing is  *)
(* split twice and nothing moves out of reach of the split.                 *)
CampaignExact ==
  \A a \in TokenAccounts : MintOf[a] \in guards =>
    LET mint == MintOf[a]
        held == outset[mint].balance[a]
    IN  /\ SplitsSince(a) = {} => balance[a] = held
        /\ \A i \in ActionIds : SplitsSince(a) = {i} =>
             balance[a] = Calculate(rates[<<i, mint, mint>>], held)

(* "Guard exists -> transfer rejected" (the header of                       *)
(* examples/split-guard/src/lib.rs): no transfer of a halted mint runs.     *)
HaltBlocksTransfers ==
  [][\A a, b \in TokenAccounts, n \in Amounts :
       VerifiedTransfer(a, b, n) => MintOf[a] \notin guards]_allVars
=============================================================================
