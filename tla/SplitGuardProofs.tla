-------------------------- MODULE SplitGuardProofs --------------------------
(***************************************************************************)
(* Proofs about SplitGuard, for any holders, actions, rates and amounts:   *)
(* provided that no verification precedes ActivateHalt in its transaction, *)
(* no transfer of a halted mint runs, and a campaign is exact.             *)
(*                                                                         *)
(* CampaignExact is not inductive.  That nothing moves needs every         *)
(* approval to be of a mint that is not halted; that nothing is split      *)
(* twice, and that a split is counted, needs the receipts of the outset to *)
(* be there still.  GuardInv is their conjunction.                         *)
(***************************************************************************)
EXTENDS SplitGuard, CorporateActionsProofs

(* Approvals given before a halt are gone when it starts, and none is given *)
(* after.                                                                   *)
ApprovalsOfUnhalted == \A t \in approved : t \in Transfers /\ MintOf[t[1]] \notin guards

(* The receipts a halted mint had at the outset are not closed. *)
OutsetReceiptsKept ==
  \A m \in guards : \A k \in outset[m].receipts : k[1] = m => k \in receipts

(* Balances, rates and outsets are functions of what they are kept for;     *)
(* their values do not matter here.                                         *)
Kept ==
  /\ balance = [a \in TokenAccounts |-> balance[a]]
  /\ rates = [k \in RateKeys |-> rates[k]]
  /\ outset = [m \in Mints |-> outset[m]]

GuardInv ==
  /\ Kept
  /\ guards \subseteq Mints
  /\ ApprovalsOfUnhalted
  /\ OutsetReceiptsKept
  /\ CampaignExact

-----------------------------------------------------------------------------
(* The split guard only restricts what the program does: every step is one  *)
(* of the operations or leaves their state alone.                           *)
LEMMA GuardStepRefines == [GuardNext]_allVars => [Next]_vars
<1> SUFFICES ASSUME [GuardNext]_allVars PROVE [Next]_vars
  OBVIOUS
<1>1. ASSUME NEW a \in TokenAccounts, NEW b \in TokenAccounts, NEW n \in Amounts,
             VerifyTransfer(a, b, n) \/ VerifiedTransfer(a, b, n)
      PROVE  [Next]_vars
  BY <1>1 DEF VerifyTransfer, VerifiedTransfer, Next
<1>2. ASSUME NEW m \in Mints, ActivateHalt(m) \/ DeactivateHalt(m) PROVE [Next]_vars
  BY <1>2 DEF ActivateHalt, DeactivateHalt
<1>3. CASE EndTransaction
  BY <1>3 DEF EndTransaction
<1>4. CASE Campaign
  BY <1>4 DEF Campaign, Next
<1>5. CASE BetweenCampaigns
  BY <1>5 DEF BetweenCampaigns, Next
<1>6. CASE UNCHANGED allVars
  BY <1>6 DEF allVars
<1> QED
  BY <1>1, <1>2, <1>3, <1>4, <1>5, <1>6 DEF GuardNext

(* What holds of the operations, holds of them under the guard. *)
THEOREM GuardImplementsOperations == GuardSpec => Spec
<1>1. GuardInit => Init
  BY DEF GuardInit
<1> QED
  BY <1>1, GuardStepRefines, PTL DEF GuardSpec, Spec

LEMMA GuardInitInvariant == GuardInit => GuardInv
<1> SUFFICES ASSUME GuardInit PROVE GuardInv
  OBVIOUS
<1> QED
  BY DEF GuardInit, Init, GuardInv, Kept, ApprovalsOfUnhalted, OutsetReceiptsKept, CampaignExact

(* The two facts about one account that CampaignExact states *)
ExactFor(a) ==
  LET mint == MintOf[a]
      held == outset[mint].balance[a]
  IN  /\ SplitsSince(a) = {} => balance[a] = held
      /\ \A i \in ActionIds : SplitsSince(a) = {i} =>
           balance[a] = Calculate(rates[<<i, mint, mint>>], held)

(* A campaign that was exact for an account stays so in a step that leaves  *)
(* its balance, its receipts, its rates and its outset alone.               *)
LEMMA UntouchedStaysExact ==
  ASSUME NEW a \in TokenAccounts,
         ExactFor(a),
         outset'[MintOf[a]] = outset[MintOf[a]],
         balance'[a] = balance[a],
         \A i \in ActionIds :
           /\ ActionReceipt(MintOf[a], a, i) \in receipts'
                <=> ActionReceipt(MintOf[a], a, i) \in receipts
           /\ rates'[<<i, MintOf[a], MintOf[a]>>] = rates[<<i, MintOf[a], MintOf[a]>>]
  PROVE  ExactFor(a)'
<1>1. SplitsSince(a)' = SplitsSince(a)
  BY DEF SplitsSince
<1> QED
  BY <1>1 DEF ExactFor

(* The steps that leave guards, approvals and outsets alone *)
LEMMA OperationPreserves ==
  ASSUME GuardInv, UNCHANGED guardVars,
         balance' = [a \in TokenAccounts |-> balance'[a]],
         rates' = [k \in RateKeys |-> rates'[k]],
         \A m \in guards : \A k \in receipts : k[1] = m => k \in receipts',
         \A a \in TokenAccounts : MintOf[a] \in guards => ExactFor(a)'
  PROVE  GuardInv'
<1>1. /\ Kept'
      /\ guards' \subseteq Mints
      /\ ApprovalsOfUnhalted'
  BY DEF GuardInv, guardVars, Kept, ApprovalsOfUnhalted
<1>2. OutsetReceiptsKept'
  BY DEF GuardInv, guardVars, OutsetReceiptsKept
<1>3. CampaignExact'
  BY DEF CampaignExact, ExactFor, guardVars
<1> QED
  BY <1>1, <1>2, <1>3 DEF GuardInv

(* A split of an account, the only operation on a halted mint: the account  *)
(* was untouched, or it was split for another action already.               *)
LEMMA SplitPreserves ==
  ASSUME GuardInv, NEW a \in TokenAccounts, NEW i \in ActionIds, Split(a, i),
         UNCHANGED guardVars
  PROVE  GuardInv'
<1> DEFINE mint == MintOf[a]
           key  == ActionReceipt(mint, a, i)
           new  == Calculate(rates[<<i, mint, mint>>], balance[a])
<1>1. /\ key \notin receipts
      /\ balance' = [balance EXCEPT ![a] = new]
      /\ receipts' = receipts \cup {key}
      /\ rates' = rates
  BY DEF Split, SplitReceipt, SplitResult, Issue
<1>2. /\ balance'[a] = new
      /\ \A b \in TokenAccounts : b # a => balance'[b] = balance[b]
      /\ balance' = [b \in TokenAccounts |-> balance'[b]]
      /\ rates' = [k \in RateKeys |-> rates'[k]]
  BY <1>1 DEF GuardInv, Kept
<1>3. guards' = guards /\ outset' = outset
  BY DEF guardVars
<1>4. ASSUME NEW b \in TokenAccounts, MintOf[b] \in guards PROVE ExactFor(b)'
  <2>1. ExactFor(b)
    BY <1>4 DEF GuardInv, CampaignExact, ExactFor
  <2>2. CASE b # a
    <3>1. \A j \in ActionIds : ActionReceipt(MintOf[b], b, j) # key
      BY <2>2 DEF ActionReceipt
    <3> QED
      BY <2>1, <2>2, <3>1, <1>1, <1>2, <1>3, UntouchedStaysExact
  <2>3. CASE b = a
    <3>1. key \notin outset[mint].receipts
      BY <1>1, <1>4, <2>3 DEF GuardInv, OutsetReceiptsKept, ActionReceipt
    <3>2. \A j \in ActionIds : ActionReceipt(mint, a, j) = key => j = i
      BY DEF ActionReceipt
    <3>3. SplitsSince(a)' = SplitsSince(a) \cup {i}
      BY <1>1, <1>3, <3>1, <3>2 DEF SplitsSince
    <3>4. i \notin SplitsSince(a)
      BY <1>1 DEF SplitsSince
    <3>5. \A j \in ActionIds : SplitsSince(a)' = {j} => SplitsSince(a) = {} /\ j = i
      BY <3>3, <3>4
    <3>6. SplitsSince(a)' # {}
      BY <3>3
    <3>7. SplitsSince(a) = {} => balance[a] = outset[mint].balance[a]
      BY <2>1, <2>3 DEF ExactFor
    <3> QED
      BY <1>1, <1>2, <1>3, <2>3, <3>5, <3>6, <3>7 DEF ExactFor
  <2> QED
    BY <2>2, <2>3
<1> QED
  BY <1>1, <1>2, <1>4, OperationPreserves

(* The operations that leave halted mints alone: balances, receipts and     *)
(* rates of other mints may change.                                         *)
LEMMA ElsewherePreserves ==
  ASSUME GuardInv, UNCHANGED guardVars,
         balance' = [a \in TokenAccounts |-> balance'[a]],
         rates' = [k \in RateKeys |-> rates'[k]],
         \A a \in TokenAccounts : MintOf[a] \in guards => balance'[a] = balance[a],
         \A k : k[1] \in guards => (k \in receipts' <=> k \in receipts),
         \A k \in RateKeys : k[3] \in guards => rates'[k] = rates[k]
  PROVE  GuardInv'
<1>1. ASSUME NEW a \in TokenAccounts, MintOf[a] \in guards PROVE ExactFor(a)'
  <2>1. ExactFor(a)
    BY <1>1 DEF GuardInv, CampaignExact, ExactFor
  <2>2. ASSUME NEW i \in ActionIds
        PROVE  /\ ActionReceipt(MintOf[a], a, i) \in receipts'
                    <=> ActionReceipt(MintOf[a], a, i) \in receipts
               /\ rates'[<<i, MintOf[a], MintOf[a]>>] = rates[<<i, MintOf[a], MintOf[a]>>]
    <3>1. <<i, MintOf[a], MintOf[a]>> \in RateKeys
      BY HoldingsAssumption DEF RateKeys
    <3> QED
      BY <3>1, <1>1 DEF ActionReceipt
  <2> QED
    BY <2>1, <2>2, <1>1, UntouchedStaysExact DEF guardVars
<1> QED
  BY <1>1, OperationPreserves

(* Moving tokens of mints that are not halted *)
LEMMA MovePreserves ==
  ASSUME GuardInv, UNCHANGED <<rates, receipts, guardVars>>,
         NEW a \in TokenAccounts, NEW b \in TokenAccounts, NEW x, NEW y, NEW f,
         MintOf[a] \notin guards, MintOf[b] \notin guards,
         f = [balance EXCEPT ![a] = x],
         balance' = [f EXCEPT ![b] = y]
  PROVE  GuardInv'
<1>1. /\ balance' = [c \in TokenAccounts |-> balance'[c]]
      /\ \A c \in TokenAccounts : MintOf[c] \in guards => balance'[c] = balance[c]
  BY DEF GuardInv, Kept
<1>2. rates' = [k \in RateKeys |-> rates'[k]]
  BY DEF GuardInv, Kept
<1> QED
  BY <1>1, <1>2, ElsewherePreserves

LEMMA BetweenCampaignsPreserves ==
  ASSUME GuardInv, BetweenCampaigns, UNCHANGED guardVars
  PROVE  GuardInv'
<1>1. ASSUME NEW a \in TokenAccounts, NEW n \in Amounts, MintOf[a] \notin guards,
             Mint(a, n) \/ Burn(a, n)
      PROVE  GuardInv'
  <2>1. /\ UNCHANGED <<rates, receipts, guardVars>>
        /\ \E y : balance' = [balance EXCEPT ![a] = y]
    BY <1>1 DEF Mint, Burn, Credited, Debited
  <2>2. /\ balance' = [c \in TokenAccounts |-> balance'[c]]
        /\ \A c \in TokenAccounts : MintOf[c] \in guards => balance'[c] = balance[c]
        /\ rates' = [k \in RateKeys |-> rates'[k]]
    BY <1>1, <2>1 DEF GuardInv, Kept
  <2> QED
    BY <2>1, <2>2, ElsewherePreserves
<1>2. ASSUME NEW a \in TokenAccounts, NEW b \in TokenAccounts, NEW i \in ActionIds,
             NEW n \in Amounts, MintOf[a] \notin guards, MintOf[b] \notin guards,
             Convert(a, b, i, n)
      PROVE  GuardInv'
  <2> DEFINE key    == ActionReceipt(MintOf[b], a, i)
             burned == [balance EXCEPT ![a] = balance[a] - n]
  <2>1. /\ receipts' = receipts \cup {key}
        /\ rates' = rates
        /\ \E y : balance' = [burned EXCEPT ![b] = y]
    BY <1>2 DEF Convert, Issue, Credited, Debited
  <2>2. /\ balance' = [c \in TokenAccounts |-> balance'[c]]
        /\ \A c \in TokenAccounts : MintOf[c] \in guards => balance'[c] = balance[c]
        /\ rates' = [k \in RateKeys |-> rates'[k]]
    BY <1>2, <2>1 DEF GuardInv, Kept
  <2>3. \A k : k[1] \in guards => (k \in receipts' <=> k \in receipts)
    BY <1>2, <2>1 DEF ActionReceipt
  <2> QED
    BY <2>1, <2>2, <2>3, ElsewherePreserves
<1>3. ASSUME NEW k \in RateKeys, k[3] \notin guards, NEW r,
             CreateRateAccount(k, r) \/ UpdateRateAccount(k, r) \/ CloseRateAccount(k)
      PROVE  GuardInv'
  <2>1. /\ UNCHANGED <<balance, receipts, guardVars>>
        /\ \E v : rates' = [rates EXCEPT ![k] = v]
    BY <1>3 DEF CreateRateAccount, UpdateRateAccount, CloseRateAccount, holdings
  <2>2. /\ rates' = [c \in RateKeys |-> rates'[c]]
        /\ \A c \in RateKeys : c[3] \in guards => rates'[c] = rates[c]
        /\ balance' = [c \in TokenAccounts |-> balance'[c]]
    BY <1>3, <2>1 DEF GuardInv, Kept
  <2> QED
    BY <2>1, <2>2, ElsewherePreserves
<1>4. ASSUME NEW k \in ReceiptKeys, k[1] \notin guards, CloseActionReceiptAccount(k)
      PROVE  GuardInv'
  <2>1. UNCHANGED <<balance, rates, guardVars>> /\ receipts' = receipts \ {k}
    BY <1>4 DEF CloseActionReceiptAccount, holdings
  <2>2. /\ balance' = [c \in TokenAccounts |-> balance'[c]]
        /\ rates' = [c \in RateKeys |-> rates'[c]]
    BY <2>1 DEF GuardInv, Kept
  <2>3. \A c : c[1] \in guards => (c \in receipts' <=> c \in receipts)
    BY <1>4, <2>1
  <2> QED
    BY <2>1, <2>2, <2>3, ElsewherePreserves
<1> QED
  BY <1>1, <1>2, <1>3, <1>4 DEF BetweenCampaigns

(* During a campaign, besides the splits, accounts are frozen and thawed and *)
(* mints paused and resumed.                                                 *)
LEMMA CampaignPreserves ==
  ASSUME GuardInv, Campaign, UNCHANGED guardVars
  PROVE  GuardInv'
<1>1. ASSUME UNCHANGED <<balance, rates, receipts>> PROVE GuardInv'
  <2>1. /\ balance' = [c \in TokenAccounts |-> balance'[c]]
        /\ rates' = [c \in RateKeys |-> rates'[c]]
    BY <1>1 DEF GuardInv, Kept
  <2> QED
    BY <1>1, <2>1, ElsewherePreserves
<1> QED
  BY <1>1, SplitPreserves DEF Campaign, Freeze, Thaw, Pause, Resume

(* A transfer that was verified is of a mint that is not halted, and both   *)
(* its accounts are of that mint.                                           *)
LEMMA VerifiedTransferPreserves ==
  ASSUME GuardInv, NEW a \in TokenAccounts, NEW b \in TokenAccounts, NEW n \in Amounts,
         VerifiedTransfer(a, b, n)
  PROVE  GuardInv' /\ MintOf[a] \notin guards
<1>1. <<a, b, n>> \in approved /\ MintOf[a] \notin guards /\ MintOf[b] = MintOf[a]
  BY DEF VerifiedTransfer, Transfer, GuardInv, ApprovalsOfUnhalted
<1> DEFINE debited == [balance EXCEPT ![a] = balance[a] - n]
<1>2. /\ UNCHANGED <<rates, receipts, guardVars>>
      /\ balance' = [debited EXCEPT ![b] = debited[b] + n]
  BY DEF VerifiedTransfer, Transfer, Credited, Debited
<1> HIDE DEF debited
<1>3. debited = [balance EXCEPT ![a] = balance[a] - n]
  BY DEF debited
<1> QED
  BY <1>1, <1>2, <1>3, MovePreserves

(* An approval is of a mint without a guard; the ones of a transaction go   *)
(* with it.                                                                 *)
LEMMA ApprovalPreserves ==
  ASSUME GuardInv, UNCHANGED <<vars, guards, outset>>, ApprovalsOfUnhalted'
  PROVE  GuardInv'
<1>1. Kept' /\ guards' \subseteq Mints /\ OutsetReceiptsKept'
  BY DEF GuardInv, vars, Kept, OutsetReceiptsKept
<1>2. CampaignExact'
  BY DEF GuardInv, vars, CampaignExact, SplitsSince
<1> QED
  BY <1>1, <1>2 DEF GuardInv

(* A halt starts with nothing approved, and its outset is the present. *)
LEMMA ActivatePreserves ==
  ASSUME GuardInv, HaltInOwnTransaction, NEW m \in Mints, ActivateHalt(m)
  PROVE  GuardInv'
<1>1. /\ m \notin guards
      /\ approved = {} /\ approved' = {}
      /\ guards' = guards \cup {m}
      /\ outset' = [outset EXCEPT ![m] = [balance |-> balance, receipts |-> receipts]]
      /\ UNCHANGED vars
  BY DEF ActivateHalt
<1>2. /\ outset'[m].balance = balance
      /\ outset'[m].receipts = receipts
      /\ \A o \in Mints : o # m => outset'[o] = outset[o]
      /\ outset' = [o \in Mints |-> outset'[o]]
  BY <1>1 DEF GuardInv, Kept
<1>3. balance' = balance /\ receipts' = receipts /\ rates' = rates
  BY <1>1 DEF vars
<1>4. Kept' /\ guards' \subseteq Mints /\ ApprovalsOfUnhalted'
  BY <1>1, <1>2, <1>3 DEF GuardInv, Kept, ApprovalsOfUnhalted
<1>5. OutsetReceiptsKept'
  BY <1>1, <1>2, <1>3 DEF GuardInv, OutsetReceiptsKept
<1>6. ASSUME NEW a \in TokenAccounts, MintOf[a] \in guards' PROVE ExactFor(a)'
  <2>1. CASE MintOf[a] = m
    <3>1. SplitsSince(a)' = {}
      BY <2>1, <1>2, <1>3 DEF SplitsSince
    <3>2. balance'[a] = outset'[MintOf[a]].balance[a]
      BY <2>1, <1>2, <1>3
    <3> QED
      BY <3>1, <3>2 DEF ExactFor
  <2>2. CASE MintOf[a] # m
    <3>1. MintOf[a] \in guards /\ outset'[MintOf[a]] = outset[MintOf[a]]
      BY <2>2, <1>1, <1>2, <1>6, HoldingsAssumption
    <3>2. ExactFor(a)
      BY <3>1 DEF GuardInv, CampaignExact, ExactFor
    <3> QED
      BY <3>1, <3>2, <1>3, UntouchedStaysExact
  <2> QED
    BY <2>1, <2>2
<1>7. CampaignExact'
  BY <1>6 DEF CampaignExact, ExactFor
<1> QED
  BY <1>4, <1>5, <1>7 DEF GuardInv

(* The end of a halt only takes its mint out of what is claimed. *)
LEMMA DeactivatePreserves ==
  ASSUME GuardInv, NEW m \in Mints, DeactivateHalt(m)
  PROVE  GuardInv'
<1>1. /\ approved' = approved
      /\ guards' = guards \ {m}
      /\ outset' = [outset EXCEPT ![m] = NoOutset]
      /\ UNCHANGED vars
  BY DEF DeactivateHalt
<1>2. /\ \A o \in Mints : o # m => outset'[o] = outset[o]
      /\ outset' = [o \in Mints |-> outset'[o]]
  BY <1>1 DEF GuardInv, Kept
<1>3. balance' = balance /\ receipts' = receipts /\ rates' = rates
  BY <1>1 DEF vars
<1>4. Kept' /\ guards' \subseteq Mints /\ ApprovalsOfUnhalted'
  BY <1>1, <1>2, <1>3 DEF GuardInv, Kept, ApprovalsOfUnhalted
<1>5. OutsetReceiptsKept'
  BY <1>1, <1>2, <1>3 DEF GuardInv, OutsetReceiptsKept
<1>6. ASSUME NEW a \in TokenAccounts, MintOf[a] \in guards' PROVE ExactFor(a)'
  <2>1. MintOf[a] \in guards /\ outset'[MintOf[a]] = outset[MintOf[a]]
    BY <1>1, <1>2, <1>6, HoldingsAssumption
  <2>2. ExactFor(a)
    BY <2>1 DEF GuardInv, CampaignExact, ExactFor
  <2> QED
    BY <2>1, <2>2, <1>3, UntouchedStaysExact
<1>7. CampaignExact'
  BY <1>6 DEF CampaignExact, ExactFor
<1> QED
  BY <1>4, <1>5, <1>7 DEF GuardInv

-----------------------------------------------------------------------------
LEMMA GuardStepPreserves ==
  ASSUME HaltInOwnTransaction, GuardInv, [GuardNext]_allVars
  PROVE  GuardInv'
<1>1. ASSUME NEW a \in TokenAccounts, NEW b \in TokenAccounts, NEW n \in Amounts,
             VerifyTransfer(a, b, n)
      PROVE  GuardInv'
  <2>1. ApprovalsOfUnhalted'
    BY <1>1 DEF VerifyTransfer, TransferAllowed, GuardInv, ApprovalsOfUnhalted, Transfers
  <2> QED
    BY <1>1, <2>1, ApprovalPreserves DEF VerifyTransfer
<1>2. CASE EndTransaction
  <2>1. ApprovalsOfUnhalted'
    BY <1>2 DEF EndTransaction, ApprovalsOfUnhalted
  <2> QED
    BY <1>2, <2>1, ApprovalPreserves DEF EndTransaction
<1>3. CASE UNCHANGED allVars
  <2>1. ApprovalsOfUnhalted'
    BY <1>3 DEF allVars, guardVars, GuardInv, ApprovalsOfUnhalted
  <2> QED
    BY <1>3, <2>1, ApprovalPreserves DEF allVars, guardVars
<1> QED
  BY <1>1, <1>2, <1>3, VerifiedTransferPreserves, ActivatePreserves, DeactivatePreserves,
     CampaignPreserves, BetweenCampaignsPreserves
     DEF GuardNext

LEMMA GuardInvariance == HaltInOwnTransaction => (GuardSpec => []GuardInv)
<1> SUFFICES ASSUME HaltInOwnTransaction PROVE GuardSpec => []GuardInv
  OBVIOUS
<1>1. GuardInv /\ [GuardNext]_allVars => GuardInv'
  BY GuardStepPreserves
<1> QED
  BY <1>1, GuardInitInvariant, PTL DEF GuardSpec

(* At every moment of a campaign a holder has exactly its holding at the    *)
(* outset, or exactly the split of it, provided the halt is activated in a  *)
(* transaction of its own.                                                  *)
THEOREM CampaignAlwaysExact == HaltInOwnTransaction => (GuardSpec => []CampaignExact)
<1> SUFFICES ASSUME HaltInOwnTransaction PROVE GuardSpec => []CampaignExact
  OBVIOUS
<1>1. GuardInv => CampaignExact
  BY DEF GuardInv
<1> QED
  BY <1>1, GuardInvariance, PTL

(* "Guard exists -> transfer rejected" (the header of                       *)
(* examples/split-guard/src/lib.rs) is true under the same condition.       *)
THEOREM HaltAlwaysBlocksTransfers ==
  HaltInOwnTransaction => (GuardSpec => HaltBlocksTransfers)
<1> SUFFICES ASSUME HaltInOwnTransaction PROVE GuardSpec => HaltBlocksTransfers
  OBVIOUS
<1> DEFINE Blocked == \A a, b \in TokenAccounts, n \in Amounts :
                        VerifiedTransfer(a, b, n) => MintOf[a] \notin guards
<1>1. GuardInv /\ [GuardNext]_allVars => [Blocked]_allVars
  BY VerifiedTransferPreserves
<1> QED
  BY <1>1, GuardInvariance, PTL DEF GuardSpec, HaltBlocksTransfers

(* A receipt means one split or conversion under the guard as without it. *)
THEOREM OnceUntilClosedUnderGuard == GuardSpec => []OnceUntilClosed
BY GuardImplementsOperations, OnceUntilClosedAlways, PTL

-----------------------------------------------------------------------------
(* The types of the guard's own state, given those of what it guards *)
Outsets == [balance : [TokenAccounts -> 0 .. MaxU64], receipts : SUBSET ReceiptKeys]

GuardTypes ==
  /\ guards \subseteq Mints
  /\ approved \subseteq Transfers
  /\ outset \in [Mints -> Outsets]

LEMMA GuardTypesKept ==
  ASSUME TypeOK, GuardTypes, [GuardNext]_allVars
  PROVE  GuardTypes'
<1>1. ASSUME UNCHANGED guardVars PROVE GuardTypes'
  BY <1>1 DEF guardVars, GuardTypes
<1>2. ASSUME NEW a \in TokenAccounts, NEW b \in TokenAccounts, NEW n \in Amounts,
             VerifyTransfer(a, b, n)
      PROVE  GuardTypes'
  BY <1>2 DEF VerifyTransfer, GuardTypes, Transfers
<1>3. ASSUME NEW m \in Mints, ActivateHalt(m) PROVE GuardTypes'
  <2> DEFINE now == [balance |-> balance, receipts |-> receipts]
  <2>1. now \in Outsets
    BY DEF TypeOK, Outsets
  <2> HIDE DEF now
  <2>2. outset' = [outset EXCEPT ![m] = now]
    BY <1>3 DEF ActivateHalt, now
  <2> QED
    BY <1>3, <2>1, <2>2 DEF ActivateHalt, GuardTypes
<1>4. ASSUME NEW m \in Mints, DeactivateHalt(m) PROVE GuardTypes'
  <2>1. NoOutset \in Outsets
    BY WidthAssumption DEF NoOutset, Outsets
  <2> QED
    BY <1>4, <2>1 DEF DeactivateHalt, GuardTypes
<1>5. CASE EndTransaction
  BY <1>5 DEF EndTransaction, GuardTypes
<1>6. CASE UNCHANGED allVars
  BY <1>1, <1>6 DEF allVars
<1> QED
  BY <1>1, <1>2, <1>3, <1>4, <1>5, <1>6 DEF GuardNext, VerifiedTransfer

(* The operations keep their types under the guard, and so does the guard.  *)
THEOREM GuardTypeCorrect == GuardSpec => []GuardTypeOK
<1>1. GuardInit => GuardTypes
  <2>1. NoOutset \in Outsets
    BY WidthAssumption DEF NoOutset, Outsets
  <2> QED
    BY <2>1 DEF GuardInit, GuardTypes
<1>2. TypeOK /\ GuardTypes /\ [GuardNext]_allVars => GuardTypes'
  BY GuardTypesKept
<1>3. TypeOK /\ GuardTypes => GuardTypeOK
  BY DEF GuardTypes, GuardTypeOK, Outsets
<1> QED
  BY <1>1, <1>2, <1>3, GuardImplementsOperations, CorporateTypeCorrect, PTL DEF GuardSpec
=============================================================================
