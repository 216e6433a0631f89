-------------------------- MODULE CorporateActions --------------------------
(***************************************************************************)
(* The operations on security tokens (program/src/modules/operations.rs):  *)
(* the wrapped Token-2022 operations, the Rate accounts, and the corporate *)
(* actions that change a holding at a rate and leave a Receipt (Split and  *)
(* Convert).  Every operation is taken after its authorization, which the  *)
(* module Authorization models, and an account passed to a handler is the  *)
(* one its address check accepts.                                          *)
(*                                                                         *)
(* Token-2022 is external: it keeps the balances, the frozen accounts and  *)
(* the paused mints, and refuses what Debited, Credited and Transfer guard *)
(* against.  A failed operation changes nothing, so it is no step.         *)
(***************************************************************************)
EXTENDS RateMath, FiniteSetsExt, Sequences

CONSTANTS
  Mints,          \* security token mints
  TokenAccounts,  \* initialized token accounts
  MintOf,         \* the mint of a token account
  Decimals,       \* the decimals of a mint
  ActionIds,      \* action_id arguments
  Rates,          \* rate arguments, invalid ones included
  NoRate,         \* a rate account that is not initialized
  Amounts         \* amount arguments

ASSUME HoldingsAssumption ==
  /\ IsFiniteSet(TokenAccounts)
  /\ MintOf \in [TokenAccounts -> Mints]
  /\ Decimals \in [Mints -> 0 .. 255]
  /\ Rates \subseteq [rounding : {"Up", "Down"}, numerator : 0 .. 255, denominator : 0 .. 255]
  /\ Amounts \subseteq 0 .. MaxU64
  /\ NoRate \notin Rates

VARIABLES
  balance,   \* the amount of each token account
  frozen,    \* the frozen token accounts
  paused,    \* the paused mints
  rates,     \* the Rate account of each action and pair of mints
  receipts,  \* the Receipt accounts of splits and conversions
  ran        \* history: what ran under each receipt's address since it was free

holdings == <<balance, frozen, paused>>
vars == <<balance, frozen, paused, rates, receipts, ran>>

(* Addresses: find_rate_pda and Receipt::find_common_action_pda *)
RateKeys == ActionIds \X Mints \X Mints
ReceiptKeys == Mints \X TokenAccounts \X ActionIds
SourceMintReceipt(mint, account, action) == <<MintOf[account], account, action>>
ActionReceipt(mint, account, action) == <<mint, account, action>>

Supply(amounts, mint) == SumFunctionOnSet(amounts, {a \in TokenAccounts : MintOf[a] = mint})

Init ==
  /\ balance = [a \in TokenAccounts |-> 0]
  /\ frozen = {}
  /\ paused = {}
  /\ rates = [k \in RateKeys |-> NoRate]
  /\ receipts = {}
  /\ ran = [k \in ReceiptKeys |-> <<>>]

-----------------------------------------------------------------------------
(* Token-2022: minting, burning and transferring fail on a paused mint and  *)
(* on a frozen account, burning and transferring need the amount, and the   *)
(* supply fits in 64 bits.                                                  *)
Movable(account) == account \notin frozen /\ MintOf[account] \notin paused

CanMintTo(amounts, account, amount) ==
  /\ Movable(account)
  /\ Supply(amounts, MintOf[account]) + amount <= MaxU64

CanBurn(amounts, account, amount) == Movable(account) /\ amount <= amounts[account]

Credited(amounts, account, amount) == [amounts EXCEPT ![account] = @ + amount]
Debited(amounts, account, amount) == [amounts EXCEPT ![account] = @ - amount]

-----------------------------------------------------------------------------
(* Wrapped token operations *)
Mint(account, amount) ==
  /\ CanMintTo(balance, account, amount)
  /\ balance' = Credited(balance, account, amount)
  /\ UNCHANGED <<frozen, paused, rates, receipts, ran>>

Burn(account, amount) ==
  /\ CanBurn(balance, account, amount)
  /\ balance' = Debited(balance, account, amount)
  /\ UNCHANGED <<frozen, paused, rates, receipts, ran>>

Transfer(from, to, amount) ==
  /\ MintOf[from] = MintOf[to]
  /\ Movable(from)
  /\ Movable(to)
  /\ amount <= balance[from]
  /\ balance' = Credited(Debited(balance, from, amount), to, amount)
  /\ UNCHANGED <<frozen, paused, rates, receipts, ran>>

Pause(mint) ==
  /\ paused' = paused \cup {mint}
  /\ UNCHANGED <<balance, frozen, rates, receipts, ran>>

Resume(mint) ==
  /\ paused' = paused \ {mint}
  /\ UNCHANGED <<balance, frozen, rates, receipts, ran>>

Freeze(account) ==
  /\ account \notin frozen
  /\ frozen' = frozen \cup {account}
  /\ UNCHANGED <<balance, paused, rates, receipts, ran>>

Thaw(account) ==
  /\ account \in frozen
  /\ frozen' = frozen \ {account}
  /\ UNCHANGED <<balance, paused, rates, receipts, ran>>

-----------------------------------------------------------------------------
(* Rate accounts.  Only mint_to is the verified mint; mint_from may be any. *)
CreateRateAccount(key, rate) ==
  /\ rates[key] = NoRate
  /\ ValidRate(rate)
  /\ rates' = [rates EXCEPT ![key] = rate]
  /\ UNCHANGED <<holdings, receipts, ran>>

UpdateRateAccount(key, rate) ==
  /\ rates[key] # NoRate
  /\ ValidRate(rate)
  /\ rates' = [rates EXCEPT ![key] = rate]
  /\ UNCHANGED <<holdings, receipts, ran>>

CloseRateAccount(key) ==
  /\ rates[key] # NoRate
  /\ rates' = [rates EXCEPT ![key] = NoRate]
  /\ UNCHANGED <<holdings, receipts, ran>>

-----------------------------------------------------------------------------
(* Receipt::issue and ProgramAccount::close, with the history *)
Issue(key, operation) ==
  /\ receipts' = receipts \cup {key}
  /\ ran' = [ran EXCEPT ![key] = Append(@, operation)]

(* Split: the whole balance becomes what the rate makes of it.  When the    *)
(* balance does not change nothing is minted or burned, and the receipt is  *)
(* still issued.                                                            *)
SplitResult(account, action) ==
  Calculate(rates[<<action, MintOf[account], MintOf[account]>>], balance[account])

ReceiptOnlyIfChanged(account, action) ==
  LET key == ActionReceipt(MintOf[account], account, action)
  IN  /\ receipts' = IF SplitResult(account, action) = balance[account]
                       THEN receipts ELSE receipts \cup {key}
      /\ ran' = [ran EXCEPT ![key] = Append(@, "Split")]
SplitReceipt(account, action) ==
  Issue(ActionReceipt(MintOf[account], account, action), "Split")

Split(account, action) ==
  LET mint == MintOf[account]
      new  == SplitResult(account, action)
      old  == balance[account]
  IN  /\ ActionReceipt(mint, account, action) \notin receipts
      /\ rates[<<action, mint, mint>>] # NoRate
      /\ old > 0
      /\ new # Overflow
      /\ new > old => CanMintTo(balance, account, new - old)
      /\ new < old => CanBurn(balance, account, old - new)
      /\ balance' = [balance EXCEPT ![account] = new]
      /\ SplitReceipt(account, action)
      /\ UNCHANGED <<frozen, paused, rates>>

(* Convert: an amount of one mint is burned and what the rate makes of it   *)
(* is minted in another.  The receipt is filed under the mint converted to. *)
AnyResult(result) == result >= 0
WorthConverting(result) == result > 0

Convert(from, to, action, amount) ==
  LET key    == ActionReceipt(MintOf[to], from, action)
      rate   == rates[<<action, MintOf[from], MintOf[to]>>]
      result == ConvertFromTo(rate, amount, Decimals[MintOf[from]], Decimals[MintOf[to]])
      burned == Debited(balance, from, amount)
  IN  /\ key \notin receipts
      /\ rate # NoRate
      /\ balance[from] > 0
      /\ amount <= balance[from]
      /\ WorthConverting(result)
      /\ CanBurn(balance, from, amount)
      /\ CanMintTo(burned, to, result)
      /\ balance' = Credited(burned, to, result)
      /\ Issue(key, "Convert")
      /\ UNCHANGED <<frozen, paused, rates>>

CloseActionReceiptAccount(key) ==
  /\ key \in receipts
  /\ receipts' = receipts \ {key}
  /\ ran' = [ran EXCEPT ![key] = <<>>]
  /\ UNCHANGED <<holdings, rates>>

-----------------------------------------------------------------------------
Next ==
  \/ \E a \in TokenAccounts, n \in Amounts : Mint(a, n) \/ Burn(a, n)
  \/ \E a, b \in TokenAccounts, n \in Amounts : Transfer(a, b, n)
  \/ \E m \in Mints : Pause(m) \/ Resume(m)
  \/ \E a \in TokenAccounts : Freeze(a) \/ Thaw(a)
  \/ \E k \in RateKeys, r \in Rates : CreateRateAccount(k, r) \/ UpdateRateAccount(k, r)
  \/ \E k \in RateKeys : CloseRateAccount(k)
  \/ \E a \in TokenAccounts, i \in ActionIds : Split(a, i)
  \/ \E a, b \in TokenAccounts, i \in ActionIds, n \in Amounts : Convert(a, b, i, n)
  \/ \E k \in ReceiptKeys : CloseActionReceiptAccount(k)

Spec == Init /\ [][Next]_vars
-----------------------------------------------------------------------------
(* The types of the state; a rate account that exists divides by no zero,   *)
(* and no supply exceeds 64 bits, whatever splits and conversions did to it *)
(* (Rate::validate, the checked arithmetic, Token-2022's own limit).        *)
TypeOK ==
  /\ balance \in [TokenAccounts -> 0 .. MaxU64]
  /\ frozen \subseteq TokenAccounts
  /\ paused \subseteq Mints
  /\ rates \in [RateKeys -> {r \in Rates : r.numerator > 0 /\ r.denominator > 0} \cup {NoRate}]
  /\ receipts \subseteq ReceiptKeys
  /\ ran \in [ReceiptKeys -> Seq({"Split", "Convert"})]
  /\ \A m \in Mints : Supply(balance, m) <= MaxU64

(* A receipt prevents duplicate participation (docs, "Receipt"): however    *)
(* rates are updated, closed and created again between attempts, a token    *)
(* account takes part at most once under one receipt until the receipt is   *)
(* closed, and it has taken part if the receipt is there.                   *)
OnceUntilClosed ==
  \A key \in ReceiptKeys : Len(ran[key]) = IF key \in receipts THEN 1 ELSE 0

Burned(mint) == Supply(balance', mint) < Supply(balance, mint)
Minted(mint) == Supply(balance', mint) > Supply(balance, mint)

(* No conversion burns without paying out, pays out without burning, or     *)
(* files its receipt under the wrong mint: in one step one mint's supply    *)
(* falls and another's grows exactly when a receipt of the other mint is    *)
(* issued to an account of the first (execute_convert).                     *)
ConversionsPaired ==
  [][\A m1, m2 \in Mints : m1 # m2 =>
       ( (Burned(m1) /\ Minted(m2)) <=>
         \E key \in receipts' \ receipts : key[1] = m2 /\ MintOf[key[2]] = m1 )]_vars

(* "Split should be used for the same mints instead" (the comment in        *)
(* execute_convert): an account's receipt for its own mint is the trace of  *)
(* a split, never of a conversion.                                          *)
SplitReceiptsOnlyFromSplits ==
  \A key \in receipts : MintOf[key[2]] = key[1] => ran[key] = <<"Split">>
=============================================================================
