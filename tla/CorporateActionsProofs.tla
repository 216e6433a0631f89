----------------------- MODULE CorporateActionsProofs -----------------------
(***************************************************************************)
(* Proofs about CorporateActions, for any mints, accounts, rates and       *)
(* integer widths: what a receipt says about the operation it stands for.  *)
(*                                                                         *)
(* OnceUntilClosed is inductive once the addresses of the receipts are     *)
(* known to be the ones the history is kept for: an operation that runs    *)
(* has found its receipt's address free, and leaves the receipt there.     *)
(***************************************************************************)
EXTENDS CorporateActions, DataProofs

Operations == {"Split", "Convert"}

ReceiptInv ==
  /\ receipts \subseteq ReceiptKeys
  /\ ran \in [ReceiptKeys -> Seq(Operations)]
  /\ OnceUntilClosed

(* Accounts of existing rates have a rate that divides by no zero *)
ExistingRates == {r \in Rates : r.numerator > 0 /\ r.denominator > 0}
RateInv == rates \in [RateKeys -> ExistingRates \cup {NoRate}]

-----------------------------------------------------------------------------
(* Both kinds of receipt are filed under a mint, an account and an action.  *)
LEMMA ReceiptAddress ==
  ASSUME NEW a \in TokenAccounts, NEW b \in TokenAccounts, NEW i \in ActionIds
  PROVE  ActionReceipt(MintOf[b], a, i) \in ReceiptKeys
BY HoldingsAssumption DEF ActionReceipt, ReceiptKeys

LEMMA ReceiptInitInvariant == Init => ReceiptInv
BY DEF Init, ReceiptInv, OnceUntilClosed

(* An operation that finds its address free and issues the receipt keeps    *)
(* the count of the address, and of every other, right.                     *)
LEMMA IssuePreserves ==
  ASSUME ReceiptInv, NEW key \in ReceiptKeys, NEW op \in Operations,
         key \notin receipts, Issue(key, op)
  PROVE  ReceiptInv'
<1>1. /\ receipts' = receipts \cup {key}
      /\ ran' = [ran EXCEPT ![key] = Append(ran[key], op)]
  BY DEF Issue
<1>2. /\ ran[key] \in Seq(Operations) /\ Len(ran[key]) = 0
  BY DEF ReceiptInv, OnceUntilClosed
<1>3. /\ Append(ran[key], op) \in Seq(Operations)
      /\ Len(Append(ran[key], op)) = 1
  BY <1>2
<1>4. /\ receipts' \subseteq ReceiptKeys
      /\ ran' \in [ReceiptKeys -> Seq(Operations)]
      /\ ran'[key] = Append(ran[key], op)
      /\ \A k \in ReceiptKeys : k # key => ran'[k] = ran[k]
  BY <1>1, <1>3 DEF ReceiptInv
<1>5. OnceUntilClosed'
  <2> SUFFICES ASSUME NEW k \in ReceiptKeys
               PROVE  Len(ran'[k]) = IF k \in receipts' THEN 1 ELSE 0
    BY DEF OnceUntilClosed
  <2>1. CASE k = key
    BY <2>1, <1>1, <1>3, <1>4
  <2>2. CASE k # key
    BY <2>2, <1>1, <1>4 DEF ReceiptInv, OnceUntilClosed
  <2> QED
    BY <2>1, <2>2
<1> QED
  BY <1>4, <1>5 DEF ReceiptInv

(* A close frees the address and starts its history anew. *)
LEMMA ClosePreservesReceipts ==
  ASSUME ReceiptInv, NEW key \in ReceiptKeys, CloseActionReceiptAccount(key)
  PROVE  ReceiptInv'
<1>1. receipts' = receipts \ {key} /\ ran' = [ran EXCEPT ![key] = << >>]
  BY DEF CloseActionReceiptAccount
<1>2. << >> \in Seq(Operations) /\ Len(<< >>) = 0
  OBVIOUS
<1>3. /\ receipts' \subseteq ReceiptKeys
      /\ ran' \in [ReceiptKeys -> Seq(Operations)]
      /\ ran'[key] = << >>
      /\ \A k \in ReceiptKeys : k # key => ran'[k] = ran[k]
  BY <1>1, <1>2 DEF ReceiptInv
<1>4. OnceUntilClosed'
  <2> SUFFICES ASSUME NEW k \in ReceiptKeys
               PROVE  Len(ran'[k]) = IF k \in receipts' THEN 1 ELSE 0
    BY DEF OnceUntilClosed
  <2>1. CASE k = key
    BY <2>1, <1>1, <1>2, <1>3
  <2>2. CASE k # key
    BY <2>2, <1>1, <1>3 DEF ReceiptInv, OnceUntilClosed
  <2> QED
    BY <2>1, <2>2
<1> QED
  BY <1>3, <1>4 DEF ReceiptInv

(* Nothing else touches receipts. *)
LEMMA ReceiptStepPreserves == ReceiptInv /\ [Next]_vars => ReceiptInv'
<1> SUFFICES ASSUME ReceiptInv, [Next]_vars PROVE ReceiptInv'
  OBVIOUS
<1>1. ASSUME receipts' = receipts, ran' = ran PROVE ReceiptInv'
  BY <1>1 DEF ReceiptInv, OnceUntilClosed
<1>2. ASSUME NEW a \in TokenAccounts, NEW b \in TokenAccounts, NEW n \in Amounts,
             Mint(a, n) \/ Burn(a, n) \/ Transfer(a, b, n) \/ Freeze(a) \/ Thaw(a)
      PROVE  ReceiptInv'
  BY <1>1, <1>2 DEF Mint, Burn, Transfer, Freeze, Thaw
<1>3. ASSUME NEW m \in Mints, Pause(m) \/ Resume(m) PROVE ReceiptInv'
  BY <1>1, <1>3 DEF Pause, Resume
<1>4. ASSUME NEW k \in RateKeys, NEW r,
             CreateRateAccount(k, r) \/ UpdateRateAccount(k, r) \/ CloseRateAccount(k)
      PROVE  ReceiptInv'
  BY <1>1, <1>4 DEF CreateRateAccount, UpdateRateAccount, CloseRateAccount
<1>5. ASSUME NEW a \in TokenAccounts, NEW i \in ActionIds, Split(a, i)
      PROVE  ReceiptInv'
  <2>1. /\ ActionReceipt(MintOf[a], a, i) \notin receipts
        /\ Issue(ActionReceipt(MintOf[a], a, i), "Split")
    BY <1>5 DEF Split, SplitReceipt
  <2> QED
    BY <2>1, ReceiptAddress, IssuePreserves DEF Operations
<1>6. ASSUME NEW a \in TokenAccounts, NEW b \in TokenAccounts, NEW i \in ActionIds,
             NEW n \in Amounts, Convert(a, b, i, n)
      PROVE  ReceiptInv'
  <2>1. /\ ActionReceipt(MintOf[b], a, i) \notin receipts
        /\ Issue(ActionReceipt(MintOf[b], a, i), "Convert")
    BY <1>6 DEF Convert
  <2> QED
    BY <2>1, ReceiptAddress, IssuePreserves DEF Operations
<1>7. ASSUME NEW k \in ReceiptKeys, CloseActionReceiptAccount(k)
      PROVE  ReceiptInv'
  BY <1>7, ClosePreservesReceipts
<1>8. CASE UNCHANGED vars
  BY <1>8, <1>1 DEF vars
<1>9. CASE Next
  <2>1. CASE \E a \in TokenAccounts, n \in Amounts : Mint(a, n) \/ Burn(a, n)
    BY <2>1, <1>2
  <2>2. CASE \E a, b \in TokenAccounts, n \in Amounts : Transfer(a, b, n)
    BY <2>2, <1>2
  <2>3. CASE \E a \in TokenAccounts : Freeze(a) \/ Thaw(a)
    BY <2>3, <1>1 DEF Freeze, Thaw
  <2>4. CASE \/ \E k \in RateKeys, r \in Rates :
                  CreateRateAccount(k, r) \/ UpdateRateAccount(k, r)
             \/ \E k \in RateKeys : CloseRateAccount(k)
    BY <2>4, <1>4
  <2> QED
    BY <2>1, <2>2, <2>3, <2>4, <1>3, <1>5, <1>6, <1>7, <1>9 DEF Next
<1> QED
  BY <1>8, <1>9

(* However rates come, change and go between attempts, an account takes     *)
(* part once under a receipt until that receipt is closed (issue and the    *)
(* check of the receipt's address in execute_split and execute_convert).    *)
THEOREM OnceUntilClosedAlways == Spec => []OnceUntilClosed
<1>1. ReceiptInv => OnceUntilClosed
  BY DEF ReceiptInv
<1> QED
  BY <1>1, ReceiptInitInvariant, ReceiptStepPreserves, PTL DEF Spec

-----------------------------------------------------------------------------
(* Whatever is asked of the Rate accounts, no rate that a split or a        *)
(* conversion finds divides by zero (Rate::validate on creation and on      *)
(* update).                                                                 *)
LEMMA RateStepPreserves == RateInv /\ [Next]_vars => RateInv'
<1> SUFFICES ASSUME RateInv, [Next]_vars PROVE RateInv'
  OBVIOUS
<1>1. ASSUME rates' = rates PROVE RateInv'
  BY <1>1 DEF RateInv
<1>2. ASSUME NEW k \in RateKeys, NEW r \in ExistingRates \cup {NoRate},
             rates' = [rates EXCEPT ![k] = r]
      PROVE  RateInv'
  BY <1>2 DEF RateInv
<1>3. ASSUME NEW k \in RateKeys, NEW r \in Rates,
             CreateRateAccount(k, r) \/ UpdateRateAccount(k, r)
      PROVE  RateInv'
  <2>1. r \in ExistingRates /\ rates' = [rates EXCEPT ![k] = r]
    BY <1>3 DEF CreateRateAccount, UpdateRateAccount, ValidRate, ExistingRates
  <2> QED
    BY <2>1, <1>2
<1>4. ASSUME NEW k \in RateKeys, CloseRateAccount(k) PROVE RateInv'
  BY <1>4, <1>2 DEF CloseRateAccount
<1>5. CASE UNCHANGED vars
  BY <1>5, <1>1 DEF vars
<1>6. CASE Next
  BY <1>6, <1>1, <1>3, <1>4
     DEF Next, Mint, Burn, Transfer, Pause, Resume, Freeze, Thaw, Split, Convert,
         CloseActionReceiptAccount, holdings
<1> QED
  BY <1>5, <1>6

THEOREM RatesAlwaysUsable == Spec => []RateInv
<1>1. Init => RateInv
  BY DEF Init, RateInv
<1> QED
  BY <1>1, RateStepPreserves, PTL DEF Spec

-----------------------------------------------------------------------------
(***************************************************************************)
(* Holdings.  The supply of a mint is a sum over its accounts, and what an *)
(* operation does to one account it does to the sum.                       *)
(***************************************************************************)
Holders(mint) == {a \in TokenAccounts : MintOf[a] = mint}

Holdings(amounts) ==
  /\ amounts \in [TokenAccounts -> 0 .. MaxU64]
  /\ \A m \in Mints : Supply(amounts, m) <= MaxU64

LEMMA HoldersFinite ==
  ASSUME NEW m
  PROVE  Holders(m) \subseteq TokenAccounts /\ IsFiniteSet(Holders(m))
<1>1. Holders(m) \subseteq TokenAccounts
  BY DEF Holders
<1> QED
  BY <1>1, FS_Subset, HoldingsAssumption

LEMMA SupplyIsSum ==
  ASSUME NEW amounts, NEW m
  PROVE  Supply(amounts, m) = SumFunctionOnSet(amounts, Holders(m))
BY DEF Supply, Holders

LEMMA SupplyType ==
  ASSUME NEW amounts \in [TokenAccounts -> Nat], NEW m
  PROVE  Supply(amounts, m) \in Nat
<1>1. \A a \in Holders(m) : amounts[a] \in Nat
  BY HoldersFinite
<1> QED
  BY <1>1, HoldersFinite, SumNat, SupplyIsSum

(* Setting one balance changes the supply of its mint by the difference. *)
OneChanged(old, new, a) ==
  /\ old \in [TokenAccounts -> Nat]
  /\ new \in [TokenAccounts -> Nat]
  /\ \A b \in TokenAccounts : b # a => new[b] = old[b]

LEMMA SupplyChanged ==
  ASSUME NEW old, NEW new, NEW a \in TokenAccounts, OneChanged(old, new, a), NEW m
  PROVE  /\ Supply(old, m) \in Nat /\ Supply(new, m) \in Nat
         /\ MintOf[a] = m => Supply(new, m) = Supply(old, m) + (new[a] - old[a])
         /\ MintOf[a] # m => Supply(new, m) = Supply(old, m)
<1>1. old \in [TokenAccounts -> Nat] /\ new \in [TokenAccounts -> Nat]
  BY DEF OneChanged
<1>2. a \in Holders(m) <=> MintOf[a] = m
  BY DEF Holders
<1>3. /\ \A b \in Holders(m) : old[b] \in Int /\ new[b] \in Int
      /\ \A b \in Holders(m) : b # a => new[b] = old[b]
  BY HoldersFinite DEF OneChanged
<1>4. SumFunctionOnSet(new, Holders(m)) =
        IF a \in Holders(m) THEN SumFunctionOnSet(old, Holders(m)) + (new[a] - old[a])
                            ELSE SumFunctionOnSet(old, Holders(m))
  BY <1>3, HoldersFinite, SumChanged
<1>5. /\ Supply(new, m) = SumFunctionOnSet(new, Holders(m))
      /\ Supply(old, m) = SumFunctionOnSet(old, Holders(m))
  BY SupplyIsSum
<1>6. Supply(old, m) \in Nat /\ Supply(new, m) \in Nat
  BY <1>1, SupplyType
<1> QED
  BY <1>2, <1>4, <1>5, <1>6

(* No balance exceeds the supply of its mint. *)
LEMMA SupplyCovers ==
  ASSUME NEW amounts \in [TokenAccounts -> Nat], NEW a \in TokenAccounts
  PROVE  amounts[a] <= Supply(amounts, MintOf[a])
<1> DEFINE S == Holders(MintOf[a])
<1>1. a \in S /\ IsFiniteSet(S) /\ IsFiniteSet(S \ {a}) /\ \A x \in S : amounts[x] \in Nat
  BY HoldersFinite, FS_RemoveElement DEF Holders
<1> HIDE DEF S
<1>2. SumFunctionOnSet(amounts, S) = amounts[a] + SumFunctionOnSet(amounts, S \ {a})
  <2>1. \A x \in S : amounts[x] \in Int
    BY <1>1
  <2> QED
    BY <1>1, <2>1, SumTake
<1>3. SumFunctionOnSet(amounts, S \ {a}) \in Nat
  <2>1. \A x \in S \ {a} : amounts[x] \in Nat
    BY <1>1
  <2> QED
    BY <1>1, <2>1, SumNat
<1> QED
  BY <1>2, <1>3, SupplyIsSum DEF S

(* A balance may be set to whatever the supply can take. *)
LEMMA HoldingsChanged ==
  ASSUME NEW old, Holdings(old), NEW new, NEW a \in TokenAccounts, OneChanged(old, new, a),
         Supply(old, MintOf[a]) + (new[a] - old[a]) <= MaxU64
  PROVE  Holdings(new)
<1>1. MaxU64 \in Nat /\ new \in [TokenAccounts -> Nat]
  BY WidthAssumption DEF OneChanged
<1>2. \A m \in Mints : Supply(new, m) <= MaxU64
  BY SupplyChanged DEF Holdings
<1>3. \A b \in TokenAccounts : new[b] \in 0 .. MaxU64
  <2>1. SUFFICES ASSUME NEW b \in TokenAccounts
                 PROVE  new[b] <= MaxU64 /\ new[b] \in Nat
    BY <1>1
  <2>2. MintOf[b] \in Mints /\ Supply(new, MintOf[b]) \in Nat
    BY <1>1, SupplyType, HoldingsAssumption
  <2> QED
    BY <1>1, <1>2, <2>2, SupplyCovers
<1>4. new \in [TokenAccounts -> 0 .. MaxU64]
  BY <1>1, <1>3
<1> QED
  BY <1>2, <1>4 DEF Holdings

LEMMA CreditedHoldings ==
  ASSUME NEW old, Holdings(old), NEW a \in TokenAccounts, NEW n \in Nat,
         NEW new, new = Credited(old, a, n)
  PROVE  /\ OneChanged(old, new, a) /\ new[a] = old[a] + n
         /\ Supply(old, MintOf[a]) + n <= MaxU64 => Holdings(new)
<1>1. old \in [TokenAccounts -> Nat]
  BY DEF Holdings
<1>2. OneChanged(old, new, a) /\ new[a] = old[a] + n
  BY <1>1 DEF Credited, OneChanged
<1>3. new[a] - old[a] = n
  BY <1>1, <1>2
<1> QED
  BY <1>2, <1>3, HoldingsChanged

LEMMA DebitedHoldings ==
  ASSUME NEW old, Holdings(old), NEW a \in TokenAccounts, NEW n \in Nat, n <= old[a],
         NEW new, new = Debited(old, a, n)
  PROVE  OneChanged(old, new, a) /\ new[a] = old[a] - n /\ Holdings(new)
<1>1. old \in [TokenAccounts -> Nat] /\ MintOf[a] \in Mints /\ MaxU64 \in Nat
  BY HoldingsAssumption, WidthAssumption DEF Holdings
<1>2. OneChanged(old, new, a) /\ new[a] = old[a] - n
  BY <1>1 DEF Debited, OneChanged
<1>3. Supply(old, MintOf[a]) \in Nat /\ Supply(old, MintOf[a]) <= MaxU64
  BY <1>1, SupplyType DEF Holdings
<1>4. Supply(old, MintOf[a]) + (new[a] - old[a]) <= MaxU64
  BY <1>1, <1>2, <1>3
<1> QED
  BY <1>2, <1>4, HoldingsChanged

(* What is debited from one account and credited to another. *)
MovedSupplies(old, new, a, n, b, k) ==
  /\ MintOf[a] = MintOf[b] =>
       \A m \in Mints :
         IF m = MintOf[a] THEN Supply(new, m) = Supply(old, m) - n + k
                          ELSE Supply(new, m) = Supply(old, m)
  /\ MintOf[a] # MintOf[b] =>
       \A m \in Mints :
         /\ m = MintOf[a] => Supply(new, m) = Supply(old, m) - n
         /\ m = MintOf[b] => Supply(new, m) = Supply(old, m) + k
         /\ m # MintOf[a] /\ m # MintOf[b] => Supply(new, m) = Supply(old, m)

LEMMA MovedHoldings ==
  ASSUME NEW old, Holdings(old), NEW a \in TokenAccounts, NEW n \in Nat, n <= old[a],
         NEW taken, taken = Debited(old, a, n),
         NEW b \in TokenAccounts, NEW k \in Nat,
         NEW new, new = Credited(taken, b, k)
  PROVE  /\ \A m \in Mints : Supply(old, m) \in Nat
         /\ MovedSupplies(old, new, a, n, b, k)
         /\ Supply(taken, MintOf[b]) + k <= MaxU64 => Holdings(new)
<1>1. Holdings(taken) /\ OneChanged(old, taken, a) /\ taken[a] = old[a] - n
  BY DebitedHoldings
<1>2. /\ OneChanged(taken, new, b) /\ new[b] = taken[b] + k
      /\ Supply(taken, MintOf[b]) + k <= MaxU64 => Holdings(new)
  BY <1>1, CreditedHoldings
<1>3. taken[a] - old[a] = 0 - n /\ new[b] - taken[b] = k
  BY <1>1, <1>2 DEF OneChanged
<1>4. ASSUME NEW m \in Mints
      PROVE  /\ Supply(old, m) \in Nat /\ Supply(taken, m) \in Nat
             /\ MintOf[a] = m => Supply(taken, m) = Supply(old, m) - n
             /\ MintOf[a] # m => Supply(taken, m) = Supply(old, m)
  BY <1>1, <1>3, SupplyChanged
<1>5. ASSUME NEW m \in Mints
      PROVE  /\ MintOf[b] = m => Supply(new, m) = Supply(taken, m) + k
             /\ MintOf[b] # m => Supply(new, m) = Supply(taken, m)
  BY <1>2, <1>3, SupplyChanged
<1> QED
  BY <1>2, <1>4, <1>5 DEF MovedSupplies

-----------------------------------------------------------------------------
(***************************************************************************)
(* What a rate makes of an amount is an amount, or the operation fails.    *)
(***************************************************************************)
LEMMA QuotientType ==
  ASSUME NEW a \in Nat, NEW b \in Nat \ {0}, NEW rounding
  PROVE  Divided(rounding, a, b) \in Nat
<1>1. a \div b \in Nat /\ (a + b - 1) \div b \in Nat
  OBVIOUS
<1> QED
  BY <1>1 DEF Divided

LEMMA ScaleType ==
  ASSUME NEW from \in 0 .. 255, NEW to \in 0 .. 255
  PROVE  Scale(from, to) \in Nat \ {0}
<1>1. PowersOf(Pow10, 10, 255)
  <2>1. PICK p : PowersEquation(p, 10, 255)
    BY PowersSolvable
  <2>2. p = [n \in 0 .. 255 |-> IF n = 0 THEN 1 ELSE 10 * p[n - 1]]
    BY <2>1 DEF PowersEquation
  <2>3. PowersEquation(Pow10, 10, 255)
    BY <2>2 DEF Pow10, PowersEquation
  <2> QED
    BY <2>3, PowersRecursive
<1>2. Pow10 \in [0 .. 255 -> Nat \ {0}]
  BY <1>1 DEF PowersOf
<1> QED
  BY <1>2 DEF Scale

LEMMA CalculateType ==
  ASSUME NEW r \in ExistingRates, NEW n \in Nat
  PROVE  Calculate(r, n) \in Nat \cup {Overflow}
<1>1. r.numerator \in Nat /\ r.denominator \in Nat \ {0}
  BY HoldingsAssumption DEF ExistingRates
<1>2. n * r.numerator \in Nat
  BY <1>1
<1> QED
  BY <1>1, <1>2, QuotientType DEF Calculate

LEMMA ConvertType ==
  ASSUME NEW r \in ExistingRates, NEW n \in Nat, NEW from \in 0 .. 255, NEW to \in 0 .. 255
  PROVE  /\ ConvertFromTo(r, n, from, to) \in Nat \cup {Overflow}
         /\ n = 0 => ConvertFromTo(r, n, from, to) = 0
<1>1. r.numerator \in Nat /\ r.denominator \in Nat \ {0}
  BY HoldingsAssumption DEF ExistingRates
<1> DEFINE up   == IF to >= from THEN Scale(from, to) ELSE 1
           down == IF to >= from THEN 1 ELSE Scale(from, to)
<1>2. up \in Nat \ {0} /\ down \in Nat \ {0}
  <2>1. Scale(from, to) \in Nat \ {0}
    BY ScaleType
  <2> QED
    BY <2>1
<1> HIDE DEF up, down
<1>3. n * r.numerator * up \in Nat /\ r.denominator * down \in Nat \ {0}
  BY <1>1, <1>2
<1>4. Numerator(r, n, from, to) \in Nat /\ Denominator(r, from, to) \in Nat \ {0}
  BY <1>3 DEF Numerator, Denominator, up, down
<1>5. Divided(r.rounding, Numerator(r, n, from, to), Denominator(r, from, to)) \in Nat
  BY <1>4, QuotientType
<1> QED
  BY <1>5 DEF ConvertFromTo

-----------------------------------------------------------------------------
(***************************************************************************)
(* The types of the state, and the supplies.  Beside its type, a step is   *)
(* proved to pair what it burns and mints: it changes the supply of one    *)
(* mint at most and issues no receipt of another, or it is a conversion.   *)
(***************************************************************************)
HoldingsInv ==
  /\ Holdings(balance)
  /\ frozen \subseteq TokenAccounts
  /\ paused \subseteq Mints

CorporateInv == HoldingsInv /\ RateInv /\ ReceiptInv

PairedStep ==
  \A m1, m2 \in Mints : m1 # m2 =>
    ( (Burned(m1) /\ Minted(m2)) <=>
      \E key \in receipts' \ receipts : key[1] = m2 /\ MintOf[key[2]] = m1 )

OneSupply(mint) == \A m \in Mints : m # mint => Supply(balance', m) = Supply(balance, m)
OwnReceipts == \A key \in receipts' \ receipts : MintOf[key[2]] = key[1]

LEMMA SuppliesTyped ==
  ASSUME NEW amounts, Holdings(amounts)
  PROVE  \A m \in Mints : Supply(amounts, m) \in Nat
<1>1. amounts \in [TokenAccounts -> Nat]
  BY DEF Holdings
<1> QED
  BY <1>1, SupplyType

LEMMA OneMintPaired ==
  ASSUME Holdings(balance), NEW mint, OneSupply(mint), OwnReceipts
  PROVE  PairedStep
<1> SUFFICES ASSUME NEW m1 \in Mints, NEW m2 \in Mints, m1 # m2
             PROVE  (Burned(m1) /\ Minted(m2)) <=>
                    \E key \in receipts' \ receipts : key[1] = m2 /\ MintOf[key[2]] = m1
  BY DEF PairedStep
<1>1. ~(Burned(m1) /\ Minted(m2))
  <2>1. Supply(balance, m1) \in Nat /\ Supply(balance, m2) \in Nat
    BY SuppliesTyped
  <2>2. Supply(balance', m1) = Supply(balance, m1) \/ Supply(balance', m2) = Supply(balance, m2)
    BY DEF OneSupply
  <2> QED
    BY <2>1, <2>2 DEF Burned, Minted
<1> QED
  BY <1>1 DEF OwnReceipts

LEMMA NothingMoved ==
  ASSUME HoldingsInv, balance' = balance, OwnReceipts,
         frozen' \subseteq TokenAccounts, paused' \subseteq Mints
  PROVE  HoldingsInv' /\ PairedStep
<1>1. HoldingsInv'
  BY DEF HoldingsInv, Holdings, Supply
<1>2. \A m \in Mints : Supply(balance', m) = Supply(balance, m)
  BY DEF Supply
<1>3. \A mint : OneSupply(mint)
  BY <1>2 DEF OneSupply
<1> QED
  BY <1>1, <1>3, OneMintPaired DEF HoldingsInv

(* One account's balance is set. *)
LEMMA OneAccountSet ==
  ASSUME HoldingsInv, NEW a \in TokenAccounts, OneChanged(balance, balance', a),
         Holdings(balance'), OwnReceipts, UNCHANGED <<frozen, paused>>
  PROVE  HoldingsInv' /\ PairedStep
<1>1. HoldingsInv'
  BY DEF HoldingsInv, Holdings, Supply
<1>2. OneSupply(MintOf[a])
  BY SupplyChanged DEF OneSupply
<1> QED
  BY <1>1, <1>2, OneMintPaired DEF HoldingsInv

LEMMA MintKeeps ==
  ASSUME CorporateInv, NEW a \in TokenAccounts, NEW n \in Amounts, Mint(a, n)
  PROVE  HoldingsInv' /\ PairedStep
<1>1. /\ Supply(balance, MintOf[a]) + n <= MaxU64
      /\ balance' = Credited(balance, a, n)
      /\ UNCHANGED <<frozen, paused, receipts>>
  BY DEF Mint, CanMintTo
<1>2. n \in Nat /\ HoldingsInv /\ Holdings(balance)
  BY HoldingsAssumption, WidthAssumption DEF CorporateInv, HoldingsInv
<1>3. OneChanged(balance, balance', a) /\ Holdings(balance')
  BY <1>1, <1>2, CreditedHoldings
<1> QED
  BY <1>1, <1>2, <1>3, OneAccountSet DEF OwnReceipts

LEMMA BurnKeeps ==
  ASSUME CorporateInv, NEW a \in TokenAccounts, NEW n \in Amounts, Burn(a, n)
  PROVE  HoldingsInv' /\ PairedStep
<1>1. /\ n <= balance[a]
      /\ balance' = Debited(balance, a, n)
      /\ UNCHANGED <<frozen, paused, receipts>>
  BY DEF Burn, CanBurn
<1>2. n \in Nat /\ HoldingsInv /\ Holdings(balance)
  BY HoldingsAssumption, WidthAssumption DEF CorporateInv, HoldingsInv
<1>3. OneChanged(balance, balance', a) /\ Holdings(balance')
  BY <1>1, <1>2, DebitedHoldings
<1> QED
  BY <1>1, <1>2, <1>3, OneAccountSet DEF OwnReceipts

(* Nothing is lost or made on the way. *)
LEMMA MovedWithin ==
  ASSUME NEW old, Holdings(old), NEW a \in TokenAccounts, NEW b \in TokenAccounts,
         MintOf[a] = MintOf[b], NEW n \in Nat, n <= old[a],
         NEW new, new = Credited(Debited(old, a, n), b, n)
  PROVE  Holdings(new) /\ \A m \in Mints : Supply(new, m) = Supply(old, m)
<1> DEFINE taken == Debited(old, a, n)
<1>1. Holdings(taken) /\ OneChanged(old, taken, a) /\ taken[a] = old[a] - n
  BY DebitedHoldings
<1>2. new = Credited(taken, b, n)
  OBVIOUS
<1>3. MintOf[b] \in Mints /\ old[a] \in Nat
  BY HoldingsAssumption DEF Holdings
<1>4. taken = Debited(old, a, n)
  OBVIOUS
<1> HIDE DEF taken
<1>5. /\ \A m \in Mints : Supply(old, m) \in Nat
      /\ MovedSupplies(old, new, a, n, b, n)
      /\ Supply(taken, MintOf[b]) + n <= MaxU64 => Holdings(new)
  BY <1>2, <1>4, MovedHoldings
<1>6. \A m \in Mints : Supply(new, m) = Supply(old, m)
  BY <1>5 DEF MovedSupplies
<1>7. Supply(taken, MintOf[b]) = Supply(old, MintOf[b]) - n
  <2>1. taken[a] - old[a] = 0 - n
    BY <1>1, <1>3
  <2> QED
    BY <1>1, <1>3, <1>5, <2>1, SupplyChanged
<1>8. Supply(old, MintOf[b]) <= MaxU64 /\ Supply(old, MintOf[b]) \in Nat
  BY <1>3, <1>5 DEF Holdings
<1> QED
  BY <1>5, <1>6, <1>7, <1>8

LEMMA TransferKeeps ==
  ASSUME CorporateInv, NEW a \in TokenAccounts, NEW b \in TokenAccounts, NEW n \in Amounts,
         Transfer(a, b, n)
  PROVE  HoldingsInv' /\ PairedStep
<1>1. /\ MintOf[a] = MintOf[b] /\ n <= balance[a]
      /\ balance' = Credited(Debited(balance, a, n), b, n)
      /\ UNCHANGED <<frozen, paused, receipts>>
  BY DEF Transfer
<1>2. n \in Nat /\ HoldingsInv /\ Holdings(balance)
  BY HoldingsAssumption, WidthAssumption DEF CorporateInv, HoldingsInv
<1>3. Holdings(balance') /\ \A m \in Mints : Supply(balance', m) = Supply(balance, m)
  BY <1>1, <1>2, MovedWithin
<1>4. HoldingsInv'
  BY <1>1, <1>2, <1>3 DEF HoldingsInv, Holdings, Supply
<1>5. OneSupply(MintOf[a]) /\ OwnReceipts
  BY <1>1, <1>3 DEF OneSupply, OwnReceipts
<1> QED
  BY <1>2, <1>4, <1>5, OneMintPaired

LEMMA SplitKeeps ==
  ASSUME CorporateInv, NEW a \in TokenAccounts, NEW i \in ActionIds, Split(a, i)
  PROVE  HoldingsInv' /\ PairedStep
<1> DEFINE mint == MintOf[a]
           new  == SplitResult(a, i)
           old  == balance[a]
<1>1. /\ rates[<<i, mint, mint>>] # NoRate
      /\ new # Overflow
      /\ new > old => Supply(balance, mint) + (new - old) <= MaxU64
      /\ balance' = [balance EXCEPT ![a] = new]
      /\ receipts' = receipts \cup {<<mint, a, i>>}
      /\ UNCHANGED <<frozen, paused>>
  BY DEF Split, SplitReceipt, Issue, CanMintTo, ActionReceipt
<1>2. /\ HoldingsInv /\ Holdings(balance) /\ balance \in [TokenAccounts -> Nat]
      /\ mint \in Mints /\ MaxU64 \in Nat
  BY HoldingsAssumption, WidthAssumption DEF CorporateInv, HoldingsInv, Holdings
<1>3. rates[<<i, mint, mint>>] \in ExistingRates
  BY <1>1, <1>2 DEF CorporateInv, RateInv, RateKeys
<1>4. new \in Nat
  BY <1>1, <1>2, <1>3, CalculateType DEF SplitResult
<1> HIDE DEF new
<1>5. OneChanged(balance, balance', a) /\ balance'[a] = new
  BY <1>1, <1>2, <1>4 DEF OneChanged
<1>6. Supply(balance, mint) \in Nat /\ Supply(balance, mint) <= MaxU64
  BY <1>2, SuppliesTyped DEF Holdings
<1>7. Supply(balance, mint) + (balance'[a] - balance[a]) <= MaxU64
  BY <1>1, <1>2, <1>4, <1>5, <1>6
<1>8. Holdings(balance')
  BY <1>2, <1>5, <1>7, HoldingsChanged
<1>9. OwnReceipts
  BY <1>1 DEF OwnReceipts
<1> QED
  BY <1>1, <1>2, <1>5, <1>8, <1>9, OneAccountSet

(* A conversion burns of one mint, mints of the other and files its receipt *)
(* under the other.                                                         *)
LEMMA ConvertKeeps ==
  ASSUME CorporateInv, NEW a \in TokenAccounts, NEW b \in TokenAccounts, NEW i \in ActionIds,
         NEW n \in Amounts, Convert(a, b, i, n)
  PROVE  HoldingsInv' /\ PairedStep
<1> DEFINE rate   == rates[<<i, MintOf[a], MintOf[b]>>]
           result == ConvertFromTo(rate, n, Decimals[MintOf[a]], Decimals[MintOf[b]])
           taken  == Debited(balance, a, n)
           key    == <<MintOf[b], a, i>>
<1>1. /\ key \notin receipts
      /\ rate # NoRate
      /\ n <= balance[a]
      /\ result > 0
      /\ Supply(taken, MintOf[b]) + result <= MaxU64
      /\ balance' = Credited(taken, b, result)
      /\ receipts' = receipts \cup {key}
      /\ UNCHANGED <<frozen, paused>>
  BY DEF Convert, Issue, WorthConverting, CanMintTo, ActionReceipt
<1>2. /\ HoldingsInv /\ Holdings(balance) /\ n \in Nat
      /\ MintOf[a] \in Mints /\ MintOf[b] \in Mints
      /\ Decimals[MintOf[a]] \in 0 .. 255 /\ Decimals[MintOf[b]] \in 0 .. 255
  BY HoldingsAssumption, WidthAssumption DEF CorporateInv, HoldingsInv
<1>3. rate \in ExistingRates
  BY <1>1, <1>2 DEF CorporateInv, RateInv, RateKeys
<1> HIDE DEF rate
<1>4. result \in Nat \cup {-1} /\ (n = 0 => result = 0)
  BY <1>2, <1>3, ConvertType DEF Overflow
<1> HIDE DEF result
<1>5. result \in Nat \ {0} /\ n \in Nat \ {0}
  BY <1>1, <1>2, <1>4
<1>6. taken = Debited(balance, a, n)
  OBVIOUS
<1> HIDE DEF taken
<1>7. /\ \A m \in Mints : Supply(balance, m) \in Nat
      /\ MovedSupplies(balance, balance', a, n, b, result)
      /\ Holdings(balance')
  BY <1>1, <1>2, <1>5, <1>6, MovedHoldings
<1>8. HoldingsInv'
  BY <1>1, <1>2, <1>7 DEF HoldingsInv, Holdings, Supply
<1>9. CASE MintOf[a] = MintOf[b]
  <2>1. OneSupply(MintOf[a]) /\ OwnReceipts
    BY <1>1, <1>7, <1>9 DEF MovedSupplies, OneSupply, OwnReceipts
  <2> QED
    BY <1>2, <1>8, <2>1, OneMintPaired
<1>10. CASE MintOf[a] # MintOf[b]
  <2>1. SUFFICES ASSUME NEW m1 \in Mints, NEW m2 \in Mints, m1 # m2
                 PROVE  (Burned(m1) /\ Minted(m2)) <=>
                        \E k \in receipts' \ receipts : k[1] = m2 /\ MintOf[k[2]] = m1
    BY <1>8 DEF PairedStep
  <2>2. Burned(m1) <=> m1 = MintOf[a]
    BY <1>5, <1>7, <1>10 DEF MovedSupplies, Burned
  <2>3. Minted(m2) <=> m2 = MintOf[b]
    BY <1>5, <1>7, <1>10 DEF MovedSupplies, Minted
  <2>4. receipts' \ receipts = {key} /\ key[1] = MintOf[b] /\ key[2] = a
    BY <1>1
  <2> QED
    BY <2>2, <2>3, <2>4
<1> QED
  BY <1>9, <1>10

LEMMA HoldingsStep ==
  ASSUME CorporateInv, [Next]_vars
  PROVE  HoldingsInv' /\ PairedStep
<1>0. HoldingsInv
  BY DEF CorporateInv
<1>1. ASSUME UNCHANGED <<holdings, receipts>> PROVE HoldingsInv' /\ PairedStep
  BY <1>0, <1>1, NothingMoved DEF holdings, OwnReceipts, HoldingsInv
<1>2. ASSUME NEW m \in Mints, Pause(m) \/ Resume(m) PROVE HoldingsInv' /\ PairedStep
  <2>1. /\ balance' = balance /\ OwnReceipts
        /\ frozen' \subseteq TokenAccounts /\ paused' \subseteq Mints
    BY <1>0, <1>2 DEF Pause, Resume, OwnReceipts, HoldingsInv
  <2> QED
    BY <1>0, <2>1, NothingMoved
<1>3. ASSUME NEW a \in TokenAccounts, Freeze(a) \/ Thaw(a) PROVE HoldingsInv' /\ PairedStep
  <2>1. /\ balance' = balance /\ OwnReceipts
        /\ frozen' \subseteq TokenAccounts /\ paused' \subseteq Mints
    BY <1>0, <1>3 DEF Freeze, Thaw, OwnReceipts, HoldingsInv
  <2> QED
    BY <1>0, <2>1, NothingMoved
<1>4. ASSUME NEW k \in RateKeys, NEW r,
             CreateRateAccount(k, r) \/ UpdateRateAccount(k, r) \/ CloseRateAccount(k)
      PROVE  HoldingsInv' /\ PairedStep
  BY <1>1, <1>4 DEF CreateRateAccount, UpdateRateAccount, CloseRateAccount
<1>5. ASSUME NEW k \in ReceiptKeys, CloseActionReceiptAccount(k)
      PROVE  HoldingsInv' /\ PairedStep
  <2>1. /\ balance' = balance /\ OwnReceipts
        /\ frozen' \subseteq TokenAccounts /\ paused' \subseteq Mints
    BY <1>0, <1>5 DEF CloseActionReceiptAccount, holdings, OwnReceipts, HoldingsInv
  <2> QED
    BY <1>0, <2>1, NothingMoved
<1>6. CASE UNCHANGED vars
  BY <1>1, <1>6 DEF vars, holdings
<1>7. CASE Next
  <2>1. CASE \/ \E k \in RateKeys, r \in Rates :
                  CreateRateAccount(k, r) \/ UpdateRateAccount(k, r)
             \/ \E k \in RateKeys : CloseRateAccount(k)
    BY <2>1, <1>4
  <2> QED
    BY <2>1, <1>2, <1>3, <1>5, <1>7, MintKeeps, BurnKeeps, TransferKeeps, SplitKeeps,
       ConvertKeeps DEF Next
<1> QED
  BY <1>6, <1>7

LEMMA CorporateInit == Init => CorporateInv
<1> SUFFICES ASSUME Init PROVE Holdings(balance)
  BY ReceiptInitInvariant DEF Init, CorporateInv, RateInv, HoldingsInv
<1>1. balance = [a \in TokenAccounts |-> 0] /\ MaxU64 \in Nat
  BY WidthAssumption DEF Init
<1>2. \A m \in Mints : Supply(balance, m) = 0
  <2>1. SUFFICES ASSUME NEW m \in Mints PROVE SumFunctionOnSet(balance, Holders(m)) = 0
    BY SupplyIsSum
  <2>2. \A a \in Holders(m) : balance[a] = 0
    BY <1>1, HoldersFinite
  <2> QED
    BY <2>2, HoldersFinite, SumZero
<1> QED
  BY <1>1, <1>2 DEF Holdings

LEMMA CorporateStep == CorporateInv /\ [Next]_vars => CorporateInv'
BY HoldingsStep, RateStepPreserves, ReceiptStepPreserves DEF CorporateInv

LEMMA CorporateInvariant == Spec => []CorporateInv
BY CorporateInit, CorporateStep, PTL DEF Spec

LEMMA CorporateTypes == CorporateInv => TypeOK
BY DEF CorporateInv, HoldingsInv, Holdings, RateInv, ReceiptInv, ExistingRates, Operations, TypeOK

(* Whatever is minted, burned, moved, split and converted, and however the  *)
(* rates change, no balance and no supply leaves 64 bits, and every rate    *)
(* that is found divides by no zero (the checked arithmetic of rate.rs, and *)
(* Token-2022's own limit).                                                 *)
THEOREM CorporateTypeCorrect == Spec => []TypeOK
BY CorporateTypes, CorporateInvariant, PTL

(* A step in which one mint's supply falls and another's grows is the       *)
(* conversion whose receipt it leaves, under the mint converted to, for an  *)
(* account of the mint converted from (execute_convert).                    *)
THEOREM ConversionsAlwaysPaired == Spec => ConversionsPaired
<1>1. CorporateInv /\ [Next]_vars => [PairedStep]_vars
  BY HoldingsStep
<1>2. [PairedStep]_vars =>
        [\A m1, m2 \in Mints : m1 # m2 =>
           ( (Burned(m1) /\ Minted(m2)) <=>
             \E key \in receipts' \ receipts : key[1] = m2 /\ MintOf[key[2]] = m1 )]_vars
  BY DEF PairedStep
<1> QED
  BY <1>1, <1>2, CorporateInvariant, PTL DEF Spec, ConversionsPaired
=============================================================================
