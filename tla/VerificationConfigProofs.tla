---------------------- MODULE VerificationConfigProofs ----------------------
(***************************************************************************)
(* Proofs about VerificationConfig, for every number of programs, every    *)
(* rent schedule and every set of instructions, in three parts.            *)
(*                                                                         *)
(* The invariants are not inductive one by one.  That the hook's list only *)
(* shrinks when a configuration is trimmed, so that the recipient of the   *)
(* rent is never charged, needs HookInSync; that both readers agree needs  *)
(* the stored count to be the number of slots; that a balance stays        *)
(* natural needs RentExempt.  IInv is their conjunction with the shape of  *)
(* the accounts that do not exist.                                         *)
(*                                                                         *)
(* VerificationConfig implements ConfigRegistry: each handler is the       *)
(* abstract change it is named for, and taking rent out of an account      *)
(* retires at most the instruction it belonged to and the one whose        *)
(* address received it.                                                    *)
(*                                                                         *)
(* What the transfer hook decides is right because both copies of the      *)
(* program list are in step.                                               *)
(***************************************************************************)
EXTENDS TransferHook, VerificationConfigRefinement, SequenceTheorems, TLAPS

(* A configuration has a slot per program and no other, and an account     *)
(* that does not exist has nothing.                                        *)
SlotsCounted ==
  \A op \in Ops :
    IF config[op].allocated
      THEN /\ config[op].count = Len(config[op].area)
           /\ Len(config[op].area) \in 1 .. MaxPrograms
      ELSE config[op] = NoConfig

IInv ==
  /\ TypeOK
  /\ SlotsCounted
  /\ HookInSync
  /\ ~metas.owned => metas = NoMetas
  /\ RentExempt

-----------------------------------------------------------------------------
(* Rents are natural numbers and grow with the account. *)
LEMMA RentFacts ==
  /\ MaxPrograms \in Nat \ {0}
  /\ \A n \in 0 .. MaxPrograms : ConfigRent[n] \in Nat
  /\ \A n \in 1 .. (MaxPrograms + 1) : MetasRent[n] \in Nat
  /\ \A n, m \in 0 .. MaxPrograms : n <= m => ConfigRent[n] <= ConfigRent[m]
  /\ \A n, m \in 1 .. (MaxPrograms + 1) : n <= m => MetasRent[n] <= MetasRent[m]
<1>1. MaxPrograms \in Nat \ {0}
  BY MaxProgramsAssumption
<1>2. /\ \A n \in 0 .. MaxPrograms : ConfigRent[n] \in Nat
      /\ \A n \in 1 .. (MaxPrograms + 1) : MetasRent[n] \in Nat
  BY <1>1, MetasRentAssumption, ConfigRentAssumption
<1>3. \A n, m \in 0 .. MaxPrograms : n <= m => ConfigRent[n] <= ConfigRent[m]
  <2> SUFFICES ASSUME NEW n \in 0 .. MaxPrograms, NEW m \in 0 .. MaxPrograms, n <= m
               PROVE  ConfigRent[n] <= ConfigRent[m]
    OBVIOUS
  <2> QED
    BY <1>1, <1>2, n < m \/ n = m, ConfigRentAssumption
<1>4. \A n, m \in 1 .. (MaxPrograms + 1) : n <= m => MetasRent[n] <= MetasRent[m]
  <2> SUFFICES ASSUME NEW n \in 1 .. (MaxPrograms + 1), NEW m \in 1 .. (MaxPrograms + 1),
                      n <= m
               PROVE  MetasRent[n] <= MetasRent[m]
    OBVIOUS
  <2> QED
    BY <1>1, <1>2, n < m \/ n = m, MetasRentAssumption
<1> QED
  BY <1>1, <1>2, <1>3, <1>4

(* A payment the payer can afford keeps every balance natural, takes from  *)
(* nobody but the payer, and credits the payee in full.                    *)
LEMMA PayEffect ==
  ASSUME NEW b \in [Accounts -> Nat], NEW from \in Accounts, NEW to \in Accounts,
         NEW amount \in Nat, b[from] >= amount
  PROVE  /\ Pay(b, from, to, amount) \in [Accounts -> Nat]
         /\ \A a \in Accounts : a # from => Pay(b, from, to, amount)[a] >= b[a]
         /\ Pay(b, from, to, amount)[from] >= b[from] - amount
         /\ amount = 0 \/ from = to => Pay(b, from, to, amount) = b
         /\ from = to \/ Pay(b, from, to, amount)[to] = b[to] + amount
         /\ from = to \/ Pay(b, from, to, amount)[from] = b[from] - amount
<1> DEFINE debited == [b EXCEPT ![from] = b[from] - amount]
<1>1. debited \in [Accounts -> Nat]
  OBVIOUS
<1>2. Pay(b, from, to, amount) = [debited EXCEPT ![to] = debited[to] + amount]
  BY DEF Pay
<1>3. Pay(b, from, to, amount) \in [Accounts -> Nat]
  BY <1>1, <1>2
<1>4. \A a \in Accounts :
        Pay(b, from, to, amount)[a] = IF a = from /\ a = to THEN b[a]
                                      ELSE IF a = from THEN b[a] - amount
                                      ELSE IF a = to THEN b[a] + amount
                                      ELSE b[a]
  BY <1>1, <1>2
<1> HIDE DEF debited
<1>5. from = to \/ amount = 0 => Pay(b, from, to, amount) = b
  <2> SUFFICES ASSUME from = to \/ amount = 0
               PROVE  \A a \in Accounts : Pay(b, from, to, amount)[a] = b[a]
    BY <1>3
  <2> QED
    BY <1>4
<1> QED
  BY <1>3, <1>4, <1>5

(* The hook's list has the configuration and then the programs. *)
LEMMA MetaListFacts ==
  ASSUME NEW op \in Ops, NEW ps \in Seq(Programs)
  PROVE  /\ MetaList(op, ps) \in Seq(Programs \cup Ops)
         /\ Len(MetaList(op, ps)) = Len(ps) + 1
<1>1. ps \in Seq(Programs \cup Ops)
  BY SeqMonotonic
<1>2. <<op>> \in Seq(Programs \cup Ops) /\ Len(<<op>>) = 1
  OBVIOUS
<1> QED
  BY <1>1, <1>2, ConcatProperties, LenProperties DEF MetaList

(* The hook's list, as long as its configuration says. *)
LEMMA MetasFacts ==
  ASSUME IInv
  PROVE  /\ metas.owned => Len(metas.list) \in 1 .. (MaxPrograms + 1)
         /\ metas.owned => Len(metas.list) = Len(config[TransferOp].area) + 1
         /\ metas.owned => lamports[MetasPda] >= MetasRent[Len(metas.list)]
         /\ Len(metas.list) \in Nat
<1>1. TransferOp \in Ops
  BY NamesAssumption
<1>2. config[TransferOp].area \in Seq(Programs)
  BY <1>1 DEF IInv, TypeOK
<1>3. Len(config[TransferOp].area) \in 0 .. MaxPrograms
  BY <1>1, RentFacts DEF IInv, SlotsCounted, NoConfig
<1>4. metas.owned => Len(metas.list) = Len(config[TransferOp].area) + 1
  BY <1>1, <1>2, MetaListFacts DEF IInv, HookInSync, HookReads
<1>5. metas.list \in Seq(Programs \cup Ops)
  BY DEF IInv, TypeOK
<1>6. Len(metas.list) \in Nat
  BY <1>5, LenProperties
<1> QED
  BY <1>3, <1>4, <1>6, RentFacts DEF IInv, RentExempt

(***************************************************************************)
(* What the update of the hook's list does to the balances: nobody but its *)
(* payer pays, nobody pays for a list that does not grow, and the list     *)
(* stays rent exempt.  The payer is another account, or the list does not  *)
(* grow.                                                                   *)
(***************************************************************************)
LEMMA HookUpdatedEffect ==
  ASSUME IInv,
         NEW op \in Ops, NEW ps \in Seq(Programs), Len(ps) \in 0 .. MaxPrograms,
         NEW payer \in Accounts, NEW b \in [Accounts -> Nat],
         b[MetasPda] >= lamports[MetasPda],
         CanUpdateHook(op, ps, payer, b),
         op = TransferOp =>
           payer # MetasPda \/ Len(ps) <= Len(config[TransferOp].area)
  PROVE  /\ HookUpdated(op, ps, payer, b) \in [Accounts -> Nat]
         /\ \A a \in Accounts : a # MetasPda /\ a # payer =>
              HookUpdated(op, ps, payer, b)[a] >= b[a]
         /\ op = TransferOp /\ Len(ps) <= Len(config[TransferOp].area) =>
              \A a \in Accounts : a # MetasPda => HookUpdated(op, ps, payer, b)[a] >= b[a]
         /\ op = TransferOp =>
              HookUpdated(op, ps, payer, b)[MetasPda] >= MetasRent[Len(ps) + 1]
         /\ op # TransferOp => HookUpdated(op, ps, payer, b) = b
<1>1. CASE op # TransferOp
  BY <1>1 DEF HookUpdated
<1>2. CASE op = TransferOp
  <2> DEFINE list   == MetaList(op, ps)
             growth == MetasGrowth(list)
             paid   == Pay(b, payer, MetasPda, growth)
             refund == MetasRefund(metas, list, paid[MetasPda])
  <2>1. MetasPda \in Accounts
    BY DEF Accounts
  <2>2. /\ Len(list) = Len(ps) + 1
        /\ Len(list) \in 1 .. (MaxPrograms + 1)
    BY MetaListFacts, RentFacts
  <2>3. /\ metas.owned
        /\ Len(metas.list) \in 1 .. (MaxPrograms + 1)
        /\ Len(metas.list) = Len(config[TransferOp].area) + 1
        /\ lamports[MetasPda] >= MetasRent[Len(metas.list)]
        /\ lamports[MetasPda] \in Nat
    BY <1>2, <2>1, MetasFacts DEF CanUpdateHook, CanUpdateMetas, IInv, TypeOK
  <2>4. /\ MetasRent[Len(list)] \in Nat
        /\ MetasRent[Len(metas.list)] \in Nat
        /\ Len(list) <= Len(metas.list) => MetasRent[Len(list)] <= MetasRent[Len(metas.list)]
        /\ Len(metas.list) <= Len(list) => MetasRent[Len(metas.list)] <= MetasRent[Len(list)]
    BY <2>2, <2>3, RentFacts
  <2> HIDE DEF list
  <2>5. /\ growth = IF Len(list) > Len(metas.list)
                      THEN MetasRent[Len(list)] - MetasRent[Len(metas.list)] ELSE 0
        /\ growth \in Nat
        /\ b[payer] >= growth
    <3>1. growth = IF Len(list) > Len(metas.list)
                     THEN MetasRent[Len(list)] - MetasRent[Len(metas.list)] ELSE 0
      BY DEF MetasGrowth, RentIncrease
    <3>2. growth \in Nat
      BY <3>1, <2>2, <2>3, <2>4
    <3> QED
      BY <1>2, <3>1, <3>2 DEF CanUpdateHook, list
  <2> HIDE DEF growth
  <2>6. /\ paid \in [Accounts -> Nat]
        /\ \A a \in Accounts : a # payer => paid[a] >= b[a]
        /\ growth = 0 \/ payer = MetasPda => paid = b
        /\ payer # MetasPda => paid[MetasPda] = b[MetasPda] + growth
    <3>1. /\ paid \in [Accounts -> Nat]
          /\ \A a \in Accounts : a # payer => paid[a] >= b[a]
      BY <2>1, <2>5, PayEffect
    <3>2. growth = 0 \/ payer = MetasPda => paid = b
      BY <2>1, <2>5, PayEffect
    <3>3. payer # MetasPda => paid[MetasPda] = b[MetasPda] + growth
      <4>1. b[MetasPda] \in Nat
        BY <2>1
      <4> QED
        BY <2>1, <2>5, <4>1 DEF Pay, paid
    <3> QED
      BY <3>1, <3>2, <3>3
  <2> HIDE DEF paid
  <2>7. /\ refund = IF Len(list) < Len(metas.list) /\ paid[MetasPda] > MetasRent[Len(list)]
                      THEN paid[MetasPda] - MetasRent[Len(list)] ELSE 0
        /\ refund \in Nat
        /\ refund <= paid[MetasPda]
    BY <2>1, <2>2, <2>3, <2>4, <2>6 DEF MetasRefund, Excess
  <2> HIDE DEF refund
  <2> DEFINE final == Pay(paid, MetasPda, payer, refund)
  <2>8. HookUpdated(op, ps, payer, b) = final
    BY <1>2 DEF HookUpdated, list, growth, paid, refund
  <2>9. /\ final \in [Accounts -> Nat]
        /\ \A a \in Accounts : a # MetasPda => final[a] >= paid[a]
        /\ payer = MetasPda => final = paid
        /\ payer # MetasPda => final[MetasPda] = paid[MetasPda] - refund
    <3>1. paid[MetasPda] \in Nat /\ paid[MetasPda] >= refund
      BY <2>1, <2>6, <2>7
    <3>2. /\ final \in [Accounts -> Nat]
          /\ \A a \in Accounts : a # MetasPda => final[a] >= paid[a]
      BY <2>1, <2>6, <2>7, <3>1, PayEffect
    <3>3. payer = MetasPda => final = paid
      BY <2>1, <2>6, <2>7, <3>1, PayEffect
    <3>4. payer # MetasPda => final[MetasPda] = paid[MetasPda] - refund
      BY <2>1, <2>6, <2>7, <3>1 DEF Pay
    <3> QED
      BY <3>2, <3>3, <3>4
  <2> HIDE DEF final
  <2>10. \A a \in Accounts : a # MetasPda /\ a # payer => final[a] >= b[a]
    BY <2>6, <2>9
  <2>11. Len(ps) <= Len(config[TransferOp].area) =>
           \A a \in Accounts : a # MetasPda => final[a] >= b[a]
    BY <2>2, <2>3, <2>5, <2>6, <2>9
  <2>12. paid[MetasPda] >= MetasRent[Len(list)]
    <3>1. CASE Len(list) <= Len(metas.list)
      BY <3>1, <2>1, <2>2, <2>3, <2>4, <2>5, <2>6
    <3>2. CASE Len(list) > Len(metas.list)
      <4>1. payer # MetasPda
        BY <3>2, <1>2, <2>2, <2>3
      <4>2. paid[MetasPda] = b[MetasPda] + (MetasRent[Len(list)] - MetasRent[Len(metas.list)])
        BY <3>2, <4>1, <2>5, <2>6
      <4>3. b[MetasPda] \in Nat
        BY <2>1
      <4>4. b[MetasPda] >= MetasRent[Len(metas.list)]
        BY <4>3, <2>3, <2>4
      <4> QED
        BY <4>2, <4>3, <4>4, <2>4
    <3> QED
      BY <3>1, <3>2, <2>2, <2>3
  <2>13. final[MetasPda] >= MetasRent[Len(ps) + 1]
    BY <2>1, <2>2, <2>4, <2>6, <2>7, <2>9, <2>12
  <2> QED
    BY <1>2, <2>8, <2>9, <2>10, <2>11, <2>13
<1> QED
  BY <1>1, <1>2

-----------------------------------------------------------------------------
(* The program list an instruction carries, when it has no default key. *)
LEMMA ProgramListFacts ==
  ASSUME NEW ps \in ProgramLists
  PROVE  /\ Len(ps) \in 0 .. MaxPrograms
         /\ DOMAIN ps = 1 .. Len(ps)
         /\ \A i \in 1 .. Len(ps) : ps[i] \in Programs \cup {DefaultKey}
         /\ NoDefaultKey(ps) => ps \in Seq(Programs)
<1>1. PICK n \in 0 .. MaxPrograms : ps \in [1 .. n -> Programs \cup {DefaultKey}]
  BY DEF ProgramLists
<1>2. n \in Nat /\ Len(ps) = n /\ ps \in Seq(Programs \cup {DefaultKey})
  BY <1>1, RentFacts
<1>3. NoDefaultKey(ps) => ps \in [1 .. n -> Programs]
  BY <1>1, <1>2 DEF NoDefaultKey
<1> QED
  BY <1>1, <1>2, <1>3

(* A live configuration is read in full. *)
LEMMA ReadInFull ==
  ASSUME TypeOK, SlotsCounted, NEW op \in Ops, config[op].allocated
  PROVE  /\ config[op].area \in Seq(Programs)
         /\ Len(config[op].area) \in 1 .. MaxPrograms
         /\ config[op].count = Len(config[op].area)
         /\ ProgramReads(config[op]) = config[op].area
<1>1. /\ config[op].area \in Seq(Programs)
      /\ Len(config[op].area) \in 1 .. MaxPrograms
      /\ config[op].count = Len(config[op].area)
  BY DEF TypeOK, SlotsCounted
<1> QED
  BY <1>1, SubSeqFull DEF ProgramReads

(* A list that fills the area replaces all of it. *)
LEMMA WriteSlotsFacts ==
  ASSUME NEW area \in Seq(Programs), NEW ps \in Seq(Programs), Len(area) <= Len(ps)
  PROVE  WriteSlots(area, ps) = ps
<1>1. Len(area) \in Nat /\ Len(ps) \in Nat
  BY LenProperties
<1>2. SubSeq(area, Len(ps) + 1, Len(area)) = << >>
  BY <1>1, SubSeqEmpty
<1> QED
  BY <1>2, ConcatEmptySeq DEF WriteSlots

(* Overwriting a window leaves no default key behind, because the window   *)
(* starts within the list or right after it.                               *)
LEMMA OverwrittenFacts ==
  ASSUME NEW old \in Seq(Programs), Len(old) \in 1 .. MaxPrograms,
         NEW offset \in 0 .. Len(old), NEW ps \in ProgramLists,
         ValidUpdateArgs(offset, ps)
  PROVE  /\ Overwritten(old, offset, ps) \in Seq(Programs)
         /\ Len(Overwritten(old, offset, ps)) \in Len(old) .. MaxPrograms
<1> DEFINE end  == offset + Len(ps)
           size == IF end > Len(old) THEN end ELSE Len(old)
<1>1. /\ ps \in Seq(Programs)
      /\ Len(ps) \in 0 .. MaxPrograms
      /\ end <= MaxPrograms
  BY ProgramListFacts DEF ValidUpdateArgs
<1>2. size \in Len(old) .. MaxPrograms /\ size \in Nat
  BY <1>1, RentFacts
<1>3. Overwritten(old, offset, ps) =
        [i \in 1 .. size |-> IF offset < i /\ i <= end THEN ps[i - offset]
                             ELSE IF i <= Len(old) THEN old[i]
                             ELSE DefaultKey]
  BY DEF Overwritten
<1>4. ASSUME NEW i \in 1 .. size
      PROVE  Overwritten(old, offset, ps)[i] \in Programs
  <2>1. CASE offset < i /\ i <= end
    <3>1. i - offset \in 1 .. Len(ps)
      BY <2>1, <1>1
    <3> QED
      BY <2>1, <3>1, <1>1, <1>3, ElementOfSeq
  <2>2. CASE ~(offset < i /\ i <= end)
    <3>1. i \in 1 .. Len(old)
      BY <2>2, <1>1, <1>2
    <3> QED
      BY <2>2, <3>1, <1>3, ElementOfSeq
  <2> QED
    BY <2>1, <2>2
<1>5. Overwritten(old, offset, ps) \in [1 .. size -> Programs]
  BY <1>3, <1>4
<1> QED
  BY <1>2, <1>5

-----------------------------------------------------------------------------
(* Before any configuration exists there is nothing to disagree about.     *)
LEMMA InitInvariant == Init => IInv
<1> SUFFICES ASSUME Init PROVE IInv
  OBVIOUS
<1>1. TransferOp \in Ops /\ 0 \in 0 .. MaxPrograms
  BY NamesAssumption, RentFacts
<1>2. TypeOK
  BY <1>1, ConfigRentAssumption, EmptySeq DEF Init, TypeOK, NoConfig, NoMetas
<1> QED
  BY <1>1, <1>2
     DEF Init, IInv, SlotsCounted, HookInSync, RentExempt, NoConfig, NoMetas

(***************************************************************************)
(* The instructions that leave a configuration with the list `new` have    *)
(* this in common: given what they do to the balances, the invariant       *)
(* holds afterwards.                                                       *)
(***************************************************************************)
LEMMA WrittenPreserves ==
  ASSUME IInv,
         NEW op \in Ops, NEW cpi \in BOOLEAN,
         NEW new \in Seq(Programs), Len(new) \in 1 .. MaxPrograms,
         config' = [config EXCEPT ![op] = Stored(cpi, Len(new), new)],
         metas' = HookMetas(op, new),
         lamports' \in [Accounts -> Nat],
         lamports'[op] >= ConfigRent[Len(new)],
         \A o \in Ops : o # op => lamports'[o] >= lamports[o],
         op # TransferOp => lamports'[MetasPda] >= lamports[MetasPda],
         op = TransferOp => lamports'[MetasPda] >= MetasRent[Len(new) + 1]
  PROVE  IInv'
<1>1. TransferOp \in Ops /\ op \in Accounts /\ MetasPda \in Accounts /\ Ops \subseteq Accounts
  BY NamesAssumption DEF Accounts
<1>2. /\ Stored(cpi, Len(new), new).allocated = TRUE
      /\ Stored(cpi, Len(new), new).count = Len(new)
      /\ Stored(cpi, Len(new), new).area = new
      /\ Stored(cpi, Len(new), new) \in
           [allocated : BOOLEAN, cpi : BOOLEAN, count : 0 .. MaxPrograms, area : Seq(Programs)]
  BY RentFacts DEF Stored
<1>3. /\ config'[op] = Stored(cpi, Len(new), new)
      /\ \A o \in Ops : o # op => config'[o] = config[o]
  BY DEF IInv, TypeOK
<1>4. TypeOK'
  <2>1. config' \in [Ops -> [allocated : BOOLEAN, cpi : BOOLEAN, count : 0 .. MaxPrograms,
                            area : Seq(Programs)]]
    BY <1>2 DEF IInv, TypeOK
  <2>2. metas' \in [owned : BOOLEAN, list : Seq(Programs \cup Ops)]
    BY MetaListFacts DEF HookMetas, MetasHolding, IInv, TypeOK
  <2> QED
    BY <2>1, <2>2 DEF TypeOK
<1>5. SlotsCounted'
  BY <1>2, <1>3 DEF SlotsCounted, IInv, NoConfig
<1>6. HookInSync' /\ (~metas.owned => metas = NoMetas)'
  <2>1. CASE op = TransferOp
    BY <2>1, <1>2, <1>3 DEF HookInSync, HookMetas, MetasHolding, HookReads
  <2>2. CASE op # TransferOp
    BY <2>2, <1>1, <1>3 DEF HookInSync, HookMetas, HookReads, IInv
  <2> QED
    BY <2>1, <2>2
<1>7. RentExempt'
  <2>1. ASSUME NEW o \in Ops, config'[o].allocated
        PROVE  lamports'[o] >= ConfigRent[Len(config'[o].area)]
    <3>1. CASE o = op
      BY <3>1, <1>2, <1>3
    <3>2. CASE o # op
      <4>1. /\ config[o].allocated
            /\ config'[o].area = config[o].area
            /\ Len(config[o].area) \in 0 .. MaxPrograms
            /\ lamports[o] >= ConfigRent[Len(config[o].area)]
        BY <2>1, <3>2, <1>3, RentFacts DEF IInv, SlotsCounted, RentExempt
      <4>2. lamports[o] \in Nat /\ lamports'[o] \in Nat /\ ConfigRent[Len(config[o].area)] \in Nat
        BY <1>1, <4>1, RentFacts DEF IInv, TypeOK
      <4> QED
        BY <3>2, <4>1, <4>2
    <3> QED
      BY <3>1, <3>2
  <2>2. ASSUME metas'.owned
        PROVE  lamports'[MetasPda] >= MetasRent[Len(metas'.list)]
    <3>1. CASE op = TransferOp
      BY <3>1, MetaListFacts DEF HookMetas, MetasHolding
    <3>2. CASE op # TransferOp
      <4>1. metas' = metas
        BY <3>2 DEF HookMetas
      <4>2. /\ lamports[MetasPda] \in Nat /\ lamports'[MetasPda] \in Nat
            /\ MetasRent[Len(metas.list)] \in Nat
            /\ lamports[MetasPda] >= MetasRent[Len(metas.list)]
        BY <2>2, <4>1, <1>1, MetasFacts, RentFacts DEF IInv, TypeOK
      <4> QED
        BY <3>2, <4>1, <4>2
    <3> QED
      BY <3>1, <3>2
  <2> QED
    BY <2>1, <2>2 DEF RentExempt
<1> QED
  BY <1>4, <1>5, <1>6, <1>7 DEF IInv

-----------------------------------------------------------------------------
(* initialize_verification_config: a new account at an address without     *)
(* lamports, of exactly the size of its list, with the rent of that size.  *)
LEMMA InitializePreserves ==
  ASSUME IInv, NEW op \in Ops, NEW cpi \in BOOLEAN, NEW ps \in ProgramLists,
         InitializeVerificationConfig(op, cpi, ps)
  PROVE  IInv'
<1>1. /\ Wallet \in Accounts /\ MetasPda \in Accounts /\ Ops \subseteq Accounts
      /\ Wallet # MetasPda /\ op # Wallet /\ op # MetasPda
      /\ \A o \in Ops : o # Wallet /\ o # MetasPda
  BY NamesAssumption DEF Accounts
<1>2. ps \in Seq(Programs) /\ Len(ps) \in 1 .. MaxPrograms
  BY ProgramListFacts, RentFacts
     DEF InitializeVerificationConfig, CanInitialize, ValidInitArgs, ValidPrograms
<1>3. /\ lamports \in [Accounts -> Nat]
      /\ ConfigRent[Len(ps)] \in Nat
      /\ MetasRent[Len(ps) + 1] \in Nat
      /\ Len(MetaList(op, ps)) = Len(ps) + 1
  BY <1>2, RentFacts, MetaListFacts DEF IInv, TypeOK
<1> DEFINE created == Created(op, ps)
<1>4. /\ created \in [Accounts -> Nat]
      /\ \A a \in Accounts : a # Wallet => created[a] >= lamports[a]
      /\ created[op] >= ConfigRent[Len(ps)]
  <2>1. lamports[Wallet] >= ConfigRent[Len(ps)] /\ lamports[op] \in Nat
    BY <1>1, <1>3 DEF InitializeVerificationConfig, CanInitialize
  <2>2. created = Pay(lamports, Wallet, op, ConfigRent[Len(ps)])
    BY DEF Created
  <2> HIDE DEF created
  <2>3. /\ created \in [Accounts -> Nat]
        /\ \A a \in Accounts : a # Wallet => created[a] >= lamports[a]
    BY <1>1, <1>3, <2>1, <2>2, PayEffect
  <2>4. created[op] = lamports[op] + ConfigRent[Len(ps)]
    BY <1>1, <1>3, <2>1, <2>2 DEF Pay
  <2> QED
    BY <1>3, <2>1, <2>3, <2>4
<1>5. /\ lamports' = HookInitialized(op, ps, Wallet, created)
      /\ CanInitializeHook(op, ps, Wallet, created)
  BY DEF InitializeVerificationConfig, CanInitialize
<1> HIDE DEF created
<1>6. /\ lamports' \in [Accounts -> Nat]
      /\ \A a \in Accounts : a # Wallet => lamports'[a] >= created[a]
      /\ op = TransferOp => lamports'[MetasPda] >= MetasRent[Len(ps) + 1]
  <2>1. CASE op = TransferOp
    <3>1. /\ lamports' = Pay(created, Wallet, MetasPda, MetasRent[Len(ps) + 1])
          /\ created[Wallet] >= MetasRent[Len(ps) + 1]
      BY <2>1, <1>3, <1>5 DEF HookInitialized, CanInitializeHook
    <3>2. /\ lamports' \in [Accounts -> Nat]
          /\ \A a \in Accounts : a # Wallet => lamports'[a] >= created[a]
      BY <3>1, <1>1, <1>3, <1>4, PayEffect
    <3>3. created[MetasPda] \in Nat
      BY <1>1, <1>4
    <3>4. lamports'[MetasPda] = created[MetasPda] + MetasRent[Len(ps) + 1]
      BY <3>1, <3>3, <1>1, <1>3, <1>4 DEF Pay
    <3> QED
      BY <3>2, <3>3, <3>4, <1>3
  <2>2. CASE op # TransferOp
    BY <2>2, <1>4, <1>5 DEF HookInitialized
  <2> QED
    BY <2>1, <2>2
<1>7. \A a \in Accounts : lamports[a] \in Nat /\ created[a] \in Nat /\ lamports'[a] \in Nat
  BY <1>3, <1>4, <1>6
<1>8. /\ lamports'[op] >= ConfigRent[Len(ps)]
      /\ \A o \in Ops : o # op => lamports'[o] >= lamports[o]
      /\ op # TransferOp => lamports'[MetasPda] >= lamports[MetasPda]
  BY <1>1, <1>3, <1>4, <1>6, <1>7
<1> QED
  BY <1>2, <1>6, <1>8, WrittenPreserves DEF InitializeVerificationConfig

(* update_verification_config: the account grows when the list does, is    *)
(* paid the difference in rent first, and the list fills it.               *)
LEMMA UpdatePreserves ==
  ASSUME IInv, NEW op \in Ops, NEW cpi \in BOOLEAN, NEW offset \in 0 .. MaxPrograms,
         NEW ps \in ProgramLists,
         UpdateVerificationConfig(op, cpi, offset, ps)
  PROVE  IInv'
<1> DEFINE area  == config[op].area
           new   == Overwritten(ProgramReads(config[op]), offset, ps)
           extra == RentIncrease(ConfigRent, Len(area), Len(new))
           paid  == Pay(lamports, Wallet, op, extra)
<1>1. /\ Wallet \in Accounts /\ MetasPda \in Accounts /\ Ops \subseteq Accounts
      /\ Wallet # MetasPda /\ op # Wallet /\ op # MetasPda
      /\ \A o \in Ops : o # Wallet /\ o # MetasPda
  BY NamesAssumption DEF Accounts
<1>2. /\ config[op].allocated
      /\ area \in Seq(Programs) /\ Len(area) \in 1 .. MaxPrograms
      /\ config[op].count = Len(area)
      /\ ProgramReads(config[op]) = area
  BY ReadInFull DEF UpdateVerificationConfig, Initialized, IInv
<1>3. new \in Seq(Programs) /\ Len(new) \in Len(area) .. MaxPrograms
  <2>1. offset \in 0 .. Len(area) /\ ValidUpdateArgs(offset, ps)
    BY <1>2 DEF UpdateVerificationConfig
  <2> QED
    BY <1>2, <2>1, OverwrittenFacts
<1>4. /\ CanUpdateHook(op, new, Wallet, paid)
      /\ lamports[Wallet] >= extra
      /\ config' = [config EXCEPT ![op] = Stored(cpi, Len(new), WriteSlots(area, new))]
      /\ metas' = HookMetas(op, new)
      /\ lamports' = HookUpdated(op, new, Wallet, paid)
  BY DEF UpdateVerificationConfig
<1> HIDE DEF new
<1>5. WriteSlots(area, new) = new
  BY <1>2, <1>3, WriteSlotsFacts
<1>6. /\ ConfigRent[Len(area)] \in Nat /\ ConfigRent[Len(new)] \in Nat
      /\ extra = IF Len(new) > Len(area)
                   THEN ConfigRent[Len(new)] - ConfigRent[Len(area)] ELSE 0
      /\ extra \in Nat
  <2>1. /\ ConfigRent[Len(area)] \in Nat /\ ConfigRent[Len(new)] \in Nat
        /\ ConfigRent[Len(area)] <= ConfigRent[Len(new)]
    BY <1>2, <1>3, RentFacts
  <2> QED
    BY <2>1, <1>2, <1>3 DEF RentIncrease
<1> HIDE DEF area, extra
<1>7. \A a \in Accounts : lamports[a] \in Nat
  BY DEF IInv, TypeOK
<1>8. /\ paid \in [Accounts -> Nat]
      /\ \A a \in Accounts : a # Wallet => paid[a] >= lamports[a]
      /\ paid[op] = lamports[op] + extra
  <2>1. /\ paid \in [Accounts -> Nat]
        /\ \A a \in Accounts : a # Wallet => paid[a] >= lamports[a]
    BY <1>1, <1>4, <1>6, PayEffect DEF IInv, TypeOK
  <2>2. paid[op] = lamports[op] + extra
    BY <1>1, <1>4, <1>6, <1>7 DEF Pay, IInv, TypeOK
  <2> QED
    BY <2>1, <2>2
<1>9. paid[op] >= ConfigRent[Len(new)]
  <2>1. lamports[op] >= ConfigRent[Len(area)]
    BY <1>2 DEF IInv, RentExempt, area
  <2>2. lamports[op] \in Nat
    BY <1>1, <1>7
  <2>3. Len(area) = Len(new) \/ Len(area) < Len(new)
    BY <1>2, <1>3
  <2> QED
    BY <2>1, <2>2, <2>3, <1>6, <1>8
<1> HIDE DEF paid
<1>10. /\ lamports' \in [Accounts -> Nat]
       /\ \A a \in Accounts : a # MetasPda /\ a # Wallet => lamports'[a] >= paid[a]
       /\ op = TransferOp => lamports'[MetasPda] >= MetasRent[Len(new) + 1]
       /\ op # TransferOp => lamports' = paid
  <2>1. Len(new) \in 0 .. MaxPrograms
    BY <1>2, <1>3
  <2>2. paid[MetasPda] >= lamports[MetasPda]
    BY <1>1, <1>8
  <2> QED
    BY <2>1, <2>2, <1>1, <1>3, <1>4, <1>8, HookUpdatedEffect
<1>11. \A a \in Accounts : paid[a] \in Nat /\ lamports'[a] \in Nat
  BY <1>8, <1>10
<1>12. /\ lamports'[op] >= ConfigRent[Len(new)]
       /\ \A o \in Ops : o # op => lamports'[o] >= lamports[o]
       /\ op # TransferOp => lamports'[MetasPda] >= lamports[MetasPda]
  <2>1. lamports'[op] >= ConfigRent[Len(new)]
    <3>1. lamports'[op] >= paid[op] /\ op \in Accounts
      BY <1>1, <1>10
    <3> QED
      BY <3>1, <1>6, <1>9, <1>11
  <2>2. ASSUME NEW o \in Ops, o # op
        PROVE  lamports'[o] >= lamports[o]
    <3>1. o \in Accounts /\ lamports'[o] >= paid[o] /\ paid[o] >= lamports[o]
      BY <1>1, <1>8, <1>10
    <3> QED
      BY <3>1, <1>7, <1>11
  <2>3. op # TransferOp => lamports'[MetasPda] >= lamports[MetasPda]
    BY <1>1, <1>8, <1>10
  <2> QED
    BY <2>1, <2>2, <2>3
<1>13. Len(new) \in 1 .. MaxPrograms
  BY <1>2, <1>3
<1>14. config' = [config EXCEPT ![op] = Stored(cpi, Len(new), new)]
  BY <1>4, <1>5
<1> QED
  BY <1>3, <1>4, <1>10, <1>12, <1>13, <1>14, WrittenPreserves

(* trim_verification_config without close: the rent taken out is what the  *)
(* old size needed beyond the new one, and the hook has already been told  *)
(* the shorter list when it is.                                            *)
LEMMA TrimPreserves ==
  ASSUME IInv, NEW op \in Ops, NEW size \in 0 .. MaxPrograms, NEW recipient \in Accounts,
         TrimVerificationConfig(op, size, recipient)
  PROVE  IInv'
<1> DEFINE area      == config[op].area
           new       == SubSeq(ProgramReads(config[op]), 1, size)
           recovered == ConfigRent[Len(area)] - ConfigRent[size]
           synced    == HookUpdated(op, new, recipient, lamports)
<1>1. /\ MetasPda \in Accounts /\ Ops \subseteq Accounts
      /\ \A o \in Ops : o # MetasPda
  BY NamesAssumption DEF Accounts
<1>2. /\ config[op].allocated
      /\ area \in Seq(Programs) /\ Len(area) \in 1 .. MaxPrograms
      /\ config[op].count = Len(area)
      /\ ProgramReads(config[op]) = area
  BY ReadInFull DEF TrimVerificationConfig, TrimChecks, Initialized, IInv
<1>3. size \in 0 .. Len(area) /\ size < Len(area)
  BY <1>2 DEF TrimVerificationConfig
<1>4. /\ new \in Seq(Programs) /\ Len(new) = size
      /\ Truncated(area, size) = new
  <2>1. \A i \in 1 .. size : area[i] \in Programs
    BY <1>2, <1>3, ElementOfSeq
  <2>2. /\ SubSeq(area, 1, size) \in Seq(Programs)
        /\ Len(SubSeq(area, 1, size)) = IF 1 <= size THEN size - 1 + 1 ELSE 0
    BY <1>3, <2>1, SubSeqProperties
  <2> QED
    BY <1>2, <1>3, <2>2 DEF Truncated
<1>5. /\ ValidPrograms(new)
      /\ CanUpdateHook(op, new, recipient, lamports)
      /\ synced[op] >= recovered
      /\ config' = [config EXCEPT ![op] =
                      Stored(config[op].cpi, size, WriteSlots(Truncated(area, size), new))]
      /\ metas' = HookMetas(op, new)
      /\ lamports' = Pay(synced, op, recipient, recovered)
  BY DEF TrimVerificationConfig, TrimChecks
<1>6. Len(new) \in 1 .. MaxPrograms
  BY <1>3, <1>4, <1>5 DEF ValidPrograms
<1> HIDE DEF new
<1>7. config' = [config EXCEPT ![op] = Stored(config[op].cpi, Len(new), new)]
  <2>1. WriteSlots(Truncated(area, size), new) = new
    BY <1>4, <1>6, WriteSlotsFacts
  <2> QED
    BY <2>1, <1>4, <1>5
<1>8. /\ synced \in [Accounts -> Nat]
      /\ \A o \in Ops : synced[o] >= lamports[o]
      /\ op = TransferOp => synced[MetasPda] >= MetasRent[Len(new) + 1]
      /\ op # TransferOp => synced = lamports
  <2>1. lamports \in [Accounts -> Nat] /\ lamports[MetasPda] >= lamports[MetasPda]
    BY <1>1 DEF IInv, TypeOK
  <2>2. Len(new) <= Len(area) /\ Len(new) \in 0 .. MaxPrograms
    BY <1>2, <1>3, <1>4, <1>6
  <2>3. /\ synced \in [Accounts -> Nat]
        /\ op = TransferOp => \A a \in Accounts : a # MetasPda => synced[a] >= lamports[a]
        /\ op = TransferOp => synced[MetasPda] >= MetasRent[Len(new) + 1]
        /\ op # TransferOp => synced = lamports
    BY <1>4, <1>5, <2>1, <2>2, HookUpdatedEffect
  <2>4. \A o \in Ops : synced[o] >= lamports[o]
    <3>1. CASE op = TransferOp
      BY <3>1, <1>1, <2>3
    <3>2. CASE op # TransferOp
      <4>1. \A o \in Ops : lamports[o] \in Nat
        BY <1>1, <2>1
      <4> QED
        BY <3>2, <4>1, <2>3
    <3> QED
      BY <3>1, <3>2
  <2> QED
    BY <2>3, <2>4
<1>9. /\ ConfigRent[Len(area)] \in Nat /\ ConfigRent[Len(new)] \in Nat
      /\ recovered = ConfigRent[Len(area)] - ConfigRent[Len(new)]
      /\ recovered \in Nat
  <2>1. /\ ConfigRent[Len(area)] \in Nat /\ ConfigRent[Len(new)] \in Nat
        /\ ConfigRent[Len(new)] <= ConfigRent[Len(area)]
    BY <1>2, <1>3, <1>4, RentFacts
  <2> QED
    BY <2>1, <1>4
<1>10. lamports[op] >= ConfigRent[Len(area)]
  BY <1>2 DEF IInv, RentExempt
<1> HIDE DEF area, recovered, synced
<1>11. /\ lamports' \in [Accounts -> Nat]
       /\ \A a \in Accounts : a # op => lamports'[a] >= synced[a]
       /\ lamports'[op] >= synced[op] - recovered
  BY <1>1, <1>5, <1>8, <1>9, PayEffect
<1>12. \A a \in Accounts : lamports[a] \in Nat /\ synced[a] \in Nat /\ lamports'[a] \in Nat
  BY <1>8, <1>11 DEF IInv, TypeOK
<1>13. lamports'[op] >= ConfigRent[Len(new)]
  <2>1. op \in Accounts /\ synced[op] >= lamports[op]
    BY <1>1, <1>8
  <2> QED
    BY <2>1, <1>9, <1>10, <1>11, <1>12
<1>14. ASSUME NEW o \in Ops, o # op
       PROVE  lamports'[o] >= lamports[o]
  <2>1. o \in Accounts /\ lamports'[o] >= synced[o] /\ synced[o] >= lamports[o]
    BY <1>1, <1>8, <1>11, <1>14
  <2> QED
    BY <2>1, <1>12
<1>15. lamports'[MetasPda] >= synced[MetasPda]
  BY <1>1, <1>11
<1>16. op # TransferOp => lamports'[MetasPda] >= lamports[MetasPda]
  BY <1>8, <1>15
<1>17. op = TransferOp => lamports'[MetasPda] >= MetasRent[Len(new) + 1]
  <2>1. MetasRent[Len(new) + 1] \in Nat
    BY <1>6, RentFacts
  <2> QED
    BY <2>1, <1>1, <1>8, <1>12, <1>15
<1>18. config[op].cpi \in BOOLEAN
  BY DEF IInv, TypeOK
<1> QED
  BY <1>4, <1>5, <1>6, <1>7, <1>11, <1>13, <1>14, <1>16, <1>17, <1>18, WrittenPreserves

(* trim_verification_config with close: everything the account held goes   *)
(* to the recipient, and the hook keeps a list of the configuration alone. *)
LEMMA ClosePreserves ==
  ASSUME IInv, NEW op \in Ops, NEW size \in 0 .. MaxPrograms, NEW recipient \in Accounts,
         CloseVerificationConfig(op, size, recipient)
  PROVE  IInv'
<1> DEFINE held    == lamports[op]
           synced  == HookUpdated(op, << >>, recipient, lamports)
           emptied == [synced EXCEPT ![op] = 0]
<1>1. /\ MetasPda \in Accounts /\ Ops \subseteq Accounts /\ TransferOp \in Ops
      /\ \A o \in Ops : o # MetasPda
  BY NamesAssumption DEF Accounts
<1>2. << >> \in Seq(Programs) /\ Len(<< >>) = 0 /\ Len(<< >>) \in 0 .. MaxPrograms
  BY EmptySeq, RentFacts
<1>3. /\ CanUpdateHook(op, << >>, recipient, lamports)
      /\ config' = [config EXCEPT ![op] = NoConfig]
      /\ metas' = HookMetas(op, << >>)
      /\ lamports' = [emptied EXCEPT ![recipient] = emptied[recipient] + held]
  BY DEF CloseVerificationConfig, TrimChecks
<1>4. \A a \in Accounts : lamports[a] \in Nat
  BY DEF IInv, TypeOK
<1>5. /\ synced \in [Accounts -> Nat]
      /\ \A o \in Ops : synced[o] >= lamports[o]
      /\ op = TransferOp => synced[MetasPda] >= MetasRent[1]
      /\ op # TransferOp => synced = lamports
  <2>1. /\ lamports \in [Accounts -> Nat]
        /\ lamports[MetasPda] >= lamports[MetasPda]
        /\ Len(<< >>) <= Len(config[TransferOp].area)
    <3>1. Len(config[TransferOp].area) \in Nat
      BY <1>1, LenProperties DEF IInv, TypeOK
    <3> QED
      BY <3>1, <1>1, <1>2, <1>4 DEF IInv, TypeOK
  <2>2. /\ synced \in [Accounts -> Nat]
        /\ op = TransferOp => \A a \in Accounts : a # MetasPda => synced[a] >= lamports[a]
        /\ op = TransferOp => synced[MetasPda] >= MetasRent[Len(<< >>) + 1]
        /\ op # TransferOp => synced = lamports
    BY <1>2, <1>3, <2>1, HookUpdatedEffect
  <2>3. \A o \in Ops : synced[o] >= lamports[o]
    BY <1>1, <1>4, <2>2
  <2> QED
    BY <1>2, <2>2, <2>3
<1> HIDE DEF synced
<1>6. /\ lamports' \in [Accounts -> Nat]
      /\ \A a \in Accounts : a # op => lamports'[a] >= synced[a]
  <2>1. held \in Nat
    BY <1>1, <1>4
  <2>2. emptied \in [Accounts -> Nat] /\ \A a \in Accounts : a # op => emptied[a] = synced[a]
    BY <1>5
  <2> HIDE DEF held, emptied
  <2> QED
    BY <1>3, <1>5, <2>1, <2>2
<1>7. /\ config'[op] = NoConfig
      /\ \A o \in Ops : o # op => config'[o] = config[o]
      /\ NoConfig \in [allocated : BOOLEAN, cpi : BOOLEAN, count : 0 .. MaxPrograms,
                       area : Seq(Programs)]
      /\ ~NoConfig.allocated /\ NoConfig.area = << >>
  BY <1>2, <1>3 DEF NoConfig, IInv, TypeOK
<1>8. TypeOK'
  <2>1. config' \in [Ops -> [allocated : BOOLEAN, cpi : BOOLEAN, count : 0 .. MaxPrograms,
                            area : Seq(Programs)]]
    BY <1>3, <1>7 DEF IInv, TypeOK
  <2>2. metas' \in [owned : BOOLEAN, list : Seq(Programs \cup Ops)]
    BY <1>2, <1>3, MetaListFacts DEF HookMetas, MetasHolding, IInv, TypeOK
  <2> QED
    BY <1>6, <2>1, <2>2 DEF TypeOK
<1>9. SlotsCounted'
  BY <1>7 DEF SlotsCounted, IInv
<1>10. HookInSync' /\ (~metas.owned => metas = NoMetas)'
  <2>1. CASE op = TransferOp
    BY <2>1, <1>3, <1>7 DEF HookInSync, HookMetas, MetasHolding, HookReads
  <2>2. CASE op # TransferOp
    BY <2>2, <1>1, <1>3, <1>7 DEF HookInSync, HookMetas, HookReads, IInv
  <2> QED
    BY <2>1, <2>2
<1>11. RentExempt'
  <2>1. ASSUME NEW o \in Ops, config'[o].allocated
        PROVE  lamports'[o] >= ConfigRent[Len(config'[o].area)]
    <3>1. o # op /\ config'[o] = config[o] /\ o \in Accounts
      BY <2>1, <1>1, <1>7
    <3>2. /\ lamports[o] >= ConfigRent[Len(config[o].area)]
          /\ ConfigRent[Len(config[o].area)] \in Nat
      BY <2>1, <3>1, RentFacts DEF IInv, SlotsCounted, RentExempt
    <3>3. lamports'[o] >= synced[o] /\ synced[o] >= lamports[o]
      BY <3>1, <1>5, <1>6
    <3>4. lamports[o] \in Nat /\ synced[o] \in Nat /\ lamports'[o] \in Nat
      BY <3>1, <1>4, <1>5, <1>6
    <3> QED
      BY <3>1, <3>2, <3>3, <3>4
  <2>2. ASSUME metas'.owned
        PROVE  lamports'[MetasPda] >= MetasRent[Len(metas'.list)]
    <3>1. /\ lamports'[MetasPda] >= synced[MetasPda]
          /\ lamports'[MetasPda] \in Nat /\ synced[MetasPda] \in Nat
      BY <1>1, <1>5, <1>6
    <3>2. CASE op = TransferOp
      <4>1. Len(metas'.list) = 1
        <5>1. metas'.list = MetaList(op, << >>)
          BY <3>2, <1>3 DEF HookMetas, MetasHolding
        <5>2. Len(MetaList(op, << >>)) = Len(<< >>) + 1
          BY <1>2, MetaListFacts
        <5> QED
          BY <5>1, <5>2, <1>2
      <4>2. MetasRent[1] \in Nat
        BY RentFacts
      <4> QED
        BY <3>1, <3>2, <4>1, <4>2, <1>5
    <3>3. CASE op # TransferOp
      <4>1. metas' = metas /\ synced = lamports
        BY <3>3, <1>3, <1>5 DEF HookMetas
      <4>2. /\ lamports[MetasPda] >= MetasRent[Len(metas.list)]
            /\ MetasRent[Len(metas.list)] \in Nat
        BY <2>2, <4>1, MetasFacts, RentFacts
      <4> QED
        BY <3>1, <4>1, <4>2
    <3> QED
      BY <3>2, <3>3
  <2> QED
    BY <2>1, <2>2 DEF RentExempt
<1> QED
  BY <1>8, <1>9, <1>10, <1>11 DEF IInv

-----------------------------------------------------------------------------
(* Every instruction, and every step that is none, preserves the           *)
(* invariant.                                                              *)
LEMMA StepPreserves == IInv /\ [Next]_vars => IInv'
<1> SUFFICES ASSUME IInv, [Next]_vars PROVE IInv'
  OBVIOUS
<1>1. ASSUME NEW op \in Ops, NEW cpi \in BOOLEAN, NEW ps \in ProgramLists,
             InitializeVerificationConfig(op, cpi, ps)
      PROVE  IInv'
  BY <1>1, InitializePreserves
<1>2. ASSUME NEW op \in Ops, NEW cpi \in BOOLEAN, NEW offset \in 0 .. MaxPrograms,
             NEW ps \in ProgramLists, UpdateVerificationConfig(op, cpi, offset, ps)
      PROVE  IInv'
  BY <1>2, UpdatePreserves
<1>3. ASSUME NEW op \in Ops, NEW size \in 0 .. MaxPrograms, NEW recipient \in Accounts,
             TrimVerificationConfig(op, size, recipient)
      PROVE  IInv'
  BY <1>3, TrimPreserves
<1>4. ASSUME NEW op \in Ops, NEW size \in 0 .. MaxPrograms, NEW recipient \in Accounts,
             CloseVerificationConfig(op, size, recipient)
      PROVE  IInv'
  BY <1>4, ClosePreserves
<1>5. CASE UNCHANGED vars
  BY <1>5 DEF vars, IInv, TypeOK, SlotsCounted, HookInSync, HookReads, RentExempt
<1> QED
  BY <1>1, <1>2, <1>3, <1>4, <1>5 DEF Next

(* The invariant holds in every state the configurations can be in.        *)
LEMMA Invariance == Spec => []IInv
BY InitInvariant, StepPreserves, PTL DEF Spec

(* Every account keeps a value of its kind: in particular no balance ever  *)
(* goes below zero, whoever the recipients are.                            *)
THEOREM TypeCorrect == Spec => []TypeOK
<1>1. IInv => TypeOK
  BY DEF IInv
<1> QED
  BY <1>1, Invariance, PTL

(* The program and the hook read the same non-empty list, within the       *)
(* limit, from every live configuration.                                   *)
THEOREM ReadersAlwaysAgree == Spec => []ReadersAgree
<1>1. ASSUME IInv PROVE ReadersAgree
  BY <1>1, ReadInFull DEF IInv, ReadersAgree, HookReads
<1> QED
  BY <1>1, Invariance, PTL

(* The list Token-2022 resolves on a transfer is always the one the        *)
(* transfer configuration asks for.                                        *)
THEOREM HookAlwaysInSync == Spec => []HookInSync
<1>1. IInv => HookInSync
  BY DEF IInv
<1> QED
  BY <1>1, Invariance, PTL

(* No account is ever left below the rent its size requires. *)
THEOREM AlwaysRentExempt == Spec => []RentExempt
<1>1. IInv => RentExempt
  BY DEF IInv
<1> QED
  BY <1>1, Invariance, PTL

-----------------------------------------------------------------------------
(* The accounts implement the abstract registry.                           *)

(* The list in force for an instruction that has none, or that has one. *)
LEMMA EntryFacts ==
  /\ EntryOf(NoConfig) = Registry!NoEntry
  /\ \A cpi \in BOOLEAN, ps \in Seq(Programs) :
       EntryOf(Stored(cpi, Len(ps), ps)) = Registry!Entry(cpi, ps)
<1>1. EntryOf(NoConfig) = Registry!NoEntry
  <2>1. SubSeq(<< >>, 1, 0) = << >>
    BY SubSeqEmpty
  <2> QED
    BY <2>1 DEF EntryOf, NoConfig, ProgramReads, Registry!NoEntry
<1>2. ASSUME NEW cpi \in BOOLEAN, NEW ps \in Seq(Programs)
      PROVE  EntryOf(Stored(cpi, Len(ps), ps)) = Registry!Entry(cpi, ps)
  <2>1. SubSeq(ps, 1, Len(ps)) = ps
    BY SubSeqFull
  <2> QED
    BY <2>1 DEF EntryOf, Stored, ProgramReads, Registry!Entry
<1> QED
  BY <1>1, <1>2

(* A valid list is one the registry can hold. *)
LEMMA ListFacts ==
  ASSUME NEW ps \in Seq(Programs), Len(ps) \in 1 .. MaxPrograms
  PROVE  ps \in Registry!Lists
BY LenProperties DEF Registry!Lists

(* A payment between other accounts leaves a balance alone. *)
LEMMA PayElsewhere ==
  ASSUME NEW b, b = [a \in Accounts |-> b[a]],
         NEW from \in Accounts, NEW to \in Accounts, NEW amount,
         NEW o \in Accounts, o # from, o # to
  PROVE  /\ Pay(b, from, to, amount)[o] = b[o]
         /\ Pay(b, from, to, amount) = [a \in Accounts |-> Pay(b, from, to, amount)[a]]
<1> DEFINE debited == [b EXCEPT ![from] = b[from] - amount]
<1>1. debited = [a \in Accounts |-> debited[a]] /\ debited[o] = b[o]
  OBVIOUS
<1>2. Pay(b, from, to, amount) = [debited EXCEPT ![to] = debited[to] + amount]
  BY DEF Pay
<1> HIDE DEF debited
<1> QED
  BY <1>1, <1>2

LEMMA HookUpdatedElsewhere ==
  ASSUME NEW b \in [Accounts -> Nat], NEW op, NEW ps, NEW payer \in Accounts,
         NEW o \in Ops, o # payer
  PROVE  HookUpdated(op, ps, payer, b)[o] = b[o]
<1> DEFINE growth == MetasGrowth(MetaList(op, ps))
           paid   == Pay(b, payer, MetasPda, growth)
           refund == MetasRefund(metas, MetaList(op, ps), paid[MetasPda])
<1>1. MetasPda \in Accounts /\ o \in Accounts /\ o # MetasPda
  BY NamesAssumption DEF Accounts
<1>2. paid[o] = b[o] /\ paid = [a \in Accounts |-> paid[a]]
  BY <1>1, PayElsewhere
<1>3. HookUpdated(op, ps, payer, b) =
        IF op = TransferOp THEN Pay(paid, MetasPda, payer, refund) ELSE b
  BY DEF HookUpdated
<1> HIDE DEF paid, refund
<1>4. Pay(paid, MetasPda, payer, refund)[o] = b[o]
  BY <1>1, <1>2, PayElsewhere
<1> QED
  BY <1>3, <1>4

-----------------------------------------------------------------------------
(* An instruction is retired as before when its own list, its balance and   *)
(* the hook's ownership are.                                                *)
LEMMA RetiredAsBefore ==
  ASSUME NEW o \in Ops, config'[o] = config[o], lamports'[o] = lamports[o],
         o = TransferOp => metas'.owned = metas.owned
  PROVE  o \in RetiredOps' <=> o \in RetiredOps
BY DEF RetiredOps

(* What taking a list away, or part of it, retires *)
LEMMA RetirementFacts ==
  ASSUME IInv, IInv', NEW op \in Ops, NEW recipient \in Accounts,
         config[op].allocated,
         metas'.owned = metas.owned,
         \A o \in Ops : o # op =>
           /\ config'[o] = config[o]
           /\ lamports'[o] >= lamports[o]
           /\ o # recipient => lamports'[o] = lamports[o]
  PROVE  Registry!Retirement(op)
<1> DEFINE other == IF recipient \in Ops THEN recipient ELSE op
           gone  == RetiredOps' \ RetiredOps
<1>1. \A a \in Ops : lamports[a] \in Nat /\ lamports'[a] \in Nat
  BY DEF IInv, TypeOK, Accounts
<1>2. RetiredOps \subseteq RetiredOps'
  <2> SUFFICES ASSUME NEW o \in RetiredOps PROVE o \in RetiredOps'
    OBVIOUS
  <2>1. o \in Ops /\ o # op
    BY DEF RetiredOps
  <2> QED
    BY <2>1, <1>1 DEF RetiredOps
<1>3. gone \subseteq {op, other}
  <2> SUFFICES ASSUME NEW o \in RetiredOps', o # op, o # recipient PROVE o \in RetiredOps
    BY DEF RetiredOps
  <2>1. o \in Ops
    BY DEF RetiredOps
  <2> QED
    BY <2>1, RetiredAsBefore
<1>4. \A o \in gone : ~[p \in Ops |-> EntryOf(config[p])]'[o].registered
  BY DEF RetiredOps, EntryOf
<1>5. RetiredOps' = RetiredOps \cup gone
  BY <1>2
<1>6. other \in Ops /\ gone \in SUBSET {op, other}
  BY <1>3
<1> HIDE DEF gone, other
<1> QED
  BY <1>4, <1>5, <1>6 DEF Registry!Retirement

-----------------------------------------------------------------------------
(* initialize_verification_config registers the list: the address is free   *)
(* and, for a transfer, so is the hook's list, so that nothing was retired. *)
LEMMA InitializeRegisters ==
  ASSUME IInv, IInv', NEW op \in Ops, NEW cpi \in BOOLEAN, NEW ps \in ProgramLists,
         InitializeVerificationConfig(op, cpi, ps)
  PROVE  /\ ps \in Registry!Lists
         /\ Registry!Register(op, cpi, ps)
<1>1. ps \in Seq(Programs) /\ Len(ps) \in 1 .. MaxPrograms
  BY ProgramListFacts, RentFacts
     DEF InitializeVerificationConfig, CanInitialize, ValidInitArgs, ValidPrograms
<1>2. /\ ~config[op].allocated
      /\ lamports[op] = 0
      /\ op = TransferOp => ~metas.owned
      /\ config' = [config EXCEPT ![op] = Stored(cpi, Len(ps), ps)]
      /\ op # TransferOp => metas' = metas
  BY DEF InitializeVerificationConfig, CanInitialize, CanInitializeHook, CanInitializeMetas,
         HookMetas
<1>3. /\ config'[op] = Stored(cpi, Len(ps), ps)
      /\ \A o \in Ops : o # op => config'[o] = config[o]
  BY <1>2 DEF IInv, TypeOK
<1>4. ASSUME NEW o \in Ops, o # op PROVE lamports'[o] = lamports[o]
  <2> DEFINE created == Created(op, ps)
             rent    == MetasRent[Len(MetaList(op, ps))]
  <2>1. /\ Wallet \in Accounts /\ op \in Accounts /\ MetasPda \in Accounts /\ o \in Accounts
        /\ o # Wallet /\ o # MetasPda
    BY NamesAssumption DEF Accounts
  <2>2. created[o] = lamports[o] /\ created = [a \in Accounts |-> created[a]]
    <3>1. lamports = [a \in Accounts |-> lamports[a]]
      BY DEF IInv, TypeOK
    <3>2. created = Pay(lamports, Wallet, op, ConfigRent[Len(ps)])
      BY DEF Created
    <3> HIDE DEF created
    <3> QED
      BY <2>1, <1>4, <3>1, <3>2, PayElsewhere
  <2>3. lamports' = IF op = TransferOp THEN Pay(created, Wallet, MetasPda, rent) ELSE created
    BY DEF InitializeVerificationConfig, HookInitialized
  <2> HIDE DEF created, rent
  <2>4. Pay(created, Wallet, MetasPda, rent)[o] = created[o]
    BY <2>1, <2>2, PayElsewhere
  <2> QED
    BY <2>2, <2>3, <2>4
<1>5. RetiredOps' = RetiredOps
  <2>1. op \notin RetiredOps
    BY <1>2 DEF RetiredOps
  <2>2. op \notin RetiredOps'
    BY <1>3 DEF RetiredOps, Stored
  <2>3. \A o \in Ops : o # op => (o \in RetiredOps' <=> o \in RetiredOps)
    BY <1>2, <1>3, <1>4, RetiredAsBefore
  <2> QED
    BY <2>1, <2>2, <2>3 DEF RetiredOps
<1>6. EntryOf(Stored(cpi, Len(ps), ps)) = Registry!Entry(cpi, ps)
  BY <1>1, EntryFacts
<1>7. [o \in Ops |-> EntryOf(config[o])]' =
        [[o \in Ops |-> EntryOf(config[o])] EXCEPT ![op] = Registry!Entry(cpi, ps)]
  BY <1>3, <1>6
<1>8. ~[o \in Ops |-> EntryOf(config[o])][op].registered /\ op \notin RetiredOps
  BY <1>2 DEF EntryOf, RetiredOps
<1> QED
  BY <1>1, <1>5, <1>7, <1>8, ListFacts DEF Registry!Register

(* update_verification_config revises it: the default keys that the resized *)
(* list is filled up with are all overwritten.                              *)
LEMMA UpdateRevises ==
  ASSUME IInv, IInv', NEW op \in Ops, NEW cpi \in BOOLEAN, NEW offset \in 0 .. MaxPrograms,
         NEW ps \in ProgramLists,
         UpdateVerificationConfig(op, cpi, offset, ps)
  PROVE  /\ ps \in Registry!Lists \cup {<< >>}
         /\ Registry!Revise(op, cpi, offset, ps)
<1> DEFINE area == config[op].area
           new  == Overwritten(area, offset, ps)
           reg  == [o \in Ops |-> EntryOf(config[o])]
<1>1. /\ config[op].allocated
      /\ area \in Seq(Programs) /\ Len(area) \in 1 .. MaxPrograms
      /\ config[op].count = Len(area)
      /\ ProgramReads(config[op]) = area
  BY ReadInFull DEF UpdateVerificationConfig, Initialized, IInv
<1>2. /\ ValidUpdateArgs(offset, ps)
      /\ offset \in 0 .. Len(area)
      /\ config' = [config EXCEPT ![op] = Stored(cpi, Len(new), WriteSlots(area, new))]
      /\ metas' = HookMetas(op, new)
      /\ CanUpdateHook(op, new, Wallet, Pay(lamports, Wallet, op,
                         RentIncrease(ConfigRent, Len(area), Len(new))))
      /\ lamports' = HookUpdated(op, new, Wallet, Pay(lamports, Wallet, op,
                         RentIncrease(ConfigRent, Len(area), Len(new))))
  BY <1>1 DEF UpdateVerificationConfig
<1>3. /\ ps \in Seq(Programs) /\ Len(ps) \in 0 .. MaxPrograms
      /\ offset + Len(ps) <= MaxPrograms
  BY <1>2, ProgramListFacts DEF ValidUpdateArgs
<1>4. new \in Seq(Programs) /\ Len(new) \in Len(area) .. MaxPrograms
  BY <1>1, <1>2, OverwrittenFacts
<1>5. WriteSlots(area, new) = new
  BY <1>1, <1>4, WriteSlotsFacts
<1>6. new = Registry!WindowReplaced(area, offset, ps)
  <2> DEFINE end  == offset + Len(ps)
             size == IF end > Len(area) THEN end ELSE Len(area)
  <2>1. \A i \in 1 .. size : ~(offset < i /\ i <= end) => i <= Len(area)
    BY <1>1, <1>2, <1>3
  <2>2. new = [i \in 1 .. size |-> IF offset < i /\ i <= end THEN ps[i - offset]
                                   ELSE IF i <= Len(area) THEN area[i]
                                   ELSE DefaultKey]
    BY DEF Overwritten
  <2>3. Registry!WindowReplaced(area, offset, ps) =
          [i \in 1 .. size |-> IF offset < i /\ i <= end THEN ps[i - offset] ELSE area[i]]
    BY DEF Registry!WindowReplaced
  <2> HIDE DEF new, size, end, area
  <2> QED
    BY <2>1, <2>2, <2>3
<1> HIDE DEF new
<1>7. /\ config'[op] = Stored(cpi, Len(new), new)
      /\ \A o \in Ops : o # op => config'[o] = config[o]
  BY <1>2, <1>5 DEF IInv, TypeOK
<1>8. ASSUME NEW o \in Ops, o # op PROVE lamports'[o] = lamports[o]
  <2> DEFINE extra == RentIncrease(ConfigRent, Len(area), Len(new))
             paid  == Pay(lamports, Wallet, op, extra)
  <2>1. /\ Wallet \in Accounts /\ op \in Accounts /\ o \in Accounts /\ o # Wallet
    BY NamesAssumption DEF Accounts
  <2>2. paid \in [Accounts -> Nat]
    <3>1. /\ ConfigRent[Len(area)] \in Nat /\ ConfigRent[Len(new)] \in Nat
          /\ ConfigRent[Len(area)] <= ConfigRent[Len(new)]
      BY <1>1, <1>4, RentFacts
    <3>2. extra \in Nat
      BY <3>1 DEF RentIncrease
    <3>3. lamports[Wallet] >= extra
      BY <1>1 DEF UpdateVerificationConfig, new
    <3> HIDE DEF extra
    <3> QED
      BY <2>1, <3>2, <3>3, PayEffect DEF IInv, TypeOK
  <2>3. paid[o] = lamports[o]
    <3>1. lamports = [a \in Accounts |-> lamports[a]]
      BY DEF IInv, TypeOK
    <3>2. paid = Pay(lamports, Wallet, op, extra)
      OBVIOUS
    <3> HIDE DEF paid, extra
    <3> QED
      BY <2>1, <1>8, <3>1, <3>2, PayElsewhere
  <2> HIDE DEF paid
  <2>4. lamports' = HookUpdated(op, new, Wallet, paid)
    BY <1>2 DEF paid
  <2> QED
    BY <2>1, <2>2, <2>3, <2>4, HookUpdatedElsewhere
<1>9. op = TransferOp => metas.owned
  BY <1>2 DEF CanUpdateHook, CanUpdateMetas
<1>10. RetiredOps' = RetiredOps
  <2>1. op \notin RetiredOps
    BY <1>1 DEF RetiredOps
  <2>2. op \notin RetiredOps'
    BY <1>7 DEF RetiredOps, Stored
  <2>3. op # TransferOp => metas' = metas
    BY <1>2 DEF HookMetas
  <2>4. \A o \in Ops : o # op => (o \in RetiredOps' <=> o \in RetiredOps)
    BY <2>3, <1>7, <1>8, RetiredAsBefore
  <2> QED
    BY <2>1, <2>2, <2>4 DEF RetiredOps
<1>11. EntryOf(Stored(cpi, Len(new), new)) = Registry!Entry(cpi, new)
  BY <1>4, EntryFacts
<1>12. reg[op].registered /\ reg[op].programs = area
  BY <1>1 DEF EntryOf
<1>13. reg' = [reg EXCEPT ![op] =
                 Registry!Entry(cpi, Registry!WindowReplaced(reg[op].programs, offset, ps))]
  BY <1>6, <1>7, <1>11, <1>12
<1>14. ps \in Registry!Lists \cup {<< >>}
  <2>1. CASE Len(ps) = 0
    BY <2>1, <1>3, EmptySeq
  <2>2. CASE Len(ps) # 0
    BY <2>2, <1>3, ListFacts
  <2> QED
    BY <2>1, <2>2
<1> QED
  BY <1>2, <1>3, <1>10, <1>12, <1>13, <1>14 DEF Registry!Revise, Registry!WindowFits

(* trim_verification_config without close shortens it; the instruction     *)
(* whose address receives the rent may be retired by that.                 *)
LEMMA TrimShortens ==
  ASSUME IInv, IInv', NEW op \in Ops, NEW size \in 0 .. MaxPrograms,
         NEW recipient \in Accounts,
         TrimVerificationConfig(op, size, recipient)
  PROVE  /\ size \in 1 .. MaxPrograms
         /\ Registry!Shorten(op, size)
<1> DEFINE area      == config[op].area
           new       == SubSeq(area, 1, size)
           recovered == ConfigRent[Len(area)] - ConfigRent[size]
           synced    == HookUpdated(op, new, recipient, lamports)
           reg       == [o \in Ops |-> EntryOf(config[o])]
<1>1. /\ config[op].allocated
      /\ area \in Seq(Programs) /\ Len(area) \in 1 .. MaxPrograms
      /\ config[op].count = Len(area)
      /\ ProgramReads(config[op]) = area
  BY ReadInFull DEF TrimVerificationConfig, TrimChecks, Initialized, IInv
<1>2. size < Len(area) /\ size \in 0 .. Len(area)
  BY <1>1 DEF TrimVerificationConfig
<1>3. /\ new \in Seq(Programs) /\ Len(new) = size
      /\ Truncated(area, size) = new
  <2>1. \A i \in 1 .. size : area[i] \in Programs
    BY <1>1, <1>2, ElementOfSeq
  <2>2. /\ SubSeq(area, 1, size) \in Seq(Programs)
        /\ Len(SubSeq(area, 1, size)) = IF 1 <= size THEN size - 1 + 1 ELSE 0
    BY <1>2, <2>1, SubSeqProperties
  <2> QED
    BY <1>2, <2>2 DEF Truncated
<1>4. /\ ValidPrograms(new)
      /\ CanUpdateHook(op, new, recipient, lamports)
      /\ synced[op] >= recovered
      /\ config' = [config EXCEPT ![op] =
                      Stored(config[op].cpi, size, WriteSlots(Truncated(area, size), new))]
      /\ metas' = HookMetas(op, new)
      /\ lamports' = Pay(synced, op, recipient, recovered)
  BY <1>1 DEF TrimVerificationConfig, TrimChecks
<1>5. size \in 1 .. MaxPrograms
  BY <1>1, <1>2, <1>3, <1>4 DEF ValidPrograms
<1>6. /\ config'[op] = Stored(config[op].cpi, Len(new), new)
      /\ \A o \in Ops : o # op => config'[o] = config[o]
  <2> HIDE DEF new
  <2>1. WriteSlots(Truncated(area, size), new) = new
    BY <1>3, <1>5, WriteSlotsFacts
  <2> QED
    BY <2>1, <1>3, <1>4 DEF IInv, TypeOK
<1>7. /\ op \in Accounts /\ MetasPda \in Accounts /\ Ops \subseteq Accounts
      /\ \A o \in Ops : o # MetasPda
      /\ lamports \in [Accounts -> Nat]
  BY NamesAssumption DEF Accounts, IInv, TypeOK
<1>8. /\ synced \in [Accounts -> Nat]
      /\ \A o \in Ops : synced[o] >= lamports[o]
  <2>1. /\ Len(new) <= Len(area)
        /\ Len(new) \in 0 .. MaxPrograms
        /\ lamports[MetasPda] >= lamports[MetasPda]
    BY <1>1, <1>2, <1>3, <1>7
  <2>2. /\ synced \in [Accounts -> Nat]
        /\ op = TransferOp => \A a \in Accounts : a # MetasPda => synced[a] >= lamports[a]
        /\ op # TransferOp => synced = lamports
    <3> HIDE DEF new
    <3> QED
      BY <1>3, <1>4, <1>7, <2>1, HookUpdatedEffect
  <2> QED
    BY <1>7, <2>2
<1>9. ASSUME NEW o \in Ops, o # op
      PROVE  /\ lamports'[o] >= lamports[o]
             /\ o # recipient => lamports'[o] = lamports[o]
  <2>1. recovered \in Nat
    <3>1. /\ ConfigRent[Len(area)] \in Nat /\ ConfigRent[size] \in Nat
          /\ ConfigRent[size] <= ConfigRent[Len(area)]
      BY <1>1, <1>2, RentFacts
    <3> QED
      BY <3>1
  <2>2. o # recipient => synced[o] = lamports[o]
    BY <1>7, HookUpdatedElsewhere
  <2>3. lamports' = Pay(synced, op, recipient, recovered) /\ synced[op] >= recovered
    BY <1>4
  <2>4. synced[o] \in Nat /\ lamports[o] \in Nat /\ synced[o] >= lamports[o]
    BY <1>7, <1>8
  <2> HIDE DEF synced, recovered
  <2>5. lamports' \in [Accounts -> Nat] /\ lamports'[o] >= synced[o]
    BY <1>7, <1>8, <1>9, <2>1, <2>3, PayEffect
  <2>6. o # recipient => lamports'[o] = synced[o]
    <3>1. synced = [a \in Accounts |-> synced[a]]
      BY <1>8
    <3> QED
      BY <1>7, <1>9, <2>3, <3>1, PayElsewhere
  <2>7. lamports'[o] \in Nat
    BY <1>7, <2>5
  <2> QED
    BY <2>2, <2>4, <2>5, <2>6, <2>7
<1>10. metas'.owned = metas.owned
  BY <1>4 DEF HookMetas, MetasHolding, CanUpdateHook, CanUpdateMetas, IInv, TypeOK
<1>11. Registry!Retirement(op)
  BY <1>1, <1>6, <1>9, <1>10, RetirementFacts
<1>12. reg[op] = [registered |-> TRUE, cpi |-> config[op].cpi, programs |-> area]
  BY <1>1 DEF EntryOf
<1>13. reg' = [reg EXCEPT ![op].programs = SubSeq(reg[op].programs, 1, size)]
  <2>1. EntryOf(Stored(config[op].cpi, Len(new), new)) = Registry!Entry(config[op].cpi, new)
    BY <1>3, EntryFacts DEF IInv, TypeOK
  <2>2. reg'[op] = [registered |-> TRUE, cpi |-> config[op].cpi, programs |-> new]
    BY <1>6, <2>1 DEF Registry!Entry
  <2> HIDE DEF new, area
  <2>3. [reg[op] EXCEPT !.programs = new] =
          [registered |-> TRUE, cpi |-> config[op].cpi, programs |-> new]
    <3> DEFINE record == [registered : BOOLEAN, cpi : BOOLEAN, programs : Seq(Programs)]
               entry  == reg[op]
               write  == [entry EXCEPT !.programs = new]
    <3>1. config[op].cpi \in BOOLEAN /\ area \in Seq(Programs) /\ new \in Seq(Programs)
      BY <1>1, <1>3 DEF IInv, TypeOK
    <3>2. entry = [registered |-> TRUE, cpi |-> config[op].cpi, programs |-> area]
      BY <1>12
    <3> HIDE DEF entry
    <3>3. /\ entry \in record
          /\ entry.registered = TRUE /\ entry.cpi = config[op].cpi
      BY <3>1, <3>2
    <3>4. /\ write \in record
          /\ write.registered = TRUE /\ write.cpi = config[op].cpi /\ write.programs = new
      BY <3>1, <3>3
    <3> HIDE DEF write
    <3>5. write = [registered |-> TRUE, cpi |-> config[op].cpi, programs |-> new]
      BY <3>4
    <3> QED
      BY <3>5 DEF write, entry
  <2>4. reg' = [reg EXCEPT ![op] = [reg[op] EXCEPT !.programs = new]]
    BY <1>6, <2>2, <2>3
  <2>5. SubSeq(reg[op].programs, 1, size) = new
    BY <1>12 DEF new
  <2> QED
    BY <2>4, <2>5
<1> QED
  BY <1>1, <1>2, <1>5, <1>11, <1>12, <1>13 DEF Registry!Shorten

(* trim_verification_config with close removes it. *)
LEMMA CloseUnregisters ==
  ASSUME IInv, IInv', NEW op \in Ops, NEW size \in 0 .. MaxPrograms,
         NEW recipient \in Accounts,
         CloseVerificationConfig(op, size, recipient)
  PROVE  Registry!Unregister(op)
<1> DEFINE held    == lamports[op]
           synced  == HookUpdated(op, << >>, recipient, lamports)
           emptied == [synced EXCEPT ![op] = 0]
           reg     == [o \in Ops |-> EntryOf(config[o])]
<1>1. /\ config[op].allocated
      /\ CanUpdateHook(op, << >>, recipient, lamports)
      /\ config' = [config EXCEPT ![op] = NoConfig]
      /\ metas' = HookMetas(op, << >>)
      /\ lamports' = [emptied EXCEPT ![recipient] = emptied[recipient] + held]
  BY DEF CloseVerificationConfig, TrimChecks, Initialized
<1>2. /\ op \in Accounts /\ MetasPda \in Accounts /\ Ops \subseteq Accounts /\ TransferOp \in Ops
      /\ \A o \in Ops : o # MetasPda
      /\ lamports \in [Accounts -> Nat]
  BY NamesAssumption DEF Accounts, IInv, TypeOK
<1>3. /\ synced \in [Accounts -> Nat]
      /\ \A o \in Ops : synced[o] >= lamports[o]
  <2>1. << >> \in Seq(Programs) /\ Len(<< >>) = 0 /\ Len(<< >>) \in 0 .. MaxPrograms
    BY EmptySeq, RentFacts
  <2>2. /\ Len(<< >>) <= Len(config[TransferOp].area)
        /\ lamports[MetasPda] >= lamports[MetasPda]
    BY <1>2, <2>1, LenProperties DEF IInv, TypeOK
  <2>3. /\ synced \in [Accounts -> Nat]
        /\ op = TransferOp => \A a \in Accounts : a # MetasPda => synced[a] >= lamports[a]
        /\ op # TransferOp => synced = lamports
    BY <1>1, <1>2, <2>1, <2>2, HookUpdatedEffect
  <2> QED
    BY <1>2, <2>3
<1>4. /\ config'[op] = NoConfig
      /\ \A o \in Ops : o # op => config'[o] = config[o]
  BY <1>1 DEF IInv, TypeOK
<1>5. ASSUME NEW o \in Ops, o # op
      PROVE  /\ lamports'[o] >= lamports[o]
             /\ o # recipient => lamports'[o] = lamports[o]
  <2>1. o # recipient => synced[o] = lamports[o]
    BY <1>2, HookUpdatedElsewhere
  <2>2. synced[o] \in Nat /\ lamports[o] \in Nat /\ held \in Nat /\ synced[o] >= lamports[o]
    BY <1>2, <1>3
  <2> HIDE DEF synced, held
  <2>3. emptied \in [Accounts -> Nat] /\ emptied[o] = synced[o]
    BY <1>2, <1>3, <1>5
  <2> HIDE DEF emptied
  <2>4. lamports'[o] = IF o = recipient THEN emptied[o] + held ELSE emptied[o]
    BY <1>1, <1>2, <2>3
  <2> QED
    BY <2>1, <2>2, <2>3, <2>4
<1>6. metas'.owned = metas.owned
  BY <1>1 DEF HookMetas, MetasHolding, CanUpdateHook, CanUpdateMetas, IInv, TypeOK
<1>7. Registry!Retirement(op)
  BY <1>1, <1>4, <1>5, <1>6, RetirementFacts
<1>8. reg' = [reg EXCEPT ![op] = Registry!NoEntry]
  BY <1>4, EntryFacts
<1>9. reg[op].registered
  BY <1>1 DEF EntryOf
<1> QED
  BY <1>7, <1>8, <1>9 DEF Registry!Unregister

-----------------------------------------------------------------------------
LEMMA RegistryInitially == Init => Registry!RegistryInit
<1> SUFFICES ASSUME Init PROVE Registry!RegistryInit
  OBVIOUS
<1>1. [o \in Ops |-> EntryOf(config[o])] = [o \in Ops |-> Registry!NoEntry]
  BY EntryFacts DEF Init
<1>2. RetiredOps = {}
  BY NamesAssumption DEF Init, RetiredOps, NoConfig, NoMetas, Accounts
<1> QED
  BY <1>1, <1>2 DEF Registry!RegistryInit

(* Every step of the handlers is a step of the registry, or none. *)
LEMMA RegistryStep ==
  ASSUME IInv, IInv', [Next]_vars
  PROVE  [Registry!RegistryNext]_Registry!registryVars
<1>1. ASSUME NEW op \in Ops, NEW cpi \in BOOLEAN, NEW ps \in ProgramLists,
             InitializeVerificationConfig(op, cpi, ps)
      PROVE  Registry!RegistryNext
  BY <1>1, InitializeRegisters DEF Registry!RegistryNext
<1>2. ASSUME NEW op \in Ops, NEW cpi \in BOOLEAN, NEW offset \in 0 .. MaxPrograms,
             NEW ps \in ProgramLists, UpdateVerificationConfig(op, cpi, offset, ps)
      PROVE  Registry!RegistryNext
  BY <1>2, UpdateRevises DEF Registry!RegistryNext
<1>3. ASSUME NEW op \in Ops, NEW size \in 0 .. MaxPrograms, NEW recipient \in Accounts,
             TrimVerificationConfig(op, size, recipient)
      PROVE  Registry!RegistryNext
  BY <1>3, TrimShortens DEF Registry!RegistryNext
<1>4. ASSUME NEW op \in Ops, NEW size \in 0 .. MaxPrograms, NEW recipient \in Accounts,
             CloseVerificationConfig(op, size, recipient)
      PROVE  Registry!RegistryNext
  BY <1>4, CloseUnregisters DEF Registry!RegistryNext
<1>5. CASE UNCHANGED vars
  BY <1>5 DEF vars, Registry!registryVars, EntryOf, ProgramReads, RetiredOps
<1> QED
  BY <1>1, <1>2, <1>3, <1>4, <1>5 DEF Next

(* The handlers, their rents and refunds implement the registry: one list   *)
(* per instruction, changed by the four operations only, and never again    *)
(* there once it is retired.                                                *)
THEOREM RegistryImplemented == Spec => ImplementsRegistry
<1>1. IInv /\ IInv' /\ [Next]_vars => [Registry!RegistryNext]_Registry!registryVars
  BY RegistryStep
<1> QED
  BY <1>1, RegistryInitially, Invariance, PTL
     DEF Spec, ImplementsRegistry, Registry!RegistrySpec

-----------------------------------------------------------------------------
(* What the transfer hook decides.                                         *)

(* A list and the list after it, place by place. *)
LEMMA Joined ==
  ASSUME NEW S, NEW first \in Seq(S), NEW second \in Seq(S)
  PROVE  /\ first \o second \in Seq(S)
         /\ Len(first \o second) = Len(first) + Len(second)
         /\ \A i \in 1 .. Len(first) : (first \o second)[i] = first[i]
         /\ \A i \in 1 .. Len(second) : (first \o second)[Len(first) + i] = second[i]
<1>1. Len(first) \in Nat /\ Len(second) \in Nat
  BY LenProperties
<1>2. /\ first \o second \in Seq(S)
      /\ Len(first \o second) = Len(first) + Len(second)
      /\ \A i \in 1 .. Len(first) + Len(second) :
           (first \o second)[i] = IF i <= Len(first) THEN first[i] ELSE second[i - Len(first)]
  BY ConcatProperties
<1>3. ASSUME NEW i \in 1 .. Len(second)
      PROVE  (first \o second)[Len(first) + i] = second[i]
  <2>1. /\ Len(first) + i \in 1 .. Len(first) + Len(second)
        /\ ~(Len(first) + i <= Len(first))
        /\ (Len(first) + i) - Len(first) = i
    BY <1>1
  <2> QED
    BY <1>2, <2>1
<1> QED
  BY <1>1, <1>2, <1>3

(* The accounts on the hook's list come after the four of the transfer and  *)
(* the list account: the configuration, then its programs in order.         *)
LEMMA HookAccountsFacts ==
  ASSUME IInv, config[TransferOp].allocated, NEW authority
  PROVE  /\ Len(ExtraAccounts(TRUE)) = 2 + Len(HookReads(config[TransferOp]))
         /\ ExtraAccounts(TRUE)[2] = TransferOp
         /\ Len(HookAccounts(authority, ExtraAccounts(TRUE))) = 6 + Len(HookReads(config[TransferOp]))
         /\ \A i \in 1 .. Len(HookReads(config[TransferOp])) :
              HookAccounts(authority, ExtraAccounts(TRUE))[6 + i] = HookReads(config[TransferOp])[i]
<1> DEFINE reads == HookReads(config[TransferOp])
           key   == {Source, MintAccount, Destination, authority, MetasPda, TransferOp}
                      \cup Programs
           four  == <<Source, MintAccount, Destination, authority>>
           head  == <<TransferOp>>
           extra == ExtraAccounts(TRUE)
           all   == HookAccounts(authority, ExtraAccounts(TRUE))
<1>1. reads \in Seq(Programs) /\ Len(reads) \in 1 .. MaxPrograms
  BY NamesAssumption, ReadInFull DEF IInv, HookReads
<1>2. metas.list = head \o reads
  BY DEF IInv, HookInSync, MetaList
<1>3. /\ reads \in Seq(key) /\ head \in Seq(key) /\ four \in Seq(key) /\ <<MetasPda>> \in Seq(key)
      /\ Len(head) = 1 /\ Len(four) = 4 /\ Len(<<MetasPda>>) = 1
      /\ head[1] = TransferOp
  BY <1>1
<1> HIDE DEF head, four, reads, key
<1>4. /\ metas.list \in Seq(key)
      /\ Len(metas.list) = 1 + Len(reads)
      /\ metas.list[1] = TransferOp
      /\ \A i \in 1 .. Len(reads) : metas.list[1 + i] = reads[i]
  <2>1. 1 \in 1 .. Len(head)
    BY <1>3
  <2> QED
    BY <1>2, <1>3, <2>1, Joined
<1>5. extra = <<MetasPda>> \o metas.list
  BY DEF ExtraAccounts
<1>7. all = four \o extra
  BY DEF HookAccounts, four
<1> HIDE DEF extra, all
<1>6. /\ extra \in Seq(key)
      /\ Len(extra) = 2 + Len(reads)
      /\ extra[2] = TransferOp
      /\ \A i \in 1 .. Len(reads) : extra[2 + i] = reads[i]
  <2> DEFINE one == <<MetasPda>>
  <2>1. one \in Seq(key) /\ Len(one) = 1
    BY <1>3
  <2> HIDE DEF one
  <2>2. extra = one \o metas.list
    BY <1>5 DEF one
  <2>3. /\ extra \in Seq(key)
        /\ Len(extra) = 1 + Len(metas.list)
        /\ \A i \in 1 .. Len(metas.list) : extra[1 + i] = metas.list[i]
    BY <1>4, <2>1, <2>2, Joined
  <2>4. ASSUME NEW i \in 1 .. Len(reads) PROVE extra[2 + i] = reads[i]
    <3>1. 1 + i \in 1 .. Len(metas.list) /\ 1 + (1 + i) = 2 + i
      BY <1>1, <1>4
    <3> QED
      BY <1>4, <2>3, <3>1
  <2>5. 1 \in 1 .. Len(metas.list) /\ 1 + 1 = 2
    BY <1>1, <1>4
  <2>6. extra[2] = TransferOp
    BY <1>4, <2>3, <2>5
  <2>7. Len(extra) = 2 + Len(reads)
    BY <1>1, <1>4, <2>3
  <2> QED
    BY <2>3, <2>4, <2>6, <2>7
<1>8. /\ Len(all) = 6 + Len(reads)
      /\ \A i \in 1 .. Len(reads) : all[6 + i] = reads[i]
  <2>1. /\ Len(four \o extra) = 4 + Len(extra)
        /\ \A i \in 1 .. Len(extra) : (four \o extra)[4 + i] = extra[i]
    <3>1. four \in Seq(key) /\ extra \in Seq(key) /\ Len(four) = 4
      BY <1>3, <1>6
    <3>2. /\ Len(four \o extra) = Len(four) + Len(extra)
          /\ \A i \in 1 .. Len(extra) : (four \o extra)[Len(four) + i] = extra[i]
      <4>1. ASSUME NEW f \in Seq(key), NEW e \in Seq(key)
            PROVE  /\ Len(f \o e) = Len(f) + Len(e)
                   /\ \A i \in 1 .. Len(e) : (f \o e)[Len(f) + i] = e[i]
        BY Joined
      <4> QED
        BY <3>1, <4>1
    <3> QED
      BY <3>1, <3>2
  <2>2. ASSUME NEW i \in 1 .. Len(reads) PROVE (four \o extra)[6 + i] = reads[i]
    <3>1. 2 + i \in 1 .. Len(extra) /\ 4 + (2 + i) = 6 + i
      BY <1>1, <1>6
    <3> QED
      BY <1>6, <2>1, <3>1
  <2> QED
    BY <1>1, <1>6, <1>7, <2>1, <2>2
<1> QED
  BY <1>6, <1>8 DEF extra, all, reads

(* A holder's transfer, with the list account supplied, goes through        *)
(* exactly if the configuration exists and all its programs approve.        *)
LEMMA HolderTransfers ==
  ASSUME IInv, NEW approving \in SUBSET Programs
  PROVE  TransferGoesThrough(Holder, TRUE, approving) <=>
           /\ config[TransferOp].allocated
           /\ \A i \in 1 .. config[TransferOp].count :
                ProgramReads(config[TransferOp])[i] \in approving
<1> DEFINE reads == HookReads(config[TransferOp])
<1>1. CASE ~config[TransferOp].allocated
  BY <1>1, HookNamesAssumption
     DEF TransferGoesThrough, ProcessExecute, IsPermanentDelegateTransfer, CanLoad
<1>2. CASE config[TransferOp].allocated
  <2>1. /\ Len(reads) \in 1 .. MaxPrograms
        /\ config[TransferOp].count = Len(reads)
        /\ ProgramReads(config[TransferOp]) = reads
    BY <1>2, NamesAssumption, ReadInFull DEF IInv, HookReads
  <2>2. MaxPrograms \in Nat
    BY MaxProgramsAssumption
  <2>3. Reaches(TRUE)
    BY <1>2 DEF Reaches, IInv, HookInSync
  <2> DEFINE extra == ExtraAccounts(TRUE)
             all   == HookAccounts(Holder, extra)
  <2>4. /\ Len(extra) = 2 + Len(reads)
        /\ extra[2] = TransferOp
        /\ Len(all) = 6 + Len(reads)
        /\ \A i \in 1 .. Len(reads) : all[6 + i] = reads[i]
    BY <1>2, HookAccountsFacts, Zenon
  <2>5. ~IsPermanentDelegateTransfer(Holder, extra)
    BY HookNamesAssumption DEF IsPermanentDelegateTransfer
  <2>6. TransferGoesThrough(Holder, TRUE, approving) <=>
          /\ CanLoad(extra)
          /\ Len(reads) > 0
          /\ ExecuteVerificationPrograms(reads, all, approving)
    BY <2>3, <2>5, Zenon DEF TransferGoesThrough, ProcessExecute
  <2> HIDE DEF extra, all
  <2>7. CanLoad(extra) /\ Len(reads) > 0
    BY <1>2, <2>1, <2>2, <2>4 DEF CanLoad
  <2>8. \A i \in 1 .. Len(reads) : \E j \in 1 .. Len(all) : all[j] = reads[i]
    <3>1. \A i \in 1 .. Len(reads) : 6 + i \in 1 .. Len(all)
      BY <2>1, <2>2, <2>4
    <3> QED
      BY <2>4, <3>1
  <2>9. ExecuteVerificationPrograms(reads, all, approving)
          <=> \A i \in 1 .. Len(reads) : reads[i] \in approving
    BY <2>8 DEF ExecuteVerificationPrograms, CallSucceeds
  <2> QED
    BY <1>2, <2>1, <2>6, <2>7, <2>9
<1> QED
  BY <1>1, <1>2

(* Without the list account the hook gets no extra account: it lets the     *)
(* permanent delegate pass and nobody else.                                 *)
LEMMA BareTransfers ==
  ASSUME NEW approving
  PROVE  /\ ~TransferGoesThrough(Holder, FALSE, approving)
         /\ TransferGoesThrough(DelegatePda, FALSE, approving)
<1>1. ExtraAccounts(FALSE) = << >> /\ Reaches(FALSE)
  BY DEF ExtraAccounts, Reaches
<1>2. ~CanLoad(<< >>)
  BY DEF CanLoad
<1> QED
  BY <1>1, <1>2, HookNamesAssumption
     DEF TransferGoesThrough, ProcessExecute, IsPermanentDelegateTransfer

(* Whatever becomes of the configurations, the hook lets a holder's         *)
(* transfer through exactly if all the stored programs approve it.          *)
THEOREM HookAlwaysExact == Spec => []HookAcceptsExactlyApproved
<1>1. ASSUME IInv PROVE HookAcceptsExactlyApproved
  BY <1>1, HolderTransfers, BareTransfers DEF HookAcceptsExactlyApproved
<1> QED
  BY <1>1, Invariance, PTL

(* While the split guard is configured, no transfer a holder sends to        *)
(* Token-2022 goes through, whether or not the guard's account exists and    *)
(* wherever it is registered: verify_transfer takes seven accounts, and the  *)
(* hook gives it the guard program as the seventh, or more of them.  The     *)
(* header of split-guard says otherwise (GuardAbsentAllows); SplitGuard has  *)
(* no such transfers because of this theorem.                                *)
NoGuardedTransfer ==
  Guarded =>
    \A halted \in BOOLEAN : \A extra \in ExtraAccountsForGuard :
      \A approving \in SUBSET AllButRefusingGuard(HookAccounts(Holder, extra), halted) :
        ~ProcessExecute(Holder, extra, approving)

LEMMA Lengthened ==
  ASSUME NEW S, NEW seq \in Seq(S), NEW e \in S, NEW n \in 1 .. Len(seq)
  PROVE  /\ SubSeq(seq, 1, n) \o <<e>> \o SubSeq(seq, n + 1, Len(seq)) \in Seq(S)
         /\ Len(SubSeq(seq, 1, n) \o <<e>> \o SubSeq(seq, n + 1, Len(seq))) = Len(seq) + 1
<1>1. ASSUME NEW low \in Seq(S), NEW high \in Seq(S), NEW one \in Seq(S), Len(one) = 1
      PROVE  /\ low \o one \o high \in Seq(S)
             /\ Len(low \o one \o high) = Len(low) + 1 + Len(high)
  <2>1. ASSUME NEW both \in Seq(S)
        PROVE  both \o high \in Seq(S) /\ Len(both \o high) = Len(both) + Len(high)
    BY Joined
  <2>2. low \o one \in Seq(S) /\ Len(low \o one) = Len(low) + 1
    BY <1>1, Joined
  <2> QED
    BY <2>1, <2>2
<1> DEFINE low  == SubSeq(seq, 1, n)
           one  == <<e>>
           high == SubSeq(seq, n + 1, Len(seq))
<1>2. low \in Seq(S) /\ Len(low) = n /\ high \in Seq(S) /\ Len(high) = Len(seq) - n
  <2>1. Len(seq) \in Nat
    OBVIOUS
  <2> QED
    BY <2>1, SubSeqProperties
<1>3. one \in Seq(S) /\ Len(one) = 1 /\ Len(seq) \in Nat
      /\ n + 1 + (Len(seq) - n) = Len(seq) + 1
  OBVIOUS
<1> HIDE DEF low, one, high
<1>4. low \o one \o high \in Seq(S) /\ Len(low \o one \o high) = n + 1 + (Len(seq) - n)
  <2>1. /\ low \o one \o high \in Seq(S)
        /\ Len(low \o one \o high) = Len(low) + 1 + Len(high)
    BY <1>1, <1>2, <1>3, Zenon
  <2> QED
    BY <1>2, <2>1, Zenon
<1>5. low \o one \o high \in Seq(S) /\ Len(low \o one \o high) = Len(seq) + 1
  BY <1>3, <1>4
<1> QED
  BY <1>5, Zenon DEF low, one, high

(* What the guard is given has another length, or another account last.      *)
LEMMA GuardRefuses ==
  ASSUME IInv, config[TransferOp].allocated, NEW extra \in ExtraAccountsForGuard
  PROVE  Len(HookAccounts(Holder, extra)) # 7 \/ HookAccounts(Holder, extra)[7] # GuardPda
<1> DEFINE reads == HookReads(config[TransferOp])
           plain == ExtraAccounts(TRUE)
           all   == HookAccounts(Holder, plain)
<1>1. reads \in Seq(Programs) /\ Len(reads) \in 1 .. MaxPrograms
  BY NamesAssumption, ReadInFull DEF IInv, HookReads
<1>2. /\ Len(plain) = 2 + Len(reads)
      /\ \A i \in 1 .. Len(reads) : all[6 + i] = reads[i]
  BY HookAccountsFacts, Zenon
<1>3. extra = plain \/ \E n \in 1 .. Len(plain) : extra = WithGuardPda(plain, n)
  BY DEF ExtraAccountsForGuard
<1>4. plain = <<MetasPda>> \o metas.list
  BY DEF ExtraAccounts
<1> HIDE DEF reads, plain, all
<1>5. CASE extra = plain
  <2>1. 1 \in 1 .. Len(reads) /\ 6 + 1 = 7
    BY <1>1, MaxProgramsAssumption
  <2>2. all[7] = reads[1] /\ reads[1] \in Programs
    BY <1>1, <1>2, <2>1
  <2> QED
    BY <1>5, <2>2, HookNamesAssumption DEF all
<1>6. ASSUME NEW n \in 1 .. Len(plain), extra = WithGuardPda(plain, n)
      PROVE  Len(HookAccounts(Holder, extra)) # 7
  <2> DEFINE key  == {Source, MintAccount, Destination, Holder, MetasPda, GuardPda}
                       \cup Programs \cup Ops
             four == <<Source, MintAccount, Destination, Holder>>
  <2>1. plain \in Seq(key)
    <3>1. metas.list \in Seq(key) /\ <<MetasPda>> \in Seq(key)
      BY DEF IInv, TypeOK
    <3> QED
      BY <3>1, <1>4
  <2>2. four \in Seq(key) /\ Len(four) = 4 /\ GuardPda \in key
    OBVIOUS
  <2> HIDE DEF key, four
  <2>3. extra \in Seq(key) /\ Len(extra) = Len(plain) + 1
    <3>1. WithGuardPda(plain, n) \in Seq(key) /\ Len(WithGuardPda(plain, n)) = Len(plain) + 1
      <4> DEFINE longer(s, e, m) == SubSeq(s, 1, m) \o <<e>> \o SubSeq(s, m + 1, Len(s))
      <4>1. ASSUME NEW s \in Seq(key), NEW e \in key, NEW m \in 1 .. Len(s)
            PROVE  longer(s, e, m) \in Seq(key) /\ Len(longer(s, e, m)) = Len(s) + 1
        BY Lengthened
      <4>2. WithGuardPda(plain, n) = longer(plain, GuardPda, n)
        BY DEF WithGuardPda
      <4> HIDE DEF longer
      <4>3. /\ longer(plain, GuardPda, n) \in Seq(key)
            /\ Len(longer(plain, GuardPda, n)) = Len(plain) + 1
        BY <1>6, <2>1, <2>2, <4>1
      <4> QED
        BY <4>2, <4>3
    <3> QED
      BY <1>6, <3>1, Zenon
  <2>4. Len(four \o extra) = 4 + Len(extra)
    <3>1. ASSUME NEW f \in Seq(key), NEW t \in Seq(key)
          PROVE  Len(f \o t) = Len(f) + Len(t)
      BY Joined
    <3> QED
      BY <2>2, <2>3, <3>1
  <2>5. HookAccounts(Holder, extra) = four \o extra
    BY DEF HookAccounts, four
  <2> QED
    BY <1>1, <1>2, <2>3, <2>4, <2>5, MaxProgramsAssumption
<1> QED
  BY <1>3, <1>5, <1>6

THEOREM GuardedTransfersNeverResume == Spec => []NoGuardedTransfer
<1> DEFINE reads == HookReads(config[TransferOp])
<1>1. ASSUME IInv PROVE NoGuardedTransfer
  <2> SUFFICES ASSUME Guarded, NEW halted \in BOOLEAN, NEW extra \in ExtraAccountsForGuard,
                      NEW approving \in
                        SUBSET AllButRefusingGuard(HookAccounts(Holder, extra), halted),
                      ProcessExecute(Holder, extra, approving)
               PROVE  FALSE
    BY DEF NoGuardedTransfer
  <2> DEFINE all == HookAccounts(Holder, extra)
  <2>1. CanLoad(extra) /\ ExecuteVerificationPrograms(reads, all, approving)
    BY HookNamesAssumption DEF ProcessExecute, IsPermanentDelegateTransfer
  <2>2. PICK i \in 1 .. Len(reads) : reads[i] = Guard
    BY DEF Guarded
  <2> HIDE DEF all
  <2>3. Guard \in approving
    BY <2>1, <2>2 DEF ExecuteVerificationPrograms, CallSucceeds
  <2>4. GuardVerifies(all, halted)
    BY <2>3 DEF AllButRefusingGuard, all
  <2>5. Len(all) = 7 /\ all[7] = GuardPda
    BY <2>4 DEF GuardVerifies
  <2>6. config[TransferOp].allocated
    BY <2>1 DEF CanLoad
  <2> QED
    BY <1>1, <2>5, <2>6, GuardRefuses DEF all
<1> QED
  BY <1>1, Invariance, PTL
=============================================================================
