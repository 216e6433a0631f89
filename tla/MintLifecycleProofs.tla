------------------------- MODULE MintLifecycleProofs -------------------------
(***************************************************************************)
(* Proofs about MintLifecycle, for any number of wallets, fields and       *)
(* requests.  AuthoritiesHeld is inductive once the fields of the accounts *)
(* are known, so that a change of one of them leaves the others alone.     *)
(* The types come next, with the rent of what is there, which every step   *)
(* keeps paid.  What a list of fields becomes is then a matter of data:    *)
(* the two loops of update_metadata, and the sizes of what they leave.     *)
(***************************************************************************)
EXTENDS MintLifecycle, DataProofs, SequenceTheorems

(* The fields that a mint and its metadata have *)
MintShape ==
  \/ mint = NoMint
  \/ \E ma, fa, de, ho, pa, po, sc, st :
       mint = [exists |-> TRUE, mintAuthority |-> ma, freezeAuthority |-> fa, delegate |-> de,
               hookAuthority |-> ho, pauseAuthority |-> pa, pointer |-> po, scaled |-> sc,
               state |-> st]
MetadataShape ==
  \/ metadata = NoMetadata
  \/ \E ua, na, fi :
       metadata = [exists |-> TRUE, updateAuthority |-> ua, names |-> na, fields |-> fi]

MintInv ==
  /\ MintShape
  /\ MetadataShape
  /\ authorities \in [Creators -> {Vacant, Prefunded, Created}]
  /\ AuthoritiesHeld

-----------------------------------------------------------------------------
(* The three conditions an address can be in are different. *)
LEMMA Conditions == Vacant # Created /\ Prefunded # Created /\ Vacant # Prefunded
BY DEF Vacant, Created, Prefunded

LEMMA MintInitInvariant == MintInit => MintInv
BY Conditions DEF MintInit, MintInv, MintShape, MetadataShape, AuthoritiesHeld, NoMint, NoMetadata

(* No account of another creator exists before the mint, and the mint       *)
(* cannot be created twice.                                                 *)
LEMMA InitializeMintPreserves ==
  ASSUME MintInv, NEW c \in Creators, NEW args \in InitArgs, InitializeMint(c, args)
  PROVE  MintInv'
<1>1. /\ ~mint.exists
      /\ args.freezeAuthority = FreezeAuthorityPda
      /\ mint' = InitializedMint(c, args)
      /\ metadata' = InitializedMetadata(c, args)
      /\ authorities' = [authorities EXCEPT ![c] = Created]
  BY DEF InitializeMint, CanInitializeMint, FreezeAuthorityMatches
<1>2. /\ authorities' \in [Creators -> {Vacant, Prefunded, Created}]
      /\ authorities'[c] = Created
      /\ \A d \in Creators : authorities'[d] = Created => d = c
  BY <1>1, Conditions DEF MintInv, AuthoritiesHeld
<1>3. /\ MintShape'
      /\ mint'.exists
      /\ mint'.mintAuthority = MintAuthorityPda(c)
      /\ mint'.freezeAuthority = FreezeAuthorityPda
      /\ mint'.delegate = DelegatePda
      /\ mint'.hookAuthority = HookPda
      /\ mint'.pauseAuthority = PausePda
  BY <1>1 DEF MintShape, InitializedMint
<1>4. MetadataShape' /\ (metadata'.exists => metadata'.updateAuthority = MintAuthorityPda(c))
  BY <1>1 DEF MetadataShape, InitializedMetadata, NoMetadata
<1> QED
  BY <1>2, <1>3, <1>4 DEF MintInv, AuthoritiesHeld

(* An update of the metadata leaves their authority alone. *)
LEMMA UpdateMetadataPreserves ==
  ASSUME MintInv, NEW c \in Creators, NEW names \in NameLens, NEW request \in Requests,
         UpdateMetadata(c, names, request)
  PROVE  MintInv'
<1>1. /\ mint' = mint
      /\ authorities' = authorities
      /\ metadata.exists
      /\ metadata' = MetadataUpdated(names, request)
  BY DEF UpdateMetadata, CanUpdateMetadata
<1>2. PICK ua, na, fi :
        metadata = [exists |-> TRUE, updateAuthority |-> ua, names |-> na, fields |-> fi]
  BY <1>1 DEF MintInv, MetadataShape, NoMetadata
<1>3. metadata' = [exists |-> TRUE, updateAuthority |-> ua, names |-> names,
                   fields |-> FieldsUpdated(ObsoleteRemoved(fi, request), request)]
  BY <1>1, <1>2 DEF MetadataUpdated
<1>4. MetadataShape' /\ metadata'.updateAuthority = metadata.updateAuthority
  BY <1>2, <1>3 DEF MetadataShape
<1> QED
  BY <1>1, <1>4 DEF MintInv, MintShape, AuthoritiesHeld

(* Neither do changes of the default state and of the pointer touch any     *)
(* authority.                                                               *)
LEMMA MintFieldPreserves ==
  ASSUME MintInv, mint.exists, UNCHANGED <<metadata, lamports, authorities>>,
         NEW v, mint' = [mint EXCEPT !.pointer = v] \/ mint' = [mint EXCEPT !.state = v]
  PROVE  MintInv'
<1>1. PICK ma, fa, de, ho, pa, po0, sc, st0 :
        mint = [exists |-> TRUE, mintAuthority |-> ma, freezeAuthority |-> fa, delegate |-> de,
                hookAuthority |-> ho, pauseAuthority |-> pa, pointer |-> po0, scaled |-> sc,
                state |-> st0]
  BY DEF MintInv, MintShape, NoMint
<1>2. PICK po, st :
        mint' = [exists |-> TRUE, mintAuthority |-> ma, freezeAuthority |-> fa, delegate |-> de,
                 hookAuthority |-> ho, pauseAuthority |-> pa, pointer |-> po, scaled |-> sc,
                 state |-> st]
  BY <1>1
<1>3. /\ MintShape'
      /\ mint'.exists = mint.exists
      /\ mint'.mintAuthority = mint.mintAuthority
      /\ mint'.freezeAuthority = mint.freezeAuthority
      /\ mint'.delegate = mint.delegate
      /\ mint'.hookAuthority = mint.hookAuthority
      /\ mint'.pauseAuthority = mint.pauseAuthority
  BY <1>1, <1>2 DEF MintShape
<1> QED
  BY <1>3 DEF MintInv, MetadataShape, AuthoritiesHeld

LEMMA UpdateStatePreserves ==
  ASSUME MintInv, NEW s, UpdateDefaultAccountState(s)
  PROVE  MintInv'
BY MintFieldPreserves DEF UpdateDefaultAccountState

LEMMA RepointPreserves ==
  ASSUME MintInv, NEW a, RepointMetadata(a)
  PROVE  MintInv'
<1>1. mint' = [mint EXCEPT !.pointer = [@ EXCEPT !.address = a]]
  BY DEF RepointMetadata
<1> QED
  BY <1>1, MintFieldPreserves DEF RepointMetadata

(* Lamports sent to an address create no account there. *)
LEMMA PrefundPreserves ==
  ASSUME MintInv, Prefund
  PROVE  MintInv'
<1>1. CASE UNCHANGED <<mint, metadata, authorities>>
  BY <1>1 DEF MintInv, MintShape, MetadataShape, AuthoritiesHeld
<1>2. ASSUME NEW c \in Creators, authorities[c] = Vacant,
             authorities' = [authorities EXCEPT ![c] = Prefunded],
             UNCHANGED <<mint, metadata, lamports>>
      PROVE  MintInv'
  <2>1. /\ authorities' \in [Creators -> {Vacant, Prefunded, Created}]
        /\ \A d \in Creators : authorities'[d] = Created <=> authorities[d] = Created
    BY <1>2, Conditions DEF MintInv
  <2> QED
    BY <1>2, <2>1 DEF MintInv, MintShape, MetadataShape, AuthoritiesHeld
<1> QED
  BY <1>1, <1>2 DEF Prefund

LEMMA MintStepPreserves == MintInv /\ [MintNext]_mintVars => MintInv'
<1> SUFFICES ASSUME MintInv, [MintNext]_mintVars PROVE MintInv'
  OBVIOUS
<1>1. CASE UNCHANGED mintVars
  BY <1>1 DEF mintVars, MintInv, MintShape, MetadataShape, AuthoritiesHeld
<1> QED
  BY <1>1, InitializeMintPreserves, UpdateMetadataPreserves, UpdateStatePreserves,
     RepointPreserves, PrefundPreserves
     DEF MintNext

(* A mint and the one MintAuthority account that signs for it exist         *)
(* together, and every authority is the one the handlers sign as.           *)
THEOREM AuthoritiesAlwaysHeld == MintSpec => []AuthoritiesHeld
<1>1. MintInv => AuthoritiesHeld
  BY DEF MintInv
<1> QED
  BY <1>1, MintInitInvariant, MintStepPreserves, PTL DEF MintSpec

-----------------------------------------------------------------------------
(* Lists of fields                                                          *)
DistinctKeys(fields) ==
  \A i, j \in 1 .. Len(fields) : fields[i].key = fields[j].key => i = j
HasKey(fields, k) == \E i \in 1 .. Len(fields) : fields[i].key = k

LEMMA FieldAt ==
  ASSUME NEW fields \in Seq(Fields)
  PROVE  /\ Len(fields) \in Nat
         /\ DOMAIN fields = 1 .. Len(fields)
         /\ \A i \in 1 .. Len(fields) : fields[i] \in Fields
         /\ \A k : k \in KeysIn(fields) <=> HasKey(fields, k)
<1>1. Len(fields) \in Nat /\ DOMAIN fields = 1 .. Len(fields)
  BY LenProperties
<1>2. \A i \in 1 .. Len(fields) : fields[i] \in Fields
  BY ElementOfSeq
<1> QED
  BY <1>1, <1>2 DEF KeysIn, HasKey

LEMMA FieldParts ==
  ASSUME NEW field \in Fields
  PROVE  field.key \in Keys /\ KeyLen[field.key] \in Nat /\ field.len \in Nat
         /\ FieldLen(field) \in Nat
<1>1. field.key \in Keys /\ field.len \in ValueLens
  BY DEF Fields
<1>2. KeyLen[field.key] \in Nat /\ field.len \in Nat
  BY <1>1, MintAssumption
<1> QED
  BY <1>1, <1>2 DEF FieldLen

-----------------------------------------------------------------------------
(* Without: the fields that stay, in their order                            *)
Rank(fields, gone, n) == Cardinality({k \in 1 .. n : fields[k].key \notin gone})

LEMMA RankSteps ==
  ASSUME NEW fields, NEW gone, NEW n \in Nat
  PROVE  /\ Rank(fields, gone, 0) = 0
         /\ Rank(fields, gone, n) \in Nat
         /\ Rank(fields, gone, n + 1) = IF fields[n + 1].key \in gone THEN Rank(fields, gone, n)
                                        ELSE Rank(fields, gone, n) + 1
<1> DEFINE R(m) == {k \in 1 .. m : fields[k].key \notin gone}
<1>1. R(0) = {} /\ Rank(fields, gone, 0) = 0
  <2>1. R(0) = {}
    OBVIOUS
  <2> QED
    BY <2>1, FS_EmptySet DEF Rank
<1>2. IsFiniteSet(R(n)) /\ Cardinality(R(n)) \in Nat
  <2>1. IsFiniteSet(1 .. n) /\ R(n) \subseteq 1 .. n
    BY FS_Interval
  <2> QED
    BY <2>1, FS_Subset, FS_CardinalityType
<1>3. CASE fields[n + 1].key \in gone
  <2>1. R(n + 1) = R(n)
    BY <1>3
  <2> QED
    BY <1>1, <1>2, <1>3, <2>1 DEF Rank
<1>4. CASE fields[n + 1].key \notin gone
  <2>1. R(n + 1) = R(n) \cup {n + 1} /\ n + 1 \notin R(n)
    BY <1>4
  <2>2. Cardinality(R(n) \cup {n + 1}) = Cardinality(R(n)) + 1
    <3> HIDE DEF R
    <3> QED
      BY <1>2, <2>1, FS_AddElement
  <2> QED
    BY <1>1, <1>2, <1>4, <2>1, <2>2 DEF Rank
<1> QED
  BY <1>3, <1>4

KeptOf(fields, gone, n, kept) ==
  /\ kept \in Seq(Fields)
  /\ Len(kept) = Rank(fields, gone, n)
  /\ \A j \in 1 .. n : fields[j].key \notin gone =>
       Rank(fields, gone, j) \in 1 .. Len(kept) /\ kept[Rank(fields, gone, j)] = fields[j]
  /\ \A p \in 1 .. Len(kept) : \E j \in 1 .. n :
       fields[j].key \notin gone /\ Rank(fields, gone, j) = p

LEMMA KeptNone ==
  ASSUME NEW fields, NEW gone
  PROVE  KeptOf(fields, gone, 0, << >>)
<1>1. << >> \in Seq(Fields) /\ Len(<< >>) = 0
  OBVIOUS
<1>2. Rank(fields, gone, 0) = 0
  BY RankSteps
<1> QED
  BY <1>1, <1>2 DEF KeptOf

LEMMA KeptStep ==
  ASSUME NEW fields \in Seq(Fields), NEW gone, NEW n \in Nat, n + 1 \in 1 .. Len(fields),
         NEW kept, KeptOf(fields, gone, n, kept)
  PROVE  KeptOf(fields, gone, n + 1,
                IF fields[n + 1].key \in gone THEN kept ELSE Append(kept, fields[n + 1]))
<1> DEFINE rank(m) == Rank(fields, gone, m)
<1>1. rank(n) \in Nat /\ rank(n + 1) = IF fields[n + 1].key \in gone THEN rank(n) ELSE rank(n) + 1
  BY RankSteps
<1>2. /\ kept \in Seq(Fields) /\ Len(kept) = rank(n)
      /\ \A j \in 1 .. n : fields[j].key \notin gone =>
           rank(j) \in 1 .. Len(kept) /\ kept[rank(j)] = fields[j]
      /\ \A p \in 1 .. Len(kept) : \E j \in 1 .. n : fields[j].key \notin gone /\ rank(j) = p
  BY DEF KeptOf
<1>3. CASE fields[n + 1].key \in gone
  <2>1. KeptOf(fields, gone, n + 1, kept)
    <3> HIDE DEF rank
    <3>1. \A j \in 1 .. n + 1 : fields[j].key \notin gone => j \in 1 .. n
      BY <1>3
    <3>2. \A j \in 1 .. n : j \in 1 .. n + 1
      OBVIOUS
    <3> QED
      BY <1>1, <1>2, <1>3, <3>1, <3>2 DEF KeptOf, rank
  <2> QED
    BY <1>3, <2>1
<1>4. CASE fields[n + 1].key \notin gone
  <2> DEFINE new == Append(kept, fields[n + 1])
  <2>1. fields[n + 1] \in Fields
    BY FieldAt
  <2>2. /\ new \in Seq(Fields) /\ Len(new) = Len(kept) + 1
        /\ \A i \in 1 .. Len(kept) : new[i] = kept[i]
        /\ new[Len(kept) + 1] = fields[n + 1]
    BY <1>2, <2>1, AppendProperties
  <2> HIDE DEF new, rank
  <2>3. ASSUME NEW j \in 1 .. n + 1, fields[j].key \notin gone
        PROVE  rank(j) \in 1 .. Len(new) /\ new[rank(j)] = fields[j]
    <3>1. CASE j = n + 1
      BY <1>1, <1>2, <1>4, <2>2, <3>1
    <3>2. CASE j # n + 1
      <4>1. j \in 1 .. n /\ rank(j) \in 1 .. Len(kept) /\ kept[rank(j)] = fields[j]
        BY <1>2, <2>3, <3>2
      <4> QED
        BY <1>1, <1>2, <2>2, <4>1
    <3> QED
      BY <3>1, <3>2
  <2>4. ASSUME NEW p \in 1 .. Len(new)
        PROVE  \E j \in 1 .. n + 1 : fields[j].key \notin gone /\ rank(j) = p
    <3>1. CASE p = Len(kept) + 1
      BY <1>1, <1>2, <1>4, <3>1
    <3>2. CASE p # Len(kept) + 1
      <4>1. p \in 1 .. Len(kept)
        BY <1>1, <1>2, <2>2, <3>2
      <4>2. PICK j \in 1 .. n : fields[j].key \notin gone /\ rank(j) = p
        BY <1>2, <4>1
      <4> QED
        BY <4>2
    <3> QED
      BY <3>1, <3>2
  <2>5. KeptOf(fields, gone, n + 1, new)
    BY <1>1, <1>2, <1>4, <2>2, <2>3, <2>4 DEF KeptOf, rank
  <2> QED
    BY <1>4, <2>5 DEF new
<1> QED
  BY <1>3, <1>4

KeptEquation(kept, fields, gone) ==
  kept = [i \in 0 .. Len(fields) |->
            IF i = 0 THEN << >>
            ELSE IF fields[i].key \in gone THEN kept[i - 1]
            ELSE Append(kept[i - 1], fields[i])]

LEMMA KeptSolvable ==
  ASSUME NEW fields \in Seq(Fields), NEW gone
  PROVE  \E kept : KeptEquation(kept, fields, gone)
<1> DEFINE N == Len(fields)
           One(i, kept) == IF fields[i].key \in gone THEN kept ELSE Append(kept, fields[i])
           step == [p \in (1 .. N) \X Seq(Fields) |-> One(p[1], p[2])]
<1>1. N \in Nat /\ \A i \in 1 .. N : fields[i] \in Fields
  BY FieldAt
<1>2. ASSUME NEW i \in 1 .. N, NEW kept \in Seq(Fields)
      PROVE  One(i, kept) \in Seq(Fields)
  BY <1>1, <1>2, AppendProperties
<1>3. step \in [(1 .. N) \X Seq(Fields) -> Seq(Fields)]
  <2> HIDE DEF One, N
  <2> QED
    BY <1>2
<1>4. \A i \in 1 .. N, kept \in Seq(Fields) : step[<<i, kept>>] = One(i, kept)
  <2> HIDE DEF One, N
  <2> QED
    OBVIOUS
<1>5. << >> \in Seq(Fields)
  OBVIOUS
<1> HIDE DEF step
<1>6. PICK g : Iterates(g, Seq(Fields), << >>, N, step)
  <2> HIDE DEF N
  <2> QED
    BY <1>1, <1>3, <1>5, IterationExists
<1>7. ASSUME NEW n \in 1 .. N
      PROVE  g[n] = One(n, g[n - 1])
  <2>1. n - 1 \in 0 .. N
    BY <1>1
  <2> HIDE DEF One, N
  <2> QED
    BY <1>4, <1>6, <2>1 DEF Iterates
<1>8. g = [i \in 0 .. N |-> IF i = 0 THEN << >> ELSE One(i, g[i - 1])]
  <2>1. \A i \in 0 .. N : i # 0 => i \in 1 .. N
    BY <1>1
  <2> HIDE DEF One, N
  <2> QED
    BY <1>6, <1>7, <2>1 DEF Iterates
<1> QED
  BY <1>8 DEF KeptEquation

LEMMA WithoutSteps ==
  ASSUME NEW fields \in Seq(Fields), NEW gone
  PROVE  \E kept : /\ Without(fields, gone) = kept[Len(fields)]
                   /\ kept[0] = << >>
                   /\ \A i \in 1 .. Len(fields) :
                        kept[i] = IF fields[i].key \in gone THEN kept[i - 1]
                                  ELSE Append(kept[i - 1], fields[i])
<1> DEFINE kept == CHOOSE kept : KeptEquation(kept, fields, gone)
<1>1. KeptEquation(kept, fields, gone)
  BY KeptSolvable
<1>2. Without(fields, gone) = kept[Len(fields)]
  BY DEF Without, KeptEquation
<1> HIDE DEF kept
<1>3. Len(fields) \in Nat
  BY FieldAt
<1> DEFINE body == [i \in 0 .. Len(fields) |->
                      IF i = 0 THEN << >>
                      ELSE IF fields[i].key \in gone THEN kept[i - 1]
                      ELSE Append(kept[i - 1], fields[i])]
<1>4. /\ body[0] = << >>
      /\ \A i \in 1 .. Len(fields) :
           body[i] = IF fields[i].key \in gone THEN kept[i - 1]
                     ELSE Append(kept[i - 1], fields[i])
  BY <1>3
<1>5. kept = body
  BY <1>1 DEF KeptEquation
<1> HIDE DEF body
<1> QED
  BY <1>2, <1>4, <1>5

LEMMA WithoutKeeps ==
  ASSUME NEW fields \in Seq(Fields), NEW gone
  PROVE  KeptOf(fields, gone, Len(fields), Without(fields, gone))
<1>1. PICK kept : /\ Without(fields, gone) = kept[Len(fields)]
                  /\ kept[0] = << >>
                  /\ \A i \in 1 .. Len(fields) :
                       kept[i] = IF fields[i].key \in gone THEN kept[i - 1]
                                 ELSE Append(kept[i - 1], fields[i])
  BY WithoutSteps
<1> DEFINE Upto == {n \in Nat : n <= Len(fields) => KeptOf(fields, gone, n, kept[n])}
<1>2. 0 \in Upto
  BY <1>1, KeptNone
<1>3. ASSUME NEW n \in Nat, n \in Upto
      PROVE  n + 1 \in Upto
  <2> SUFFICES ASSUME n + 1 <= Len(fields) PROVE KeptOf(fields, gone, n + 1, kept[n + 1])
    OBVIOUS
  <2>1. n <= Len(fields) /\ n + 1 \in 1 .. Len(fields) /\ (n + 1) - 1 = n
    BY FieldAt
  <2>2. KeptOf(fields, gone, n, kept[n])
    BY <1>3, <2>1
  <2>3. kept[n + 1] = IF fields[n + 1].key \in gone THEN kept[n] ELSE Append(kept[n], fields[n + 1])
    BY <1>1, <2>1
  <2> HIDE DEF Upto
  <2> QED
    BY <2>1, <2>2, <2>3, KeptStep
<1>4. Len(fields) \in Upto
  <2>1. Len(fields) \in Nat
    BY FieldAt
  <2> HIDE DEF Upto
  <2> QED
    BY <1>2, <1>3, <2>1, NatSetInduction
<1> QED
  BY <1>1, <1>4, FieldAt

(* What stays is in the list, in other words the keys are those that are    *)
(* not gone, and no key comes to be there twice.                            *)
LEMMA WithoutFields ==
  ASSUME NEW fields \in Seq(Fields), DistinctKeys(fields), NEW gone
  PROVE  LET left == Without(fields, gone)
         IN  /\ left \in Seq(Fields)
             /\ DistinctKeys(left)
             /\ \A p \in 1 .. Len(left) : \E i \in 1 .. Len(fields) : fields[i] = left[p]
             /\ \A k : HasKey(left, k) <=> HasKey(fields, k) /\ k \notin gone
<1> DEFINE left == Without(fields, gone)
           rank(j) == Rank(fields, gone, j)
<1>1. /\ left \in Seq(Fields)
      /\ \A j \in 1 .. Len(fields) : fields[j].key \notin gone =>
           rank(j) \in 1 .. Len(left) /\ left[rank(j)] = fields[j]
      /\ \A p \in 1 .. Len(left) : \E j \in 1 .. Len(fields) :
           fields[j].key \notin gone /\ rank(j) = p
  BY WithoutKeeps DEF KeptOf
<1> HIDE DEF left, rank
<1>2. \A p \in 1 .. Len(left) : \E j \in 1 .. Len(fields) :
        fields[j].key \notin gone /\ rank(j) = p /\ left[p] = fields[j]
  BY <1>1
<1>3. ASSUME NEW p \in 1 .. Len(left), NEW q \in 1 .. Len(left), left[p].key = left[q].key
      PROVE  p = q
  <2>1. PICK i \in 1 .. Len(fields) : rank(i) = p /\ left[p] = fields[i]
    BY <1>2
  <2>2. PICK j \in 1 .. Len(fields) : rank(j) = q /\ left[q] = fields[j]
    BY <1>2
  <2>3. i = j
    BY <1>3, <2>1, <2>2 DEF DistinctKeys
  <2> QED
    BY <2>1, <2>2, <2>3
<1>4. \A k : HasKey(left, k) <=> HasKey(fields, k) /\ k \notin gone
  BY <1>1, <1>2 DEF HasKey
<1>5. DistinctKeys(left)
  BY <1>3 DEF DistinctKeys
<1> QED
  BY <1>1, <1>2, <1>4, <1>5 DEF left

-----------------------------------------------------------------------------
(* FieldsUpdated: the fields asked for, each with its last value, and what  *)
(* was there and is not asked for                                           *)
LEMMA OneUpdated ==
  ASSUME NEW fields \in Seq(Fields), DistinctKeys(fields), NEW field \in Fields
  PROVE  LET new == FieldUpdated(fields, field)
         IN  /\ new \in Seq(Fields)
             /\ DistinctKeys(new)
             /\ \E p \in 1 .. Len(new) : new[p] = field
             /\ \A i \in 1 .. Len(fields) : HasKey(new, fields[i].key)
             /\ \A p \in 1 .. Len(new) :
                  \/ new[p] = field
                  \/ /\ new[p].key # field.key
                     /\ \E i \in 1 .. Len(fields) : fields[i] = new[p]
<1> DEFINE new == FieldUpdated(fields, field)
<1>1. /\ Len(fields) \in Nat
      /\ DOMAIN fields = 1 .. Len(fields)
      /\ \A i \in 1 .. Len(fields) : fields[i] \in Fields
      /\ \A k : k \in KeysIn(fields) <=> HasKey(fields, k)
  BY FieldAt
<1>2. CASE HasKey(fields, field.key)
  <2> DEFINE one == [i \in DOMAIN fields |-> IF fields[i].key = field.key THEN field ELSE fields[i]]
  <2>1. new = one
    BY <1>1, <1>2 DEF FieldUpdated
  <2>2. one \in [1 .. Len(fields) -> Fields]
    BY <1>1
  <2>3. \A i \in 1 .. Len(fields) : one[i] = IF fields[i].key = field.key THEN field ELSE fields[i]
    BY <1>1
  <2> HIDE DEF one, new
  <2>4. one \in Seq(Fields)
    BY <1>1, <2>2, SeqDef
  <2>5. Len(one) = Len(fields)
    BY <1>1, <2>2, <2>4, LenProperties
  <2>6. \A i \in 1 .. Len(fields) : one[i].key = fields[i].key
    BY <2>3
  <2>7. DistinctKeys(one)
    BY <2>5, <2>6 DEF DistinctKeys
  <2>8. \E p \in 1 .. Len(one) : one[p] = field
    BY <1>2, <2>3, <2>5 DEF HasKey
  <2>9. \A i \in 1 .. Len(fields) : HasKey(one, fields[i].key)
    BY <2>5, <2>6 DEF HasKey
  <2>10. \A p \in 1 .. Len(one) :
           \/ one[p] = field
           \/ one[p].key # field.key /\ \E i \in 1 .. Len(fields) : fields[i] = one[p]
    BY <2>3, <2>5
  <2> QED
    BY <2>1, <2>4, <2>7, <2>8, <2>9, <2>10 DEF new
<1>3. CASE ~HasKey(fields, field.key)
  <2> DEFINE one == Append(fields, field)
  <2>1. new = one
    BY <1>1, <1>3 DEF FieldUpdated
  <2>2. /\ one \in Seq(Fields) /\ Len(one) = Len(fields) + 1
        /\ \A i \in 1 .. Len(fields) : one[i] = fields[i]
        /\ one[Len(fields) + 1] = field
    BY AppendProperties
  <2> HIDE DEF one, new
  <2>3. \A p \in 1 .. Len(one) : p \in 1 .. Len(fields) \/ p = Len(fields) + 1
    BY <1>1, <2>2
  <2>4. \A i \in 1 .. Len(fields) : fields[i].key # field.key /\ i \in 1 .. Len(one)
    BY <1>1, <1>3, <2>2 DEF HasKey
  <2>5. ASSUME NEW p \in 1 .. Len(one), NEW q \in 1 .. Len(one), one[p].key = one[q].key
        PROVE  p = q
    BY <2>2, <2>3, <2>4, <2>5 DEF DistinctKeys
  <2>6. DistinctKeys(one)
    BY <2>5 DEF DistinctKeys
  <2>7. \E p \in 1 .. Len(one) : one[p] = field
    BY <1>1, <2>2
  <2>8. \A i \in 1 .. Len(fields) : HasKey(one, fields[i].key)
    BY <2>2, <2>4 DEF HasKey
  <2>9. \A p \in 1 .. Len(one) :
           \/ one[p] = field
           \/ one[p].key # field.key /\ \E i \in 1 .. Len(fields) : fields[i] = one[p]
    BY <2>2, <2>3, <2>4
  <2> QED
    BY <2>1, <2>2, <2>6, <2>7, <2>8, <2>9 DEF new
<1> QED
  BY <1>2, <1>3

(* What the first n fields of a request make of old *)
AskedLast(request, n, field) ==
  \E j \in 1 .. n : request[j] = field /\ \A k \in 1 .. n : k > j => request[k].key # field.key
LeftAlone(old, request, n, field) ==
  /\ \E i \in 1 .. Len(old) : old[i] = field
  /\ \A k \in 1 .. n : request[k].key # field.key

UpdateOf(old, request, n, new) ==
  /\ new \in Seq(Fields)
  /\ DistinctKeys(new)
  /\ \A i \in 1 .. Len(old) : HasKey(new, old[i].key)
  /\ \A j \in 1 .. n : HasKey(new, request[j].key)
  /\ \A p \in 1 .. Len(new) : AskedLast(request, n, new[p]) \/ LeftAlone(old, request, n, new[p])

LEMMA UpdateNone ==
  ASSUME NEW old \in Seq(Fields), DistinctKeys(old), NEW request
  PROVE  UpdateOf(old, request, 0, old)
<1>1. Len(old) \in Nat
  BY FieldAt
<1>2. \A p \in 1 .. Len(old) : LeftAlone(old, request, 0, old[p])
  BY DEF LeftAlone
<1> QED
  BY <1>1, <1>2 DEF UpdateOf, HasKey

LEMMA UpdateStep ==
  ASSUME NEW old \in Seq(Fields), NEW request \in Seq(Fields), NEW n \in Nat,
         n + 1 \in 1 .. Len(request), NEW mid, UpdateOf(old, request, n, mid)
  PROVE  UpdateOf(old, request, n + 1, FieldUpdated(mid, request[n + 1]))
<1> DEFINE new == FieldUpdated(mid, request[n + 1])
<1>1. request[n + 1] \in Fields
  BY FieldAt
<1>2. /\ mid \in Seq(Fields) /\ DistinctKeys(mid)
      /\ \A i \in 1 .. Len(old) : HasKey(mid, old[i].key)
      /\ \A j \in 1 .. n : HasKey(mid, request[j].key)
      /\ \A p \in 1 .. Len(mid) : AskedLast(request, n, mid[p]) \/ LeftAlone(old, request, n, mid[p])
  BY DEF UpdateOf
<1>3. /\ new \in Seq(Fields)
      /\ DistinctKeys(new)
      /\ \E p \in 1 .. Len(new) : new[p] = request[n + 1]
      /\ \A i \in 1 .. Len(mid) : HasKey(new, mid[i].key)
      /\ \A p \in 1 .. Len(new) :
           \/ new[p] = request[n + 1]
           \/ /\ new[p].key # request[n + 1].key
              /\ \E i \in 1 .. Len(mid) : mid[i] = new[p]
  BY <1>1, <1>2, OneUpdated
<1> HIDE DEF new
<1>4. \A k : HasKey(mid, k) => HasKey(new, k)
  BY <1>3 DEF HasKey
<1>5. HasKey(new, request[n + 1].key)
  BY <1>3 DEF HasKey
<1>6. \A j \in 1 .. n + 1 : j \in 1 .. n \/ j = n + 1
  OBVIOUS
<1>7. \A j \in 1 .. n + 1 : HasKey(new, request[j].key)
  BY <1>2, <1>4, <1>5, <1>6
<1>8. ASSUME NEW p \in 1 .. Len(new)
      PROVE  AskedLast(request, n + 1, new[p]) \/ LeftAlone(old, request, n + 1, new[p])
  <2>1. CASE new[p] = request[n + 1]
    <3>1. n + 1 \in 1 .. n + 1 /\ \A k \in 1 .. n + 1 : ~(k > n + 1)
      OBVIOUS
    <3> QED
      BY <2>1, <3>1 DEF AskedLast
  <2>2. CASE new[p].key # request[n + 1].key /\ \E i \in 1 .. Len(mid) : mid[i] = new[p]
    <3>1. AskedLast(request, n, new[p]) \/ LeftAlone(old, request, n, new[p])
      BY <1>2, <2>2
    <3>2. CASE AskedLast(request, n, new[p])
      <4>1. PICK j \in 1 .. n : /\ request[j] = new[p]
                                /\ \A k \in 1 .. n : k > j => request[k].key # new[p].key
        BY <3>2 DEF AskedLast
      <4>2. j \in 1 .. n + 1 /\ \A k \in 1 .. n + 1 : k > j => request[k].key # new[p].key
        BY <1>6, <2>2, <4>1
      <4> QED
        BY <4>1, <4>2 DEF AskedLast
    <3>3. CASE LeftAlone(old, request, n, new[p])
      BY <1>6, <2>2, <3>3 DEF LeftAlone
    <3> QED
      BY <3>1, <3>2, <3>3
  <2> QED
    BY <1>3, <2>1, <2>2
<1>9. \A i \in 1 .. Len(old) : HasKey(new, old[i].key)
  BY <1>2, <1>4
<1>10. UpdateOf(old, request, n + 1, new)
  BY <1>3, <1>7, <1>8, <1>9 DEF UpdateOf
<1> QED
  BY <1>10 DEF new

UpdateEquation(after, fields, request) ==
  after = [i \in 0 .. Len(request) |->
             IF i = 0 THEN fields ELSE FieldUpdated(after[i - 1], request[i])]

(* The lists an update goes through: those with every key once *)
Lists == {fields \in Seq(Fields) : DistinctKeys(fields)}

LEMMA UpdateSolvable ==
  ASSUME NEW fields \in Seq(Fields), DistinctKeys(fields), NEW request \in Seq(Fields)
  PROVE  \E after : UpdateEquation(after, fields, request)
<1> DEFINE N == Len(request)
           step == [p \in (1 .. N) \X Lists |-> FieldUpdated(p[2], request[p[1]])]
<1>1. N \in Nat /\ \A i \in 1 .. N : request[i] \in Fields
  BY FieldAt
<1>2. ASSUME NEW i \in 1 .. N, NEW list \in Lists
      PROVE  FieldUpdated(list, request[i]) \in Lists
  BY <1>1, OneUpdated DEF Lists
<1>3. step \in [(1 .. N) \X Lists -> Lists]
  <2> HIDE DEF N
  <2> QED
    BY <1>2
<1>4. \A i \in 1 .. N, list \in Lists : step[<<i, list>>] = FieldUpdated(list, request[i])
  <2> HIDE DEF N
  <2> QED
    OBVIOUS
<1>5. fields \in Lists
  BY DEF Lists
<1> HIDE DEF step
<1>6. PICK g : Iterates(g, Lists, fields, N, step)
  <2> HIDE DEF N
  <2> QED
    BY <1>1, <1>3, <1>5, IterationExists
<1>7. ASSUME NEW n \in 1 .. N
      PROVE  g[n] = FieldUpdated(g[n - 1], request[n])
  <2>1. n - 1 \in 0 .. N
    BY <1>1
  <2> HIDE DEF N
  <2> QED
    BY <1>4, <1>6, <2>1 DEF Iterates
<1>8. g = [i \in 0 .. N |-> IF i = 0 THEN fields ELSE FieldUpdated(g[i - 1], request[i])]
  <2>1. \A i \in 0 .. N : i # 0 => i \in 1 .. N
    BY <1>1
  <2> HIDE DEF N
  <2> QED
    BY <1>6, <1>7, <2>1 DEF Iterates
<1> QED
  BY <1>8 DEF UpdateEquation

LEMMA UpdateSteps ==
  ASSUME NEW fields \in Seq(Fields), DistinctKeys(fields), NEW request \in Seq(Fields)
  PROVE  \E after : /\ FieldsUpdated(fields, request) = after[Len(request)]
                    /\ after[0] = fields
                    /\ \A i \in 1 .. Len(request) :
                         after[i] = FieldUpdated(after[i - 1], request[i])
<1> DEFINE after == CHOOSE after : UpdateEquation(after, fields, request)
<1>1. UpdateEquation(after, fields, request)
  BY UpdateSolvable
<1>2. FieldsUpdated(fields, request) = after[Len(request)]
  BY DEF FieldsUpdated, UpdateEquation
<1> HIDE DEF after
<1>3. Len(request) \in Nat
  BY FieldAt
<1> DEFINE body == [i \in 0 .. Len(request) |->
                      IF i = 0 THEN fields ELSE FieldUpdated(after[i - 1], request[i])]
<1>4. body[0] = fields /\ \A i \in 1 .. Len(request) : body[i] = FieldUpdated(after[i - 1], request[i])
  BY <1>3
<1>5. after = body
  BY <1>1 DEF UpdateEquation
<1> HIDE DEF body
<1> QED
  BY <1>2, <1>4, <1>5

LEMMA FieldsUpdate ==
  ASSUME NEW fields \in Seq(Fields), DistinctKeys(fields), NEW request \in Seq(Fields)
  PROVE  UpdateOf(fields, request, Len(request), FieldsUpdated(fields, request))
<1>1. PICK after : /\ FieldsUpdated(fields, request) = after[Len(request)]
                   /\ after[0] = fields
                   /\ \A i \in 1 .. Len(request) :
                        after[i] = FieldUpdated(after[i - 1], request[i])
  BY UpdateSteps
<1> DEFINE Upto == {n \in Nat : n <= Len(request) => UpdateOf(fields, request, n, after[n])}
<1>2. 0 \in Upto
  BY <1>1, UpdateNone
<1>3. ASSUME NEW n \in Nat, n \in Upto
      PROVE  n + 1 \in Upto
  <2> SUFFICES ASSUME n + 1 <= Len(request)
               PROVE  UpdateOf(fields, request, n + 1, after[n + 1])
    OBVIOUS
  <2>1. n <= Len(request) /\ n + 1 \in 1 .. Len(request) /\ (n + 1) - 1 = n
    BY FieldAt
  <2>2. UpdateOf(fields, request, n, after[n])
    BY <1>3, <2>1
  <2>3. after[n + 1] = FieldUpdated(after[n], request[n + 1])
    BY <1>1, <2>1
  <2> HIDE DEF Upto
  <2> QED
    BY <2>1, <2>2, <2>3, UpdateStep
<1>4. Len(request) \in Upto
  <2>1. Len(request) \in Nat
    BY FieldAt
  <2> HIDE DEF Upto
  <2> QED
    BY <1>2, <1>3, <2>1, NatSetInduction
<1> QED
  BY <1>1, <1>4, FieldAt

-----------------------------------------------------------------------------
(* What is remembered is what can be removed.                               *)
LEMMA RememberedExactly ==
  ASSUME NEW old \in Seq(Fields), DistinctKeys(old), NEW i \in 1 .. Len(old)
  PROVE  old[i].key \in Remembered(old) <=> old[i].key \notin Unremovable(old)
<1> DEFINE long == {k \in Keys : KeyLen[k] > MaxKeptKey}
           before(j) == Cardinality({k \in 1 .. j - 1 : IsShort(old[k])})
           rank(j) == Rank(old, long, j)
           short == ShortFields(old)
<1>1. /\ Len(old) \in Nat /\ DOMAIN old = 1 .. Len(old)
      /\ MaxRemembered \in Nat
      /\ \A j \in 1 .. Len(old) : old[j].key \notin long <=> IsShort(old[j])
  BY FieldAt, FieldParts, MintAssumption DEF IsShort
<1>2. /\ short \in Seq(Fields)
      /\ \A j \in 1 .. Len(old) : old[j].key \notin long =>
           rank(j) \in 1 .. Len(short) /\ short[rank(j)] = old[j]
      /\ \A p \in 1 .. Len(short) : \E j \in 1 .. Len(old) :
           old[j].key \notin long /\ rank(j) = p
  <2>1. short = Without(old, long)
    BY DEF ShortFields
  <2> HIDE DEF long, short
  <2> QED
    BY <2>1, WithoutKeeps DEF KeptOf
<1>3. ASSUME NEW j \in 1 .. Len(old), IsShort(old[j])
      PROVE  before(j) \in Nat /\ rank(j) = before(j) + 1
  <2>1. j - 1 \in Nat /\ (j - 1) + 1 = j
    OBVIOUS
  <2>2. {k \in 1 .. j - 1 : IsShort(old[k])} = {k \in 1 .. j - 1 : old[k].key \notin long}
    <3>1. \A k \in 1 .. j - 1 : k \in 1 .. Len(old)
      BY <1>1
    <3> HIDE DEF long
    <3> QED
      BY <1>1, <3>1
  <2>3. before(j) = rank(j - 1)
    <3> HIDE DEF long
    <3> QED
      BY <2>2 DEF Rank
  <2>4. /\ Rank(old, long, j - 1) \in Nat
        /\ Rank(old, long, j) = IF old[j].key \in long THEN Rank(old, long, j - 1)
                                ELSE Rank(old, long, j - 1) + 1
    <3> HIDE DEF long
    <3> QED
      BY <2>1, RankSteps
  <2> HIDE DEF long, before
  <2> QED
    BY <1>1, <1>3, <2>3, <2>4
<1>4. Len(short) \in Nat /\ DOMAIN short = 1 .. Len(short)
  BY <1>2, FieldAt
<1>5. \A k : k \in Remembered(old) <=>
               \E p \in 1 .. Len(short) : p <= MaxRemembered /\ short[p].key = k
  BY <1>4 DEF Remembered
<1>6. \A k : k \in Unremovable(old) <=>
               \E j \in 1 .. Len(old) : /\ old[j].key = k
                                        /\ IsShort(old[j]) => before(j) >= MaxRemembered
  BY <1>1 DEF Unremovable
<1> HIDE DEF long, before, rank, short
<1>7. \A j \in 1 .. Len(old) : old[j].key = old[i].key => j = i
  BY DEF DistinctKeys
<1>8. old[i].key \in Remembered(old) <=> IsShort(old[i]) /\ rank(i) <= MaxRemembered
  <2>1. ASSUME old[i].key \in Remembered(old)
        PROVE  IsShort(old[i]) /\ rank(i) <= MaxRemembered
    <3>1. PICK p \in 1 .. Len(short) : p <= MaxRemembered /\ short[p].key = old[i].key
      BY <1>5, <2>1
    <3>2. PICK j \in 1 .. Len(old) : old[j].key \notin long /\ rank(j) = p
      BY <1>2
    <3>3. j = i
      BY <1>2, <1>7, <3>1, <3>2
    <3> QED
      BY <1>1, <3>1, <3>2, <3>3
  <2>2. ASSUME IsShort(old[i]), rank(i) <= MaxRemembered
        PROVE  old[i].key \in Remembered(old)
    BY <1>1, <1>2, <1>5, <2>2
  <2> QED
    BY <2>1, <2>2
<1>9. old[i].key \in Unremovable(old) <=> (IsShort(old[i]) => before(i) >= MaxRemembered)
  BY <1>6, <1>7
<1> QED
  BY <1>1, <1>3, <1>8, <1>9

(* What an update makes of the fields of a mint *)
LEMMA UpdatedAsRequested ==
  ASSUME NEW old \in Seq(Fields), DistinctKeys(old), NEW request \in Seq(Fields)
  PROVE  LET new == FieldsUpdated(ObsoleteRemoved(old, request), request)
         IN  /\ new \in Seq(Fields)
             /\ DistinctKeys(new)
             /\ KeysIn(new) = KeysIn(request) \cup Unremovable(old)
             /\ \A p \in 1 .. Len(new) :
                  \/ AskedLast(request, Len(request), new[p])
                  \/ /\ ~HasKey(request, new[p].key)
                     /\ \E i \in 1 .. Len(old) : old[i] = new[p]
<1> DEFINE gone == Remembered(old) \ KeysIn(request)
           left == ObsoleteRemoved(old, request)
           new == FieldsUpdated(left, request)
<1>1. /\ left \in Seq(Fields)
      /\ DistinctKeys(left)
      /\ \A p \in 1 .. Len(left) : \E i \in 1 .. Len(old) : old[i] = left[p]
      /\ \A k : HasKey(left, k) <=> HasKey(old, k) /\ k \notin gone
  <2> HIDE DEF gone
  <2>1. left = Without(old, gone)
    BY DEF ObsoleteRemoved, gone
  <2> HIDE DEF left
  <2> QED
    BY <2>1, WithoutFields
<1> HIDE DEF left
<1>2. UpdateOf(left, request, Len(request), new)
  BY <1>1, FieldsUpdate
<1> HIDE DEF new
<1>3. /\ new \in Seq(Fields)
      /\ DistinctKeys(new)
      /\ \A i \in 1 .. Len(left) : HasKey(new, left[i].key)
      /\ \A j \in 1 .. Len(request) : HasKey(new, request[j].key)
      /\ \A p \in 1 .. Len(new) : \/ AskedLast(request, Len(request), new[p])
                                  \/ LeftAlone(left, request, Len(request), new[p])
  BY <1>2 DEF UpdateOf
<1>4. \A k : k \in KeysIn(new) <=> HasKey(new, k)
  BY <1>3, FieldAt
<1>5. \A k : k \in KeysIn(request) <=> HasKey(request, k)
  BY FieldAt
<1>6. \A k : HasKey(new, k) <=> HasKey(request, k) \/ HasKey(left, k)
  <2>1. ASSUME NEW k, HasKey(new, k)
        PROVE  HasKey(request, k) \/ HasKey(left, k)
    <3>1. PICK p \in 1 .. Len(new) : new[p].key = k
      BY <2>1 DEF HasKey
    <3>2. AskedLast(request, Len(request), new[p]) => HasKey(request, k)
      BY <3>1 DEF AskedLast, HasKey
    <3>3. LeftAlone(left, request, Len(request), new[p]) => HasKey(left, k)
      BY <3>1 DEF LeftAlone, HasKey
    <3> QED
      BY <1>3, <3>2, <3>3
  <2>2. ASSUME NEW k, HasKey(request, k) \/ HasKey(left, k)
        PROVE  HasKey(new, k)
    <3>1. HasKey(request, k) => HasKey(new, k)
      BY <1>3 DEF HasKey
    <3>2. HasKey(left, k) => HasKey(new, k)
      BY <1>3 DEF HasKey
    <3> QED
      BY <2>2, <3>1, <3>2
  <2> QED
    BY <2>1, <2>2
<1>7. \A k : k \in Unremovable(old) => HasKey(old, k)
  BY FieldAt DEF Unremovable, HasKey
<1>8. \A k : HasKey(old, k) => (k \in Remembered(old) <=> k \notin Unremovable(old))
  BY RememberedExactly DEF HasKey
<1>9. \A k : k \in KeysIn(new) <=> k \in KeysIn(request) \cup Unremovable(old)
  BY <1>1, <1>4, <1>5, <1>6, <1>7, <1>8
<1>10. ASSUME NEW p \in 1 .. Len(new), LeftAlone(left, request, Len(request), new[p])
       PROVE  ~HasKey(request, new[p].key) /\ \E i \in 1 .. Len(old) : old[i] = new[p]
  BY <1>1, <1>10 DEF LeftAlone, HasKey
<1> QED
  BY <1>3, <1>9, <1>10 DEF new, left

-----------------------------------------------------------------------------
(* Sizes.  Fields that all come from a request, every key once, take no     *)
(* more than the request.                                                   *)
Lens(fields) == [i \in DOMAIN fields |-> FieldLen(fields[i])]

LEMMA LensAt ==
  ASSUME NEW fields \in Seq(Fields)
  PROVE  /\ FieldsLen(fields) = SumFunctionOnSet(Lens(fields), 1 .. Len(fields))
         /\ IsFiniteSet(1 .. Len(fields))
         /\ \A i \in 1 .. Len(fields) : Lens(fields)[i] = FieldLen(fields[i])
         /\ \A i \in 1 .. Len(fields) : Lens(fields)[i] \in Nat
         /\ FieldsLen(fields) \in Nat
<1>1. /\ Len(fields) \in Nat /\ DOMAIN fields = 1 .. Len(fields)
      /\ \A i \in 1 .. Len(fields) : fields[i] \in Fields
  BY FieldAt
<1>2. IsFiniteSet(1 .. Len(fields))
  BY <1>1, FS_Interval
<1>3. \A i \in 1 .. Len(fields) : Lens(fields)[i] = FieldLen(fields[i])
  BY <1>1 DEF Lens
<1>4. \A i \in 1 .. Len(fields) : Lens(fields)[i] \in Nat
  BY <1>1, <1>3, FieldParts
<1>5. FieldsLen(fields) = SumFunctionOnSet(Lens(fields), 1 .. Len(fields))
  BY <1>1 DEF FieldsLen, Lens
<1>6. SumFunctionOnSet(Lens(fields), 1 .. Len(fields)) \in Nat
  BY <1>2, <1>4, SumNat
<1> QED
  BY <1>2, <1>3, <1>4, <1>5, <1>6

LEMMA NoLongerThanAsked ==
  ASSUME NEW request \in Seq(Fields), NEW new \in Seq(Fields), DistinctKeys(new),
         \A p \in 1 .. Len(new) : \E j \in 1 .. Len(request) : request[j] = new[p]
  PROVE  FieldsLen(new) <= FieldsLen(request)
<1> DEFINE P == 1 .. Len(new)
           J == 1 .. Len(request)
           place == [p \in P |-> CHOOSE j \in J : request[j] = new[p]]
           f == Lens(new)
           g == Lens(request)
           At(T) == {place[p] : p \in T}
           Good == {T \in SUBSET P : SumFunctionOnSet(f, T) = SumFunctionOnSet(g, At(T))}
<1>1. /\ FieldsLen(new) = SumFunctionOnSet(f, P)
      /\ IsFiniteSet(P)
      /\ \A p \in P : f[p] = FieldLen(new[p]) /\ f[p] \in Nat
  BY LensAt
<1>2. /\ FieldsLen(request) = SumFunctionOnSet(g, J)
      /\ IsFiniteSet(J)
      /\ \A j \in J : g[j] = FieldLen(request[j]) /\ g[j] \in Nat
  BY LensAt
<1>3. \A p \in P : place[p] \in J /\ request[place[p]] = new[p]
  OBVIOUS
<1>4. \A p, q \in P : place[p] = place[q] => p = q
  BY <1>3 DEF DistinctKeys
<1> HIDE DEF P, J, place, f, g
<1>5. \A p \in P : g[place[p]] = f[p]
  BY <1>1, <1>2, <1>3
<1>6. {} \in Good
  <2>1. At({}) = {}
    OBVIOUS
  <2> QED
    BY <2>1, SumEmpty
<1>7. ASSUME NEW T \in SUBSET P, NEW x \in P, T \in Good, x \notin T
      PROVE  T \cup {x} \in Good
  <2>1. At(T) \in SUBSET J /\ place[x] \in J /\ place[x] \notin At(T)
    BY <1>3, <1>4, <1>7
  <2>2. At(T \cup {x}) = At(T) \cup {place[x]}
    OBVIOUS
  <2>3. SumFunctionOnSet(f, T) = SumFunctionOnSet(g, At(T))
    BY <1>7
  <2>4. T \cup {x} \in SUBSET P
    OBVIOUS
  <2>5. SumFunctionOnSet(f, T \cup {x}) = f[x] + SumFunctionOnSet(f, T)
    <3>1. IsFiniteSet(P) /\ \A p \in P : f[p] \in Int
      BY <1>1
    <3> HIDE DEF At, Good
    <3> QED
      BY <1>7, <3>1, SumAdd
  <2>6. SumFunctionOnSet(g, At(T) \cup {place[x]}) = g[place[x]] + SumFunctionOnSet(g, At(T))
    <3>1. IsFiniteSet(J) /\ \A j \in J : g[j] \in Int
      BY <1>2
    <3> HIDE DEF At, Good
    <3> QED
      BY <2>1, <3>1, SumAdd
  <2>7. SumFunctionOnSet(f, T \cup {x}) = SumFunctionOnSet(g, At(T \cup {x}))
    <3> HIDE DEF At
    <3> QED
      BY <1>5, <2>2, <2>3, <2>5, <2>6
  <2> QED
    BY <2>4, <2>7
<1>8. P \in Good
  <2> HIDE DEF Good
  <2>1. SUBSET P \subseteq Good
    BY <1>1, <1>6, <1>7, FiniteSetInduction
  <2> QED
    BY <2>1
<1>9. At(P) \in SUBSET J
  BY <1>3
<1>10. SumFunctionOnSet(g, At(P)) <= SumFunctionOnSet(g, J)
  <2> HIDE DEF At
  <2> QED
    BY <1>2, <1>9, SumMonotone
<1> QED
  BY <1>1, <1>2, <1>8, <1>10

(* What a mint and its metadata are sized at *)
LEMMA ExtensionsFinite ==
  ASSUME NEW args
  PROVE  /\ IsFiniteSet(ExtensionsOf(args))
         /\ \A e \in ExtensionsOf(args) : 4 + ExtensionLen[e] \in Nat
<1> DEFINE All == {"PermanentDelegate", "TransferHook", "Pausable", "MetadataPointer",
                   "ScaledUiAmount", "DefaultAccountState"}
<1>1. ExtensionsOf(args) \subseteq All
  BY DEF ExtensionsOf
<1>2. IsFiniteSet(All)
  <2>1. /\ IsFiniteSet({"PermanentDelegate"}) /\ IsFiniteSet({"TransferHook"})
        /\ IsFiniteSet({"Pausable"}) /\ IsFiniteSet({"MetadataPointer"})
        /\ IsFiniteSet({"ScaledUiAmount"}) /\ IsFiniteSet({"DefaultAccountState"})
    BY FS_Singleton
  <2>2. IsFiniteSet({"PermanentDelegate"} \cup {"TransferHook"})
    BY <2>1, FS_Union
  <2>3. IsFiniteSet({"PermanentDelegate"} \cup {"TransferHook"} \cup {"Pausable"})
    BY <2>1, <2>2, FS_Union
  <2>4. IsFiniteSet({"MetadataPointer"} \cup {"ScaledUiAmount"})
    BY <2>1, FS_Union
  <2>5. IsFiniteSet({"MetadataPointer"} \cup {"ScaledUiAmount"} \cup {"DefaultAccountState"})
    BY <2>1, <2>4, FS_Union
  <2>6. IsFiniteSet(({"PermanentDelegate"} \cup {"TransferHook"} \cup {"Pausable"})
                     \cup ({"MetadataPointer"} \cup {"ScaledUiAmount"} \cup {"DefaultAccountState"}))
    BY <2>3, <2>5, FS_Union
  <2>7. All = ({"PermanentDelegate"} \cup {"TransferHook"} \cup {"Pausable"})
                     \cup ({"MetadataPointer"} \cup {"ScaledUiAmount"} \cup {"DefaultAccountState"})
    OBVIOUS
  <2> QED
    BY <2>6, <2>7
<1>3. \A e \in All : 4 + ExtensionLen[e] \in Nat
  BY DEF ExtensionLen
<1> HIDE DEF All
<1> QED
  BY <1>1, <1>2, <1>3, FS_Subset

LEMMA MintSizeType ==
  ASSUME NEW args
  PROVE  MintSize(ExtensionsOf(args)) \in Nat
<1> DEFINE E == ExtensionsOf(args)
           f == [e \in E |-> 4 + ExtensionLen[e]]
<1>1. IsFiniteSet(E) /\ \A e \in E : f[e] \in Nat
  BY ExtensionsFinite
<1>2. SumFunctionOnSet(f, E) \in Nat
  <2> HIDE DEF E, f
  <2> QED
    BY <1>1, SumNat
<1> QED
  BY <1>2 DEF MintSize

-----------------------------------------------------------------------------
(***************************************************************************)
(* The types of the mint's state, and that the rent of what is there is    *)
(* paid: every handler that makes the account larger would fail otherwise. *)
(***************************************************************************)
ShortValues(fields) == \A i \in 1 .. Len(fields) : fields[i].len <= 1024

MintTyped(m) ==
  m = NoMint \/ m \in
    [exists : {TRUE}, mintAuthority : {MintAuthorityPda(c) : c \in Creators},
     freezeAuthority : Creators \cup {FreezeAuthorityPda}, delegate : {DelegatePda},
     hookAuthority : {HookPda}, pauseAuthority : {PausePda}, pointer : Pointers,
     scaled : BOOLEAN, state : {None, "Initialized", "Frozen"}]
MetadataTyped(md) ==
  md.exists =>
    /\ md.names \in NameLens
    /\ md.fields \in Seq(Fields)
    /\ DistinctKeys(md.fields)
    /\ ShortValues(md.fields)

MintTypes ==
  /\ MintTyped(mint)
  /\ MetadataTyped(metadata)
  /\ lamports \in Nat
  /\ mint.exists => RentHeld(mint, metadata, lamports)

LEMMA ParsesValues ==
  ASSUME NEW fields \in Seq(Fields), Parses(fields)
  PROVE  ShortValues(fields)
BY FieldAt DEF Parses, ShortValues

LEMMA RequestList ==
  ASSUME NEW request \in Requests
  PROVE  request \in Seq(Fields)
BY ArgumentsAssumption

(* What initialize_mint writes of the metadata is what it is asked to. *)
LEMMA FirstFields ==
  ASSUME NEW request \in Seq(Fields)
  PROVE  LET new == FieldsUpdated(<< >>, request)
         IN  /\ new \in Seq(Fields)
             /\ DistinctKeys(new)
             /\ \A p \in 1 .. Len(new) : \E j \in 1 .. Len(request) : request[j] = new[p]
<1> DEFINE new == FieldsUpdated(<< >>, request)
<1>1. << >> \in Seq(Fields) /\ Len(<< >>) = 0
  OBVIOUS
<1>2. DistinctKeys(<< >>)
  BY <1>1 DEF DistinctKeys
<1>3. UpdateOf(<< >>, request, Len(request), new)
  BY <1>1, <1>2, FieldsUpdate
<1> HIDE DEF new
<1>4. \A p \in 1 .. Len(new) : ~LeftAlone(<< >>, request, Len(request), new[p])
  BY <1>1 DEF LeftAlone
<1> QED
  BY <1>3, <1>4 DEF UpdateOf, AskedLast, new

LEMMA InitArgsParts ==
  ASSUME NEW args \in InitArgs
  PROVE  /\ args.pointer \in Pointers
         /\ args.scaled \in BOOLEAN
         /\ args.metadata # None =>
              /\ args.metadata.names \in NameLens
              /\ args.metadata.names \in Nat
              /\ args.metadata.fields \in Requests
              /\ args.metadata.fields \in Seq(Fields)
<1>1. /\ args.pointer \in Pointers
      /\ args.scaled \in BOOLEAN
      /\ args.metadata \in {None} \cup MetadataArgs
  BY DEF InitArgs
<1>2. args.metadata # None =>
        args.metadata.names \in NameLens /\ args.metadata.fields \in Requests
  BY <1>1 DEF MetadataArgs
<1>3. NameLens \subseteq Nat
  BY MintAssumption
<1> QED
  BY <1>1, <1>2, <1>3, RequestList

LEMMA MetadataSizeType ==
  ASSUME NEW names \in Nat, NEW fields \in Seq(Fields)
  PROVE  /\ MetadataSize(names, fields) = 84 + names + FieldsLen(fields)
         /\ MetadataSize(names, fields) \in Nat
         /\ FieldsLen(fields) \in Nat
<1>1. FieldsLen(fields) \in Nat
  BY LensAt
<1> QED
  BY <1>1 DEF MetadataSize

LEMMA KeptSizeType ==
  ASSUME NEW md, MetadataTyped(md)
  PROVE  /\ KeptSize(md) \in Nat
         /\ md.exists => KeptSize(md) = 84 + md.names + FieldsLen(md.fields)
<1>1. CASE ~md.exists
  BY <1>1 DEF KeptSize
<1>2. CASE md.exists
  <2>1. md.names \in Nat /\ md.fields \in Seq(Fields)
    BY <1>2, MintAssumption DEF MetadataTyped
  <2>2. FieldsLen(md.fields) \in Nat
    BY <2>1, LensAt
  <2> QED
    BY <1>2, <2>1, <2>2 DEF KeptSize
<1> QED
  BY <1>1, <1>2

-----------------------------------------------------------------------------
LEMMA InitializedTypes ==
  ASSUME NEW c \in Creators, NEW args \in InitArgs, CanInitializeMint(c, args)
  PROVE  /\ MintTyped(InitializedMint(c, args))
         /\ MetadataTyped(InitializedMetadata(c, args))
         /\ InitialRent(args) \in Nat
<1>1. /\ args.pointer \in Pointers
      /\ args.scaled \in BOOLEAN
      /\ args.metadata # None =>
           /\ args.metadata.names \in NameLens
           /\ args.metadata.names \in Nat
           /\ args.metadata.fields \in Seq(Fields)
  BY InitArgsParts
<1>2. args.freezeAuthority = FreezeAuthorityPda /\ args.state \in {None, "Initialized", "Frozen"}
  BY DEF CanInitializeMint, FreezeAuthorityMatches, ValidArgs
<1>3. MintTyped(InitializedMint(c, args))
  BY <1>1, <1>2 DEF MintTyped, InitializedMint
<1>4. MetadataTyped(InitializedMetadata(c, args))
  <2>1. CASE args.metadata = None
    BY <2>1 DEF InitializedMetadata, NoMetadata, MetadataTyped
  <2>2. CASE args.metadata # None
    <3> DEFINE request == args.metadata.fields
               new == FieldsUpdated(<< >>, request)
               md == InitializedMetadata(c, args)
    <3>1. /\ new \in Seq(Fields)
          /\ DistinctKeys(new)
          /\ \A p \in 1 .. Len(new) : \E j \in 1 .. Len(request) : request[j] = new[p]
      BY <1>1, <2>2, FirstFields
    <3>2. ShortValues(request)
      BY <1>1, <2>2, ParsesValues DEF CanInitializeMint
    <3>3. md.names = args.metadata.names /\ md.fields = new
      BY <2>2 DEF InitializedMetadata
    <3> HIDE DEF md, new, request
    <3>4. ShortValues(new)
      BY <3>1, <3>2 DEF ShortValues
    <3>5. MetadataTyped(md)
      BY <1>1, <2>2, <3>1, <3>3, <3>4 DEF MetadataTyped
    <3> QED
      BY <3>5 DEF md
  <2> QED
    BY <2>1, <2>2
<1>5. InitialRent(args) \in Nat
  <2>1. MintSize(ExtensionsOf(args)) \in Nat /\ Overhead \in Nat
    BY MintSizeType, MintAssumption
  <2>2. args.metadata # None => MetadataSize(args.metadata.names, args.metadata.fields) \in Nat
    BY <1>1, MetadataSizeType
  <2> QED
    BY <2>1, <2>2 DEF InitialRent, MinimumBalance
<1> QED
  BY <1>3, <1>4, <1>5

LEMMA InitializeMintTypes ==
  ASSUME MintInv, MintTypes, NEW c \in Creators, NEW args \in InitArgs, InitializeMint(c, args)
  PROVE  MintTypes'
<1>1. /\ CanInitializeMint(c, args)
      /\ mint' = InitializedMint(c, args)
      /\ metadata' = InitializedMetadata(c, args)
      /\ lamports' = InitialRent(args)
      /\ RentHeld(mint', metadata', lamports')
  BY DEF InitializeMint
<1> QED
  BY <1>1, InitializedTypes DEF MintTypes

(* The metadata an update leaves *)
LEMMA UpdatedTypes ==
  ASSUME MintInv, MintTypes, metadata.exists, NEW names \in NameLens, NEW request \in Requests
  PROVE  LET old == metadata.fields
             md == MetadataUpdated(names, request)
         IN  /\ old \in Seq(Fields) /\ DistinctKeys(old) /\ request \in Seq(Fields)
             /\ md.exists
             /\ md.names = names
             /\ md.fields = FieldsUpdated(ObsoleteRemoved(old, request), request)
             /\ Parses(request) => MetadataTyped(md)
             /\ Charge(names, request) \in Nat
<1> DEFINE old == metadata.fields
           new == FieldsUpdated(ObsoleteRemoved(old, request), request)
           md == MetadataUpdated(names, request)
<1>1. PICK ua, na, fi :
        metadata = [exists |-> TRUE, updateAuthority |-> ua, names |-> na, fields |-> fi]
  BY DEF MintInv, MetadataShape, NoMetadata
<1>2. md = [exists |-> TRUE, updateAuthority |-> ua, names |-> names, fields |-> new]
  <2>1. old = fi
    BY <1>1
  <2>2. md = [metadata EXCEPT !.names = names,
                              !.fields = FieldsUpdated(ObsoleteRemoved(fi, request), request)]
    BY <2>1 DEF MetadataUpdated
  <2>3. md = [exists |-> TRUE, updateAuthority |-> ua, names |-> names,
              fields |-> FieldsUpdated(ObsoleteRemoved(fi, request), request)]
    <3> HIDE DEF md, old, new
    <3> QED
      BY <1>1, <2>2
  <2> QED
    BY <2>1, <2>3
<1>3. md.exists /\ md.names = names /\ md.fields = new
  BY <1>2
<1>4. old \in Seq(Fields) /\ DistinctKeys(old) /\ ShortValues(old) /\ request \in Seq(Fields)
  BY RequestList DEF MintTypes, MetadataTyped
<1> HIDE DEF old
<1>5. /\ new \in Seq(Fields)
      /\ DistinctKeys(new)
      /\ \A p \in 1 .. Len(new) :
           \/ AskedLast(request, Len(request), new[p])
           \/ \E i \in 1 .. Len(old) : old[i] = new[p]
  BY <1>4, UpdatedAsRequested
<1> HIDE DEF new, md
<1>6. Parses(request) => MetadataTyped(md)
  <2> SUFFICES ASSUME Parses(request) PROVE MetadataTyped(md)
    OBVIOUS
  <2>1. ShortValues(request)
    BY <1>4, ParsesValues
  <2>2. ShortValues(new)
    BY <1>4, <1>5, <2>1 DEF ShortValues, AskedLast
  <2> QED
    BY <1>3, <1>5, <2>2 DEF MetadataTyped
<1>7. Charge(names, request) \in Nat
  <2>1. names \in Nat /\ Overhead \in Nat
    BY MintAssumption
  <2>2. MetadataSize(names, request) \in Nat /\ KeptSize(metadata) \in Nat
    BY <1>4, <2>1, MetadataSizeType, KeptSizeType DEF MintTypes
  <2> QED
    BY <2>1, <2>2 DEF Charge, MinimumBalance
<1> QED
  BY <1>3, <1>4, <1>6, <1>7 DEF old, new, md

LEMMA UpdateMetadataTypes ==
  ASSUME MintInv, MintTypes, NEW c \in Creators, NEW names \in NameLens, NEW request \in Requests,
         UpdateMetadata(c, names, request)
  PROVE  MintTypes'
<1>1. /\ mint' = mint
      /\ metadata.exists /\ Parses(request)
      /\ metadata' = MetadataUpdated(names, request)
      /\ lamports' = lamports + Charge(names, request)
      /\ RentHeld(mint', metadata', lamports')
  BY DEF UpdateMetadata, CanUpdateMetadata
<1>2. MetadataTyped(metadata') /\ Charge(names, request) \in Nat
  BY <1>1, UpdatedTypes
<1>3. lamports' \in Nat
  BY <1>1, <1>2 DEF MintTypes
<1> QED
  BY <1>1, <1>2, <1>3 DEF MintTypes

(* A mint of the same extensions is as large. *)
LEMMA SameExtensions ==
  ASSUME MintTypes, mint.exists, UNCHANGED <<metadata, lamports>>,
         MintTyped(mint'), ExtensionsOf(mint') = ExtensionsOf(mint)
  PROVE  MintTypes'
<1>1. SizeOf(mint', metadata) = SizeOf(mint, metadata)
  BY DEF SizeOf
<1>2. RentHeld(mint', metadata', lamports')
  BY <1>1 DEF MintTypes, RentHeld
<1> QED
  BY <1>2 DEF MintTypes

LEMMA UpdateStateTypes ==
  ASSUME MintTypes, NEW s, UpdateDefaultAccountState(s)
  PROVE  MintTypes'
<1>1. /\ mint.exists /\ mint.state # None
      /\ s \in {"Initialized", "Frozen"} /\ s # None
      /\ mint' = [mint EXCEPT !.state = s]
      /\ UNCHANGED <<metadata, lamports>>
  BY ArgumentsAssumption DEF UpdateDefaultAccountState
<1>2. mint # NoMint
  BY <1>1 DEF NoMint
<1>3. /\ MintTyped(mint')
      /\ mint'.pointer = mint.pointer /\ mint'.scaled = mint.scaled /\ mint'.state = s
  BY <1>1, <1>2 DEF MintTypes, MintTyped
<1>4. ExtensionsOf(mint') = ExtensionsOf(mint)
  BY <1>1, <1>3 DEF ExtensionsOf
<1> QED
  BY <1>1, <1>3, <1>4, SameExtensions

LEMMA RepointTypes ==
  ASSUME MintTypes, NEW a \in {MintKey} \cup OtherAddresses, RepointMetadata(a)
  PROVE  MintTypes'
<1>1. /\ mint.exists /\ mint.pointer # None
      /\ mint' = [mint EXCEPT !.pointer = [@ EXCEPT !.address = a]]
      /\ UNCHANGED <<metadata, lamports>>
  BY DEF RepointMetadata
<1>2. mint # NoMint
  BY <1>1 DEF NoMint
<1>3. mint.pointer \in [address : {MintKey} \cup OtherAddresses]
  BY <1>1, <1>2 DEF MintTypes, MintTyped, Pointers
<1>4. [mint.pointer EXCEPT !.address = a] \in [address : {MintKey} \cup OtherAddresses]
  BY <1>3
<1> DEFINE pointer == [mint.pointer EXCEPT !.address = a]
<1>5. pointer \in Pointers /\ pointer # None
  BY <1>4, ArgumentsAssumption DEF Pointers
<1>6. mint' = [mint EXCEPT !.pointer = pointer]
  BY <1>1
<1> HIDE DEF pointer
<1>7. /\ MintTyped(mint')
      /\ mint'.pointer = pointer /\ mint'.scaled = mint.scaled /\ mint'.state = mint.state
  BY <1>2, <1>5, <1>6 DEF MintTypes, MintTyped
<1>8. ExtensionsOf(mint') = ExtensionsOf(mint)
  BY <1>1, <1>5, <1>7 DEF ExtensionsOf
<1> QED
  BY <1>1, <1>7, <1>8, SameExtensions

LEMMA PrefundTypes ==
  ASSUME MintTypes, Prefund
  PROVE  MintTypes'
<1>1. MinimumBalance(0) \in Nat
  BY MintAssumption DEF MinimumBalance
<1>2. CASE ~mint.exists /\ lamports' = MinimumBalance(0) /\ UNCHANGED <<mint, metadata>>
  BY <1>1, <1>2 DEF MintTypes
<1>3. CASE UNCHANGED <<mint, metadata, lamports>>
  BY <1>3 DEF MintTypes
<1> QED
  BY <1>2, <1>3 DEF Prefund

MintFacts == MintInv /\ MintTypes

LEMMA MintInitFacts == MintInit => MintFacts
<1> SUFFICES ASSUME MintInit PROVE MintTypes
  BY MintInitInvariant DEF MintFacts
<1>1. ~mint.exists /\ ~metadata.exists
  BY DEF MintInit, NoMint, NoMetadata
<1> QED
  BY <1>1 DEF MintInit, MintTypes, MintTyped, MetadataTyped

LEMMA MintStepFacts == MintFacts /\ [MintNext]_mintVars => MintFacts'
<1> SUFFICES ASSUME MintInv, MintTypes, [MintNext]_mintVars PROVE MintTypes'
  BY MintStepPreserves DEF MintFacts
<1>1. CASE UNCHANGED mintVars
  BY <1>1 DEF mintVars, MintTypes
<1> QED
  BY <1>1, InitializeMintTypes, UpdateMetadataTypes, UpdateStateTypes, RepointTypes, PrefundTypes
     DEF MintNext

-----------------------------------------------------------------------------
(* Every key once: as many keys as fields *)
LEMMA KeyForEveryField ==
  ASSUME NEW fields \in Seq(Fields), DistinctKeys(fields)
  PROVE  Cardinality(KeysIn(fields)) = Len(fields)
<1> DEFINE f == [i \in 1 .. Len(fields) |-> fields[i].key]
<1>1. Len(fields) \in Nat /\ DOMAIN fields = 1 .. Len(fields)
  BY FieldAt
<1>2. f \in [1 .. Len(fields) -> KeysIn(fields)]
  BY <1>1 DEF KeysIn
<1>3. \A i, j \in 1 .. Len(fields) : f[i] = f[j] => i = j
  BY DEF DistinctKeys
<1>4. \A k \in KeysIn(fields) : \E i \in 1 .. Len(fields) : f[i] = k
  BY <1>1 DEF KeysIn
<1> HIDE DEF f
<1>5. f \in Bijection(1 .. Len(fields), KeysIn(fields))
  BY <1>2, <1>3, <1>4 DEF Bijection, Injection, Surjection, IsInjective
<1>6. ExistsBijection(1 .. Len(fields), KeysIn(fields))
  BY <1>5 DEF ExistsBijection
<1>7. IsFiniteSet(1 .. Len(fields)) /\ Cardinality(1 .. Len(fields)) = Len(fields)
  BY <1>1, FS_Interval
<1> QED
  BY <1>6, <1>7, FS_Bijection

(* The types of the mint's state: metadata never hold what the parser       *)
(* refuses, nor a key twice, however they came about.                       *)
THEOREM MintTypeCorrect == MintSpec => []MintTypeOK
<1>1. MintFacts => MintTypeOK
  <2> SUFFICES ASSUME MintFacts PROVE MintTypeOK
    OBVIOUS
  <2>1. ASSUME metadata.exists
        PROVE  /\ metadata.names \in NameLens
               /\ metadata.fields \in Seq(Fields)
               /\ \A i \in DOMAIN metadata.fields : metadata.fields[i].len <= 1024
               /\ Cardinality(KeysIn(metadata.fields)) = Len(metadata.fields)
    <3>1. /\ metadata.names \in NameLens
          /\ metadata.fields \in Seq(Fields)
          /\ DistinctKeys(metadata.fields)
          /\ ShortValues(metadata.fields)
      BY <2>1 DEF MintFacts, MintTypes, MetadataTyped
    <3> QED
      BY <3>1, FieldAt, KeyForEveryField DEF ShortValues
  <2> QED
    BY <2>1 DEF MintFacts, MintInv, MintTypes, MintTyped, MintTypeOK
<1> QED
  BY <1>1, MintInitFacts, MintStepFacts, PTL DEF MintSpec

(* After update_metadata the fields are the ones asked for, each with the   *)
(* last value asked for it, and those of before that cannot be removed, for *)
(* every list of fields and every size of its buffer.                       *)
THEOREM FieldsAlwaysAsRequested == MintSpec => []FieldsAsRequested
<1>1. MintFacts => FieldsAsRequested
  <2> SUFFICES ASSUME MintInv, MintTypes, metadata.exists,
                      NEW names \in NameLens, NEW request \in Requests
               PROVE  LET old == metadata.fields
                          new == MetadataUpdated(names, request).fields
                      IN  /\ KeysIn(new) = KeysIn(request) \cup Unremovable(old)
                          /\ \A i \in DOMAIN new :
                               IF new[i].key \in KeysIn(request)
                                 THEN \E j \in DOMAIN request :
                                        /\ request[j] = new[i]
                                        /\ \A k \in DOMAIN request :
                                             k > j => request[k].key # new[i].key
                                 ELSE \E j \in DOMAIN old : old[j] = new[i]
    BY DEF MintFacts, FieldsAsRequested
  <2> DEFINE old == metadata.fields
             new == MetadataUpdated(names, request).fields
  <2>1. /\ old \in Seq(Fields) /\ DistinctKeys(old) /\ request \in Seq(Fields)
        /\ new = FieldsUpdated(ObsoleteRemoved(old, request), request)
    BY UpdatedTypes
  <2> HIDE DEF old, new
  <2>2. /\ new \in Seq(Fields)
        /\ KeysIn(new) = KeysIn(request) \cup Unremovable(old)
        /\ \A p \in 1 .. Len(new) :
             \/ AskedLast(request, Len(request), new[p])
             \/ /\ ~HasKey(request, new[p].key)
                /\ \E i \in 1 .. Len(old) : old[i] = new[p]
    BY <2>1, UpdatedAsRequested
  <2>3. /\ DOMAIN request = 1 .. Len(request) /\ DOMAIN old = 1 .. Len(old)
        /\ DOMAIN new = 1 .. Len(new)
        /\ \A k : k \in KeysIn(request) <=> HasKey(request, k)
    BY <2>1, <2>2, FieldAt
  <2>4. \A p \in 1 .. Len(new) :
          AskedLast(request, Len(request), new[p]) => HasKey(request, new[p].key)
    BY DEF AskedLast, HasKey
  <2> QED
    BY <2>2, <2>3, <2>4 DEF AskedLast, old, new
<1> QED
  BY <1>1, MintInitFacts, MintStepFacts, PTL DEF MintSpec

-----------------------------------------------------------------------------
LEMMA InitialRentEnough ==
  ASSUME NEW c \in Creators, NEW args \in InitArgs, CanInitializeMint(c, args)
  PROVE  RentHeld(InitializedMint(c, args), InitializedMetadata(c, args), InitialRent(args))
<1> DEFINE md == InitializedMetadata(c, args)
           E == ExtensionsOf(args)
<1>1. ExtensionsOf(InitializedMint(c, args)) = E
  BY DEF ExtensionsOf, InitializedMint
<1>2. MintSize(E) \in Nat /\ Overhead \in Nat
  BY MintSizeType, MintAssumption
<1> HIDE DEF E
<1>3. SizeOf(InitializedMint(c, args), md) = MintSize(E) + KeptSize(md)
  BY <1>1 DEF SizeOf
<1>4. CASE args.metadata = None
  <2>1. KeptSize(md) = 0
    BY <1>4 DEF KeptSize, InitializedMetadata, NoMetadata
  <2>2. InitialRent(args) = Overhead + MintSize(E)
    BY <1>2, <1>4 DEF InitialRent, MinimumBalance, E
  <2> QED
    BY <1>2, <1>3, <2>1, <2>2 DEF RentHeld, MinimumBalance
<1>5. CASE args.metadata # None
  <2> DEFINE names == args.metadata.names
             request == args.metadata.fields
             new == FieldsUpdated(<< >>, request)
  <2>1. names \in Nat /\ request \in Seq(Fields)
    BY <1>5, InitArgsParts
  <2>2. md.exists /\ md.names = names /\ md.fields = new
    BY <1>5 DEF InitializedMetadata
  <2>3. InitialRent(args) = Overhead + (MintSize(E) + MetadataSize(names, request))
    BY <1>5 DEF InitialRent, MinimumBalance, E
  <2> HIDE DEF md, names, request
  <2>4. FieldsLen(new) <= FieldsLen(request) /\ FieldsLen(new) \in Nat
    BY <2>1, FirstFields, NoLongerThanAsked, LensAt
  <2> HIDE DEF new
  <2>5. /\ MetadataSize(names, request) = 84 + names + FieldsLen(request)
        /\ FieldsLen(request) \in Nat
    BY <2>1, MetadataSizeType
  <2>6. KeptSize(md) = 84 + names + FieldsLen(new)
    BY <2>1, <2>2, <2>4 DEF KeptSize
  <2> QED
    BY <1>2, <1>3, <2>1, <2>3, <2>4, <2>5, <2>6 DEF RentHeld, MinimumBalance, md
<1> QED
  BY <1>4, <1>5

LEMMA UpdateRentEnough ==
  ASSUME MintInv, MintTypes, NEW c \in Creators, NEW names \in NameLens, NEW request \in Requests,
         CanUpdateMetadata(c, request), Unremovable(metadata.fields) \subseteq KeysIn(request)
  PROVE  RentHeld(mint, MetadataUpdated(names, request), lamports + Charge(names, request))
<1> DEFINE old == metadata.fields
           md == MetadataUpdated(names, request)
           size == MintSize(ExtensionsOf(mint))
<1>1. mint.exists /\ metadata.exists
  BY DEF CanUpdateMetadata
<1>2. /\ old \in Seq(Fields) /\ DistinctKeys(old) /\ request \in Seq(Fields)
      /\ md.exists /\ md.names = names
      /\ md.fields = FieldsUpdated(ObsoleteRemoved(old, request), request)
  BY <1>1, UpdatedTypes
<1>3. size \in Nat /\ Overhead \in Nat /\ names \in Nat
  BY MintSizeType, MintAssumption
<1>4. SizeOf(mint, metadata) = size + KeptSize(metadata) /\ SizeOf(mint, md) = size + KeptSize(md)
  BY DEF SizeOf
<1>5. lamports \in Nat /\ lamports >= Overhead + (size + KeptSize(metadata))
  BY <1>1, <1>4 DEF MintTypes, RentHeld, MinimumBalance
<1>6. KeptSize(metadata) \in Nat
  BY KeptSizeType DEF MintTypes
<1> DEFINE new == md.fields
<1> HIDE DEF md, size, old
<1>7. FieldsLen(new) <= FieldsLen(request) /\ FieldsLen(new) \in Nat
  <2>1. /\ new \in Seq(Fields)
        /\ DistinctKeys(new)
        /\ KeysIn(new) = KeysIn(request) \cup Unremovable(old)
        /\ \A p \in 1 .. Len(new) :
             \/ AskedLast(request, Len(request), new[p])
             \/ ~HasKey(request, new[p].key)
    BY <1>2, UpdatedAsRequested
  <2> HIDE DEF new
  <2>2. \A p \in 1 .. Len(new) : HasKey(request, new[p].key)
    <3>1. KeysIn(new) \subseteq KeysIn(request)
      BY <2>1 DEF old
    <3>2. \A p \in 1 .. Len(new) : new[p].key \in KeysIn(new)
      BY <2>1, FieldAt DEF HasKey
    <3> QED
      BY <1>2, <3>1, <3>2, FieldAt
  <2>3. \A p \in 1 .. Len(new) : \E j \in 1 .. Len(request) : request[j] = new[p]
    BY <2>1, <2>2 DEF AskedLast
  <2> QED
    BY <1>2, <2>1, <2>3, NoLongerThanAsked, LensAt
<1>8. KeptSize(md) = 84 + names + FieldsLen(new)
  BY <1>2, <1>3, <1>7 DEF KeptSize
<1>9. /\ MetadataSize(names, request) = 84 + names + FieldsLen(request)
      /\ FieldsLen(request) \in Nat
  BY <1>2, <1>3, MetadataSizeType
<1> HIDE DEF new
<1>10. Charge(names, request) =
         IF MetadataSize(names, request) > KeptSize(metadata)
           THEN Overhead + (MetadataSize(names, request) - KeptSize(metadata)) ELSE 0
  BY DEF Charge, MinimumBalance
<1>11. lamports + Charge(names, request) >= Overhead + (size + KeptSize(md))
  BY <1>3, <1>5, <1>6, <1>7, <1>8, <1>9, <1>10
<1> QED
  BY <1>4, <1>11 DEF RentHeld, MinimumBalance, md

(* Rent stops no instruction the handlers accept: what initialize_mint pays *)
(* is enough for what Token-2022 makes of its arguments, and what an update *)
(* adds to what has been paid is enough for what it leaves, as long as it   *)
(* asks again for the fields it cannot remove.                              *)
THEOREM RentStopsNothing == MintSpec => []RentNeverStops
<1>1. MintFacts => RentNeverStops
  BY InitialRentEnough, UpdateRentEnough DEF MintFacts, RentNeverStops
<1> QED
  BY <1>1, MintInitFacts, MintStepFacts, PTL DEF MintSpec
=============================================================================
