------------------------- MODULE DistributionProofs -------------------------
(***************************************************************************)
(* Proofs about Distribution, for any distributions over complete trees,   *)
(* any holders, proofs and amounts.                                        *)
(*                                                                         *)
(* A claim is for the one leaf that its proof, its root and its index say  *)
(* (DataProofs: what verify_merkle_proof accepts is a member), and its     *)
(* receipt is the one of that leaf.  So every receipt stands for one       *)
(* settlement of one leaf, and every escrow lacks of its funding at most   *)
(* what its own leaves that are settled inside are due.                    *)
(***************************************************************************)
EXTENDS Distribution, CorporateActionsProofs

ProofsAreLists == proofs \in [TokenAccounts \X ActionIds -> Seq(NodeArgs)]

SettledInv == ProofsAreLists /\ SettledOncePerReceipt

-----------------------------------------------------------------------------
LEMMA SettledInitInvariant == DistInit => SettledInv
BY DEF DistInit, SettledInv, ProofsAreLists, NoProof, SettledOncePerReceipt

(* The proof a claim works with is a list of nodes.                         *)
LEMMA GivenProofIsList ==
  ASSUME ProofsAreLists, NEW a \in TokenAccounts, NEW i \in ActionIds,
         NEW p \in ProofArgs \cup {NoProof}
  PROVE  GivenProof(a, i, p) \in Seq(NodeArgs)
BY ProofArgsAssumption DEF GivenProof, ProofsAreLists, NoProof

(* Writing a Proof account node by node keeps it a list.                    *)
LEMMA CreateKeepsLists ==
  ASSUME ProofsAreLists, NEW a \in TokenAccounts, NEW i \in ActionIds, NEW p \in ProofArgs,
         CreateProofAccount(a, i, p)
  PROVE  ProofsAreLists'
<1>1. proofs' = [proofs EXCEPT ![<<a, i>>] = p] /\ p \in Seq(NodeArgs)
  BY ProofArgsAssumption DEF CreateProofAccount
<1> QED
  BY <1>1 DEF ProofsAreLists

LEMMA UpdateKeepsLists ==
  ASSUME ProofsAreLists, NEW a \in TokenAccounts, NEW i \in ActionIds,
         NEW o \in 0 .. MaxLevels, NEW n \in ProofNodes, UpdateProofAccount(a, i, o, n)
  PROVE  ProofsAreLists'
<1> DEFINE proof == proofs[<<a, i>>]
           new   == WithNode(proof, o, n)
<1>1. /\ proofs' = [proofs EXCEPT ![<<a, i>>] = new]
      /\ o <= Len(proof)
  BY DEF UpdateProofAccount
<1>2. proof \in Seq(NodeArgs) /\ n \in NodeArgs /\ o \in Nat
  BY LevelsAssumption DEF ProofsAreLists, NodeArgs
<1>3. new \in Seq(NodeArgs)
  <2>1. CASE o = Len(proof)
    BY <2>1, <1>2 DEF WithNode
  <2>2. CASE o # Len(proof)
    <3>1. new = [proof EXCEPT ![o + 1] = n]
      BY <2>2 DEF WithNode
    <3>2. /\ Len(proof) \in Nat
          /\ proof \in [1 .. Len(proof) -> NodeArgs]
      BY <1>2
    <3>3. new \in [1 .. Len(proof) -> NodeArgs]
      BY <3>1, <3>2, <1>2
    <3> QED
      BY <3>2, <3>3
  <2> QED
    BY <2>1, <2>2
<1> HIDE DEF new
<1> QED
  BY <1>1, <1>3 DEF ProofsAreLists

-----------------------------------------------------------------------------
(* The leaves of a distribution, as the tree has them *)
LEMMA LeavesTyped ==
  ASSUME NEW d \in Distributions
  PROVE  /\ d.mint \in Mints /\ d.action \in ActionIds
         /\ d.leaves \in Seq([account : TokenAccounts, amount : 0 .. MaxU64])
         /\ Len(d.leaves) \in Nat
<1>1. d \in [mint : Mints, action : ActionIds,
             leaves : Seq([account : TokenAccounts, amount : 0 .. MaxU64])]
  BY EscrowsAssumption
<1> DEFINE R == [account : TokenAccounts, amount : 0 .. MaxU64]
<1> HIDE DEF R
<1>2. d.mint \in Mints /\ d.action \in ActionIds /\ d.leaves \in Seq(R)
  BY <1>1 DEF R
<1>3. Len(d.leaves) \in Nat
  BY <1>2
<1> QED
  BY <1>2, <1>3 DEF R

LEMMA NodesTyped ==
  ASSUME NEW d \in Distributions
  PROVE  \E S : /\ NodesOf(d) \in Seq(S)
                /\ \A x \in S : IsLeaf(x)
                /\ Len(NodesOf(d)) = Len(d.leaves)
                /\ IsComplete(NodesOf(d))
<1> DEFINE n == Len(d.leaves)
           node(i) == LeafNode(d.leaves[i].account, d.mint, d.action, d.leaves[i].amount)
           S == {node(i) : i \in 1 .. n}
<1>1. n \in Nat
  BY LeavesTyped
<1>2. NodesOf(d) = [i \in 1 .. n |-> node(i)]
  BY DEF NodesOf
<1>3. \A x \in S : IsLeaf(x)
  BY LeafNodeIsLeaf
<1>4. IsComplete(d.leaves)
  BY RootsAssumption
<1> HIDE DEF node
<1>5. NodesOf(d) \in [1 .. n -> S]
  BY <1>2
<1> HIDE DEF S
<1>6. NodesOf(d) \in Seq(S) /\ Len(NodesOf(d)) = n
  BY <1>1, <1>5
<1>7. IsComplete(NodesOf(d))
  BY <1>4, <1>6 DEF IsComplete
<1> QED
  BY <1>3, <1>6, <1>7

LEMMA OnlyMembersAccepted ==
  ASSUME NEW d \in Distributions, NEW account, NEW amount, NEW index \in LeafIndexes,
         NEW proof \in Seq(NodeArgs) \ {NoProof},
         VerifyMerkleProof(LeafNode(account, d.mint, d.action, amount), RootOf[d], proof, index)
  PROVE  /\ <<d, index>> \in LeafIds
         /\ LeafAt(<<d, index>>) = [account |-> account, amount |-> amount]
         /\ proof = ProofOf(NodesOf(d), index)
<1> DEFINE nodes == NodesOf(d)
           node == LeafNode(account, d.mint, d.action, amount)
<1>1. PICK S : /\ nodes \in Seq(S)
               /\ \A x \in S : IsLeaf(x)
               /\ Len(nodes) = Len(d.leaves)
               /\ IsComplete(nodes)
  BY NodesTyped
<1>2. IsLeaf(node) /\ index \in Nat /\ proof # << >>
  BY LeafNodeIsLeaf, ProofArgsAssumption DEF NoProof
<1>3. VerifyMerkleProof(node, TreeRoot(nodes), proof, index)
  BY DEF RootOf
<1> HIDE DEF nodes, node
<1>4. index < Len(nodes) /\ node = nodes[index + 1] /\ proof = ProofOf(nodes, index)
  BY <1>1, <1>2, <1>3, AcceptedIsMember
<1>5. index + 1 \in 1 .. Len(d.leaves) /\ index \in 0 .. Len(d.leaves) - 1
  BY <1>1, <1>2, <1>4, LeavesTyped
<1> DEFINE leaf == d.leaves[index + 1]
<1>6. nodes[index + 1] = LeafNode(leaf.account, d.mint, d.action, leaf.amount)
  BY <1>5 DEF nodes, NodesOf
<1>7. leaf.account = account /\ leaf.amount = amount
  BY <1>4, <1>6 DEF node, LeafNode
<1>8. leaf \in [account : TokenAccounts, amount : 0 .. MaxU64]
  <2> DEFINE R == [account : TokenAccounts, amount : 0 .. MaxU64]
  <2>1. d.leaves \in Seq(R)
    BY LeavesTyped
  <2> HIDE DEF R
  <2>2. leaf \in R
    BY <1>5, <2>1
  <2> QED
    BY <2>2 DEF R
<1>9. leaf = [account |-> account, amount |-> amount]
  BY <1>7, <1>8
<1>10. <<d, index>> \in LeafIds
  BY <1>5 DEF LeafIds
<1> QED
  BY <1>4, <1>9, <1>10 DEF LeafAt, nodes

LeafOf(leaf, key, amount, claimed) ==
  /\ leaf \in LeafIds
  /\ LeafAmount[leaf] = amount
  /\ LeafKey[leaf] = key
  /\ claimed = {leaf}

(* A claim that is accepted settles one leaf, the one its receipt is for.   *)
LEMMA OneLeafClaimed ==
  ASSUME NEW d \in Distributions, NEW account \in TokenAccounts,
         NEW amount \in Amounts, NEW index \in LeafIndexes,
         NEW proof \in Seq(NodeArgs) \ {NoProof},
         VerifyMerkleProof(LeafNode(account, d.mint, d.action, amount), RootOf[d], proof, index)
  PROVE  LeafOf(<<d, index>>, ClaimKey(d.mint, account, d.action, proof), amount,
                LeavesClaimed(account, d.mint, d.action, RootOf[d], amount, index))
<1> DEFINE leaf == <<d, index>>
<1>1. /\ leaf \in LeafIds
      /\ LeafAt(leaf) = [account |-> account, amount |-> amount]
      /\ proof = ProofOf(NodesOf(d), index)
  BY OnlyMembersAccepted
<1>2. leaf[1] = d /\ leaf[2] = index
  OBVIOUS
<1>3. LeafAt(leaf).account = account /\ LeafAmount[leaf] = amount
  BY <1>1 DEF LeafAmount
<1>4. LeafKey[leaf] = ClaimKey(d.mint, account, d.action, proof)
  BY <1>1, <1>2, <1>3 DEF LeafKey
<1>5. ASSUME NEW id \in LeafIds,
             id \in LeavesClaimed(account, d.mint, d.action, RootOf[d], amount, index)
      PROVE  id = leaf
  <2>1. /\ id[1] \in Distributions
        /\ id = <<id[1], id[2]>>
    BY DEF LeafIds
  <2>2. id[1].mint = d.mint /\ id[1].action = d.action /\ RootOf[id[1]] = RootOf[d] /\ id[2] = index
    BY <1>5 DEF LeavesClaimed
  <2> QED
    BY <2>1, <2>2, RootsAssumption
<1>6. leaf \in LeavesClaimed(account, d.mint, d.action, RootOf[d], amount, index)
  BY <1>1, <1>2 DEF LeavesClaimed
<1>7. LeavesClaimed(account, d.mint, d.action, RootOf[d], amount, index) = {leaf}
  <2>1. LeavesClaimed(account, d.mint, d.action, RootOf[d], amount, index) \subseteq LeafIds
    BY DEF LeavesClaimed
  <2> QED
    BY <1>5, <1>6, <2>1
<1> QED
  BY <1>1, <1>3, <1>4, <1>7 DEF LeafOf

Settles(leaf, key, amount, how) ==
  /\ leaf \in LeafIds /\ LeafKey[leaf] = key /\ LeafAmount[leaf] = amount
  /\ key \notin claimReceipts
  /\ claimReceipts' = claimReceipts \cup {key}
  /\ settled[leaf] = << >>
  /\ settled'[leaf] = <<how>>
  /\ \A id \in LeafIds : id # leaf => settled'[id] = settled[id]
  /\ settled' = [id \in LeafIds |-> settled'[id]]

How(internal) == IF internal THEN "Internal" ELSE "External"

LEMMA ClaimSettles ==
  ASSUME SettledInv, NEW a \in TokenAccounts, NEW d \in Distributions,
         NEW n \in Amounts, NEW x \in LeafIndexes, NEW p \in ProofArgs \cup {NoProof},
         NEW internal \in BOOLEAN,
         ClaimDistribution(a, d.mint, d.action, RootOf[d], n, x, p, internal)
  PROVE  Settles(<<d, x>>, ClaimKey(d.mint, a, d.action, GivenProof(a, d.action, p)), n,
                 How(internal))
<1> DEFINE proof == GivenProof(a, d.action, p)
           key   == ClaimKey(d.mint, a, d.action, proof)
           how   == How(internal)
           leaf  == <<d, x>>
           claimed == LeavesClaimed(a, d.mint, d.action, RootOf[d], n, x)
<1>1. /\ proof # NoProof
      /\ key \notin claimReceipts
      /\ VerifyMerkleProof(LeafNode(a, d.mint, d.action, n), RootOf[d], proof, x)
      /\ claimReceipts' = claimReceipts \cup {key}
      /\ settled' = [id \in LeafIds |->
                       IF id \in claimed THEN Append(settled[id], how) ELSE settled[id]]
  BY DEF ClaimDistribution, ClaimReceipt, How
<1>2. proof \in Seq(NodeArgs)
  BY GivenProofIsList, LeavesTyped DEF SettledInv
<1> HIDE DEF proof
<1>3. LeafOf(leaf, key, n, claimed)
  BY <1>1, <1>2, OneLeafClaimed
<1> HIDE DEF key, how, leaf, claimed
<1>4. leaf \in LeafIds /\ LeafKey[leaf] = key /\ LeafAmount[leaf] = n /\ claimed = {leaf}
  BY <1>3 DEF LeafOf
<1>5. settled[leaf] = << >>
  BY <1>1, <1>4 DEF SettledInv, SettledOncePerReceipt
<1>6. Append(<< >>, how) = <<how>>
  OBVIOUS
<1>7. Settles(leaf, key, n, how)
  BY <1>1, <1>4, <1>5, <1>6 DEF Settles
<1> QED
  BY <1>7 DEF leaf, key, proof, how

LEMMA ClaimKeepsSettled ==
  ASSUME SettledInv, NEW a \in TokenAccounts, NEW d \in Distributions,
         NEW n \in Amounts, NEW x \in LeafIndexes, NEW p \in ProofArgs \cup {NoProof},
         NEW internal \in BOOLEAN,
         ClaimDistribution(a, d.mint, d.action, RootOf[d], n, x, p, internal)
  PROVE  SettledInv'
<1> DEFINE key  == ClaimKey(d.mint, a, d.action, GivenProof(a, d.action, p))
           how  == How(internal)
           leaf == <<d, x>>
<1>1. claimReceipts' = claimReceipts \cup {key} /\ key \notin claimReceipts /\ proofs' = proofs
  BY DEF ClaimDistribution, ClaimReceipt
<1>2. Settles(leaf, key, n, how)
  BY ClaimSettles
<1> HIDE DEF key, how, leaf
<1>3. leaf \in LeafIds /\ LeafKey[leaf] = key
  BY <1>2 DEF Settles
<1>4. /\ settled'[leaf] = <<how>>
      /\ \A id \in LeafIds : id # leaf => settled'[id] = settled[id]
  BY <1>2 DEF Settles
<1>5. ASSUME NEW id \in LeafIds, LeafKey[id] \notin claimReceipts'
      PROVE  settled'[id] = << >>
  <2>1. id # leaf /\ LeafKey[id] \notin claimReceipts
    BY <1>5, <1>1, <1>3
  <2> QED
    BY <2>1, <1>4 DEF SettledInv, SettledOncePerReceipt
<1>6. ASSUME NEW k \in claimReceipts'
      PROVE  \E id \in LeavesOf(k) :
               /\ Len(settled'[id]) = 1
               /\ \A other \in LeavesOf(k) \ {id} : settled'[other] = << >>
  <2>1. CASE k = key
    <3>1. leaf \in LeavesOf(k) /\ Len(settled'[leaf]) = 1
      BY <2>1, <1>3, <1>4 DEF LeavesOf
    <3>2. \A other \in LeavesOf(k) \ {leaf} : settled'[other] = << >>
      BY <2>1, <1>1, <1>4 DEF LeavesOf, SettledInv, SettledOncePerReceipt
    <3> QED
      BY <3>1, <3>2
  <2>2. CASE k # key
    <3>1. k \in claimReceipts
      BY <2>2, <1>1
    <3>2. \A id \in LeavesOf(k) : settled'[id] = settled[id]
      BY <2>2, <1>3, <1>4 DEF LeavesOf
    <3> QED
      BY <3>1, <3>2 DEF SettledInv, SettledOncePerReceipt
  <2> QED
    BY <2>1, <2>2
<1>7. SettledOncePerReceipt'
  BY <1>5, <1>6 DEF SettledOncePerReceipt, LeavesOf
<1> QED
  BY <1>1, <1>7 DEF SettledInv, ProofsAreLists

(* A close frees the receipt's address and every leaf that leads to it.     *)
LEMMA CloseKeepsSettled ==
  ASSUME SettledInv, NEW a \in TokenAccounts, NEW m \in Mints, NEW i \in ActionIds,
         NEW p \in ProofArgs \cup {NoProof}, CloseClaimReceiptAccount(a, m, i, p)
  PROVE  SettledInv'
<1> DEFINE key == ClaimKey(m, a, i, GivenProof(a, i, p))
<1>1. /\ claimReceipts' = claimReceipts \ {key}
      /\ settled' = [id \in LeafIds |-> IF LeafKey[id] = key THEN << >> ELSE settled[id]]
      /\ proofs' = proofs
  BY DEF CloseClaimReceiptAccount
<1> HIDE DEF key
<1>2. \A id \in LeafIds : LeafKey[id] \notin claimReceipts' => settled'[id] = << >>
  BY <1>1 DEF SettledInv, SettledOncePerReceipt
<1>3. ASSUME NEW k \in claimReceipts'
      PROVE  \E id \in LeavesOf(k) :
               /\ Len(settled'[id]) = 1
               /\ \A other \in LeavesOf(k) \ {id} : settled'[other] = << >>
  <2>1. k \in claimReceipts /\ k # key
    BY <1>1
  <2>2. \A id \in LeavesOf(k) : settled'[id] = settled[id]
    BY <2>1, <1>1 DEF LeavesOf
  <2> QED
    BY <2>1, <2>2 DEF SettledInv, SettledOncePerReceipt
<1>4. SettledOncePerReceipt'
  BY <1>2, <1>3 DEF SettledOncePerReceipt, LeavesOf
<1> QED
  BY <1>1, <1>4 DEF SettledInv, ProofsAreLists

-----------------------------------------------------------------------------
(* Nothing else touches receipts or settlements. *)
LEMMA SettledStepPreserves ==
  SettledInv /\ [DistNext]_distVars => SettledInv'
<1> SUFFICES ASSUME SettledInv, [DistNext]_distVars PROVE SettledInv'
  OBVIOUS
<1>1. ASSUME claimReceipts' = claimReceipts, settled' = settled, ProofsAreLists'
      PROVE  SettledInv'
  BY <1>1 DEF SettledInv, SettledOncePerReceipt, LeavesOf
<1>2. ASSUME claimReceipts' = claimReceipts, settled' = settled, proofs' = proofs
      PROVE  SettledInv'
  BY <1>1, <1>2 DEF SettledInv, ProofsAreLists
<1>3. CASE TokenOperation
  BY <1>2, <1>3 DEF TokenOperation
<1>4. ASSUME NEW a \in TokenAccounts, NEW i \in ActionIds, NEW p \in ProofArgs,
             CreateProofAccount(a, i, p)
      PROVE  SettledInv'
  BY <1>1, <1>4, CreateKeepsLists DEF CreateProofAccount, SettledInv
<1>5. ASSUME NEW a \in TokenAccounts, NEW i \in ActionIds, NEW o \in 0 .. MaxLevels,
             NEW n \in ProofNodes, UpdateProofAccount(a, i, o, n)
      PROVE  SettledInv'
  BY <1>1, <1>5, UpdateKeepsLists DEF UpdateProofAccount, SettledInv
<1>6. ASSUME NEW d \in Distributions, CreateDistributionEscrow(d) PROVE SettledInv'
  BY <1>2, <1>6 DEF CreateDistributionEscrow
<1>7. CASE UNCHANGED distVars
  BY <1>2, <1>7 DEF distVars, claimVars
<1>8. CASE DistNext
  BY <1>3, <1>4, <1>5, <1>6, <1>8, ClaimKeepsSettled, CloseKeepsSettled DEF DistNext
<1> QED
  BY <1>7, <1>8

(* However a holder claims - inside or outside, with the proof in hand or   *)
(* from an account, under either of two distributions of an action - one    *)
(* receipt stands for one settlement of one leaf until it is closed         *)
(* (execute_claim_distribution, execute_close_claim_receipt_account).       *)
THEOREM SettledOnceAlways == DistSpec => []SettledOncePerReceipt
<1>1. SettledInv => SettledOncePerReceipt
  BY DEF SettledInv
<1> QED
  BY <1>1, SettledInitInvariant, SettledStepPreserves, PTL DEF DistSpec

-----------------------------------------------------------------------------
(***************************************************************************)
(* Types, and the escrows.  EscrowCoversUnsettled follows from EscrowInv:  *)
(* an escrow lacks of its funding at most what the leaves settled inside   *)
(* are due.  A claim pays from the escrow of its own root, and settles a   *)
(* leaf of that tree that was not settled; closing a receipt writes off    *)
(* the amount that was paid under it.                                      *)
(***************************************************************************)
PaidLeaves(d) == {id \in LeafIds : id[1] = d /\ settled[id] = <<"Internal">>}

EscrowInv ==
  \A d \in Distributions : balance[EscrowOf[d]] >= funding[d] - TotalOf(PaidLeaves(d))

ProofsUsable ==
  \A k \in TokenAccounts \X ActionIds :
    Len(proofs[k]) <= MaxLevels /\ ZeroNode \notin Range(proofs[k])

ClaimReceiptsTyped ==
  \A key \in claimReceipts :
    /\ key[1] \in Mints /\ key[2] \in TokenAccounts /\ key[3] \in ActionIds
    /\ Len(key[4]) \in 1 .. MaxLevels

HistoriesTyped ==
  /\ settled \in [LeafIds -> {<< >>, <<"Internal">>, <<"External">>}]
  /\ funding \in [Distributions -> Int]

DistInv ==
  /\ CorporateInv
  /\ SettledInv
  /\ escrows \subseteq Distributions
  /\ ProofsUsable /\ ClaimReceiptsTyped /\ HistoriesTyped
  /\ EscrowInv

LEMMA LeavesOfOneFinite ==
  ASSUME NEW d \in Distributions, NEW ids \in SUBSET {id \in LeafIds : id[1] = d}
  PROVE  /\ IsFiniteSet(ids)
         /\ \A id \in ids : LeafAmount[id] \in Nat
<1> DEFINE S == {d} \X (0 .. Len(d.leaves) - 1)
<1>1. Len(d.leaves) \in Nat
  BY LeavesTyped
<1>2. IsFiniteSet(S)
  <2>1. 0 \in Int /\ Len(d.leaves) - 1 \in Int
    BY <1>1
  <2>2. IsFiniteSet(0 .. Len(d.leaves) - 1)
    BY <2>1, FS_Interval
  <2>3. IsFiniteSet({d})
    BY FS_Singleton
  <2> QED
    BY <2>2, <2>3, FS_Product
<1>3. ids \subseteq S
  BY DEF LeafIds
<1>4. ASSUME NEW id \in ids
      PROVE  LeafAmount[id] \in Nat
  <2>1. id \in LeafIds /\ id[1] = d /\ id[2] \in 0 .. Len(d.leaves) - 1
    BY <1>3
  <2>2. id[2] + 1 \in 1 .. Len(d.leaves)
    BY <1>1, <2>1
  <2> DEFINE R == [account : TokenAccounts, amount : 0 .. MaxU64]
  <2>3. d.leaves \in Seq(R)
    BY LeavesTyped
  <2> HIDE DEF R
  <2>4. d.leaves[id[2] + 1] \in R
    BY <2>2, <2>3
  <2>5. d.leaves[id[2] + 1].amount \in Nat
    BY <2>4, WidthAssumption DEF R
  <2> QED
    BY <2>1, <2>5 DEF LeafAmount, LeafAt
<1> QED
  BY <1>2, <1>3, <1>4, FS_Subset

LEMMA TotalTyped ==
  ASSUME NEW d \in Distributions, NEW ids \in SUBSET {id \in LeafIds : id[1] = d}
  PROVE  TotalOf(ids) \in Nat
BY LeavesOfOneFinite, SumNat DEF TotalOf

(* What is paid and what is not yet due from the escrow is all that was. *)
LEMMA TotalSplits ==
  ASSUME NEW d \in Distributions, NEW ids \in SUBSET {id \in LeafIds : id[1] = d},
         NEW part \in SUBSET ids
  PROVE  TotalOf(ids) = TotalOf(part) + TotalOf(ids \ part)
<1>1. IsFiniteSet(ids) /\ \A id \in ids : LeafAmount[id] \in Nat
  BY LeavesOfOneFinite
<1>2. \A id \in ids : LeafAmount[id] \in Int
  BY <1>1
<1> QED
  BY <1>1, <1>2, SumDisjoint DEF TotalOf

LEMMA InvariantCovers == DistInv => EscrowCoversUnsettled
<1> SUFFICES ASSUME DistInv PROVE EscrowCoversUnsettled
  OBVIOUS
<1> SUFFICES ASSUME NEW d \in Distributions,
                    funding[d] >= TotalOf({id \in LeafIds : id[1] = d})
             PROVE  balance[EscrowOf[d]] >=
                      TotalOf({id \in {i \in LeafIds : i[1] = d} : LeafKey[id] \notin claimReceipts})
  BY DEF EscrowCoversUnsettled
<1> DEFINE ids == {id \in LeafIds : id[1] = d}
           open == {id \in ids : LeafKey[id] \notin claimReceipts}
           paid == PaidLeaves(d)
           rest == ids \ paid
<1>1. paid \in SUBSET ids /\ rest \in SUBSET ids /\ open \in SUBSET rest
  <2>1. << >> # <<"Internal">>
    OBVIOUS
  <2>2. \A id \in open : settled[id] = << >>
    BY DEF DistInv, SettledInv, SettledOncePerReceipt
  <2>3. paid \subseteq ids /\ \A id \in open : id \notin paid
    BY <2>1, <2>2 DEF PaidLeaves
  <2> QED
    BY <2>3
<1>2. /\ balance[EscrowOf[d]] >= funding[d] - TotalOf(paid)
      /\ funding[d] \in Int /\ balance[EscrowOf[d]] \in Nat
  <2>1. EscrowOf[d] \in TokenAccounts /\ balance \in [TokenAccounts -> 0 .. MaxU64]
    BY EscrowsAssumption DEF DistInv, CorporateInv, HoldingsInv, Holdings
  <2> QED
    BY <2>1, WidthAssumption DEF DistInv, EscrowInv, HistoriesTyped
<1>3. ids \in SUBSET {id \in LeafIds : id[1] = d}
  OBVIOUS
<1> HIDE DEF ids, open, paid, rest
<1>4. rest \in SUBSET {id \in LeafIds : id[1] = d} /\ open \in SUBSET {id \in LeafIds : id[1] = d}
      /\ rest \ open \in SUBSET {id \in LeafIds : id[1] = d}
      /\ paid \in SUBSET {id \in LeafIds : id[1] = d}
  BY <1>1, <1>3
<1>5. TotalOf(ids) = TotalOf(paid) + TotalOf(rest)
  BY <1>1, <1>3, TotalSplits DEF rest
<1>6. TotalOf(rest) = TotalOf(open) + TotalOf(rest \ open)
  BY <1>1, <1>4, TotalSplits
<1>7. /\ TotalOf(paid) \in Nat /\ TotalOf(rest) \in Nat /\ TotalOf(open) \in Nat
      /\ TotalOf(rest \ open) \in Nat /\ TotalOf(ids) \in Nat
  BY <1>3, <1>4, TotalTyped
<1>8. funding[d] >= TotalOf(ids)
  BY DEF ids
<1>9. balance[EscrowOf[d]] >= TotalOf(open)
  BY <1>2, <1>5, <1>6, <1>7, <1>8
<1> QED
  BY <1>9 DEF open, ids

-----------------------------------------------------------------------------
LEMMA DistInitInvariant == DistInit => DistInv
<1> SUFFICES ASSUME DistInit PROVE DistInv
  OBVIOUS
<1>1. CorporateInv /\ SettledInv
  BY CorporateInit, SettledInitInvariant DEF DistInit
<1>2. ProofsUsable /\ ClaimReceiptsTyped
  <2>1. Len(<< >>) = 0 /\ Range(<< >>) = {}
    BY DEF Range
  <2> QED
    BY <2>1, LevelsAssumption DEF DistInit, ProofsUsable, ClaimReceiptsTyped, NoProof
<1>3. HistoriesTyped /\ escrows \subseteq Distributions
  BY DEF DistInit, HistoriesTyped
<1>4. EscrowInv
  <2> SUFFICES ASSUME NEW d \in Distributions
               PROVE  balance[EscrowOf[d]] >= funding[d] - TotalOf(PaidLeaves(d))
    BY DEF EscrowInv
  <2>1. PaidLeaves(d) \in SUBSET {id \in LeafIds : id[1] = d}
    BY DEF PaidLeaves
  <2>2. TotalOf(PaidLeaves(d)) \in Nat
    BY <2>1, TotalTyped
  <2>3. balance[EscrowOf[d]] = 0 /\ funding[d] = 0
    BY EscrowsAssumption DEF DistInit, Init
  <2> QED
    BY <2>2, <2>3
<1> QED
  BY <1>1, <1>2, <1>3, <1>4 DEF DistInv

(* Balances, and what they are of distributions, in any state *)
LEMMA BalancesTyped ==
  ASSUME DistInv
  PROVE  /\ balance \in [TokenAccounts -> Nat]
         /\ \A d \in Distributions :
              /\ EscrowOf[d] \in TokenAccounts /\ balance[EscrowOf[d]] \in Nat
              /\ funding[d] \in Int
              /\ TotalOf(PaidLeaves(d)) \in Nat
<1>1. balance \in [TokenAccounts -> Nat]
  BY WidthAssumption DEF DistInv, CorporateInv, HoldingsInv, Holdings
<1>2. ASSUME NEW d \in Distributions
      PROVE  TotalOf(PaidLeaves(d)) \in Nat
  <2>1. PaidLeaves(d) \in SUBSET {id \in LeafIds : id[1] = d}
    BY DEF PaidLeaves
  <2> QED
    BY <2>1, TotalTyped
<1> QED
  BY <1>1, <1>2, EscrowsAssumption DEF DistInv, HistoriesTyped

(* Steps that touch neither tokens, settlements nor funding *)
LEMMA EscrowFrame ==
  ASSUME DistInv, UNCHANGED <<balance, settled, funding>>
  PROVE  EscrowInv'
BY DEF DistInv, EscrowInv, PaidLeaves, TotalOf

LEMMA CorporateFrame ==
  ASSUME CorporateInv, UNCHANGED vars
  PROVE  CorporateInv'
BY CorporateStep

(* What an issuer or a holder does with tokens otherwise is its funding. *)
LEMMA TokenOperationKeeps ==
  ASSUME DistInv, TokenOperation
  PROVE  CorporateInv' /\ EscrowInv' /\ HistoriesTyped'
<1>1. CorporateInv'
  <2>1. Usable \subseteq TokenAccounts
    BY DEF Usable
  <2>2. CASE \E a \in Usable, n \in Amounts : Mint(a, n) \/ Burn(a, n)
    BY <2>1, <2>2, CorporateStep DEF Next, DistInv
  <2>3. CASE \E a, b \in Usable, n \in Amounts : Transfer(a, b, n)
    BY <2>1, <2>3, CorporateStep DEF Next, DistInv
  <2>4. CASE \E m \in Mints : Pause(m) \/ Resume(m)
    BY <2>4, CorporateStep DEF Next, DistInv
  <2>5. CASE \E a \in Usable : Freeze(a) \/ Thaw(a)
    BY <2>1, <2>5, CorporateStep DEF Next, DistInv
  <2> QED
    BY <2>2, <2>3, <2>4, <2>5 DEF TokenOperation
<1>2. balance' \in [TokenAccounts -> Nat]
  BY <1>1, WidthAssumption DEF CorporateInv, HoldingsInv, Holdings
<1>3. /\ funding' = [d \in Distributions |->
                       funding[d] + balance'[EscrowOf[d]] - balance[EscrowOf[d]]]
      /\ settled' = settled
  BY DEF TokenOperation
<1>4. HistoriesTyped'
  BY <1>2, <1>3, BalancesTyped, EscrowsAssumption DEF DistInv, HistoriesTyped
<1>5. ASSUME NEW d \in Distributions
      PROVE  balance'[EscrowOf[d]] >= funding'[d] - TotalOf(PaidLeaves(d))
  <2>1. balance[EscrowOf[d]] >= funding[d] - TotalOf(PaidLeaves(d))
    BY DEF DistInv, EscrowInv
  <2>2. balance'[EscrowOf[d]] \in Nat
    BY <1>2, EscrowsAssumption
  <2> QED
    BY <1>3, <2>1, <2>2, BalancesTyped
<1>6. EscrowInv'
  BY <1>3, <1>5 DEF EscrowInv, PaidLeaves, TotalOf
<1> QED
  BY <1>1, <1>4, <1>6

(* A claim inside pays from the escrow of its distribution and no other. *)
LEMMA ClaimPays ==
  ASSUME DistInv, NEW a \in TokenAccounts, NEW d \in Distributions, NEW n \in Amounts,
         \E e \in EscrowsFor(d.mint, d.action, RootOf[d]) : PaidFrom(e, a, n)
  PROVE  /\ Holdings(balance')
         /\ \A e \in Distributions :
              balance'[EscrowOf[e]] >= balance[EscrowOf[e]] - (IF e = d THEN n ELSE 0)
<1>1. PaidFrom(d, a, n)
  BY RootsAssumption DEF EscrowsFor, DistInv
<1> DEFINE escrow == EscrowOf[d]
           taken == Debited(balance, escrow, n)
<1>2. /\ MintOf[a] = MintOf[escrow]
      /\ n <= balance[escrow]
      /\ balance' = Credited(taken, a, n)
  BY <1>1, EscrowsAssumption DEF PaidFrom
<1>3. escrow \in TokenAccounts /\ Holdings(balance) /\ n \in Nat /\ balance \in [TokenAccounts -> Nat]
  BY EscrowsAssumption, HoldingsAssumption, WidthAssumption, BalancesTyped
     DEF DistInv, CorporateInv, HoldingsInv
<1>4. \A e \in Distributions : EscrowOf[e] \in TokenAccounts /\ (EscrowOf[e] = escrow => e = d)
  BY EscrowsAssumption
<1> HIDE DEF escrow
<1>5. Holdings(balance')
  BY <1>2, <1>3, MovedWithin
<1>6. /\ taken \in [TokenAccounts -> Int]
      /\ taken[escrow] = balance[escrow] - n
      /\ \A b \in TokenAccounts : b # escrow => taken[b] = balance[b]
  BY <1>3 DEF Debited
<1> HIDE DEF taken
<1>7. \A b \in TokenAccounts : balance'[b] >= taken[b]
  BY <1>2, <1>3, <1>6 DEF Credited
<1>8. ASSUME NEW e \in Distributions
      PROVE  balance'[EscrowOf[e]] >= balance[EscrowOf[e]] - (IF e = d THEN n ELSE 0)
  <2>1. CASE e = d
    BY <1>3, <1>6, <1>7, <2>1 DEF escrow
  <2>2. CASE e # d
    <3>1. EscrowOf[e] \in TokenAccounts /\ EscrowOf[e] # escrow
      BY <1>4, <2>2
    <3>2. taken[EscrowOf[e]] = balance[EscrowOf[e]] /\ balance[EscrowOf[e]] \in Nat
      BY <1>3, <1>6, <3>1
    <3> QED
      BY <1>7, <2>2, <3>1, <3>2
  <2> QED
    BY <2>1, <2>2
<1> QED
  BY <1>5, <1>8

(* Of the leaves settled inside, a claim adds its own and no other. *)
LEMMA ClaimAddsLeaf ==
  ASSUME DistInv, NEW d \in Distributions, NEW x, NEW key, NEW n \in Nat, NEW internal \in BOOLEAN,
         Settles(<<d, x>>, key, n, How(internal)), NEW e \in Distributions
  PROVE  TotalOf(PaidLeaves(e))' =
           TotalOf(PaidLeaves(e)) + (IF internal /\ e = d THEN n ELSE 0)
<1> DEFINE leaf == <<d, x>>
           old == PaidLeaves(e)
           new == {id \in LeafIds : id[1] = e /\ settled'[id] = <<"Internal">>}
<1>1. /\ leaf \in LeafIds /\ LeafAmount[leaf] = n /\ leaf[1] = d
      /\ settled[leaf] = << >> /\ settled'[leaf] = <<How(internal)>>
      /\ \A id \in LeafIds : id # leaf => settled'[id] = settled[id]
  BY DEF Settles
<1>2. << >> # <<"Internal">> /\ <<"External">> # <<"Internal">>
  OBVIOUS
<1>3. TotalOf(PaidLeaves(e))' = TotalOf(new)
  BY DEF TotalOf, PaidLeaves
<1>4. leaf \notin old
  BY <1>1, <1>2 DEF PaidLeaves
<1>5. TotalOf(old) \in Nat
  BY BalancesTyped
<1>6. CASE internal /\ e = d
  <2>1. leaf \in new /\ new \ {leaf} = old
    <3>1. leaf \in new
      BY <1>1, <1>6 DEF How
    <3>2. \A id \in LeafIds : id # leaf => (id \in new <=> id \in old)
      BY <1>1 DEF PaidLeaves
    <3>3. new \subseteq LeafIds /\ old \subseteq LeafIds
      BY DEF PaidLeaves
    <3> HIDE DEF new, old, leaf
    <3> QED
      BY <1>4, <3>1, <3>2, <3>3
  <2>2. new \in SUBSET {id \in LeafIds : id[1] = e}
    OBVIOUS
  <2>3. IsFiniteSet(new) /\ \A id \in new : LeafAmount[id] \in Int
    <3>1. \A id \in new : LeafAmount[id] \in Nat
      BY <2>2, LeavesOfOneFinite
    <3> QED
      BY <2>2, <3>1, LeavesOfOneFinite
  <2> HIDE DEF new, old, leaf
  <2>4. TotalOf(new) = LeafAmount[leaf] + TotalOf(new \ {leaf})
    BY <2>1, <2>3, SumTake DEF TotalOf
  <2>5. TotalOf(new) = n + TotalOf(old)
    BY <2>1, <2>4, <1>1
  <2> QED
    BY <2>5, <1>3, <1>5, <1>6 DEF old
<1>7. CASE ~(internal /\ e = d)
  <2>1. new = old
    <3>1. leaf \notin new
      BY <1>1, <1>2, <1>7 DEF How
    <3>2. \A id \in LeafIds : id # leaf => (id \in new <=> id \in old)
      BY <1>1 DEF PaidLeaves
    <3>3. new \subseteq LeafIds /\ old \subseteq LeafIds
      BY DEF PaidLeaves
    <3> HIDE DEF new, old, leaf
    <3> QED
      BY <1>4, <3>1, <3>2, <3>3
  <2> HIDE DEF new, old
  <2> QED
    BY <2>1, <1>3, <1>5, <1>7 DEF old
<1> QED
  BY <1>6, <1>7

LEMMA ClaimKeeps ==
  ASSUME DistInv, NEW a \in TokenAccounts, NEW d \in Distributions,
         NEW n \in Amounts, NEW x \in LeafIndexes, NEW p \in ProofArgs \cup {NoProof},
         NEW internal \in BOOLEAN,
         ClaimDistribution(a, d.mint, d.action, RootOf[d], n, x, p, internal)
  PROVE  DistInv'
<1> DEFINE proof == GivenProof(a, d.action, p)
           key   == ClaimKey(d.mint, a, d.action, proof)
<1>1. /\ proof # NoProof
      /\ VerifyMerkleProof(LeafNode(a, d.mint, d.action, n), RootOf[d], proof, x)
      /\ \/ internal /\ \E e \in EscrowsFor(d.mint, d.action, RootOf[d]) : PaidFrom(e, a, n)
         \/ ~internal /\ UNCHANGED balance
      /\ claimReceipts' = claimReceipts \cup {key}
      /\ UNCHANGED <<frozen, paused, rates, receipts, ran, escrows, proofs, funding>>
  BY DEF ClaimDistribution, ClaimReceipt
<1>2. SettledInv /\ SettledInv'
  BY ClaimKeepsSettled DEF DistInv
<1>3. Settles(<<d, x>>, key, n, How(internal))
  BY <1>2, ClaimSettles
<1>4. n \in Nat
  BY HoldingsAssumption, WidthAssumption
<1>5. /\ Holdings(balance')
      /\ \A e \in Distributions :
           balance'[EscrowOf[e]] >= balance[EscrowOf[e]] - (IF internal /\ e = d THEN n ELSE 0)
  <2>1. CASE internal
    <3>1. \E e \in EscrowsFor(d.mint, d.action, RootOf[d]) : PaidFrom(e, a, n)
      BY <1>1, <2>1
    <3> QED
      BY <2>1, <3>1, ClaimPays
  <2>2. CASE ~internal
    <3>1. balance' = balance /\ Holdings(balance)
      BY <1>1, <2>2 DEF DistInv, CorporateInv, HoldingsInv
    <3>2. \A e \in Distributions : balance[EscrowOf[e]] \in Nat
      BY BalancesTyped
    <3> QED
      BY <2>2, <3>1, <3>2
  <2> QED
    BY <2>1, <2>2
<1>6. CorporateInv'
  BY <1>1, <1>5 DEF DistInv, CorporateInv, HoldingsInv, RateInv, ReceiptInv, OnceUntilClosed
<1>7. ClaimReceiptsTyped'
  <2>1. proof \in Seq(NodeArgs) /\ Len(proof) <= MaxLevels
    BY <1>1, <1>2, GivenProofIsList, LeavesTyped DEF SettledInv, VerifyMerkleProof
  <2>2. Len(proof) \in 1 .. MaxLevels
    <3> HIDE DEF proof
    <3>1. Len(proof) \in Nat /\ (Len(proof) = 0 => proof = << >>)
      BY <2>1
    <3> QED
      BY <1>1, <2>1, <3>1, LevelsAssumption DEF NoProof
  <2>3. d.mint \in Mints /\ d.action \in ActionIds
    BY LeavesTyped
  <2>4. /\ key[1] \in Mints /\ key[2] \in TokenAccounts /\ key[3] \in ActionIds
        /\ Len(key[4]) \in 1 .. MaxLevels
    BY <2>2, <2>3 DEF ClaimKey
  <2> HIDE DEF key
  <2> QED
    BY <1>1, <2>4 DEF DistInv, ClaimReceiptsTyped
<1>8. HistoriesTyped'
  <2> DEFINE V == {<< >>, <<"Internal">>, <<"External">>}
  <2>1. <<How(internal)>> \in V
    BY DEF How
  <2>2. \A id \in LeafIds : settled[id] \in V
    BY DEF DistInv, HistoriesTyped
  <2> HIDE DEF V
  <2>3. \A id \in LeafIds : settled'[id] \in V
    BY <1>3, <2>1, <2>2 DEF Settles
  <2>4. settled' = [id \in LeafIds |-> settled'[id]]
    BY <1>3 DEF Settles
  <2>5. settled' \in [LeafIds -> V]
    BY <2>3, <2>4
  <2> QED
    BY <1>1, <2>5 DEF DistInv, HistoriesTyped, V
<1>9. EscrowInv'
  <2> SUFFICES ASSUME NEW e \in Distributions
               PROVE  balance'[EscrowOf[e]] >= funding'[e] - TotalOf(PaidLeaves(e))'
    BY DEF EscrowInv
  <2>1. TotalOf(PaidLeaves(e))' =
          TotalOf(PaidLeaves(e)) + (IF internal /\ e = d THEN n ELSE 0)
    BY <1>3, <1>4, ClaimAddsLeaf
  <2>2. balance[EscrowOf[e]] >= funding[e] - TotalOf(PaidLeaves(e)) /\ funding'[e] = funding[e]
    BY <1>1 DEF DistInv, EscrowInv
  <2>3. balance'[EscrowOf[e]] \in Nat
    BY <1>5, EscrowsAssumption, WidthAssumption DEF Holdings
  <2>4. balance[EscrowOf[e]] \in Nat /\ funding[e] \in Int /\ TotalOf(PaidLeaves(e)) \in Nat
    BY BalancesTyped
  <2>5. balance'[EscrowOf[e]] >= balance[EscrowOf[e]] - (IF internal /\ e = d THEN n ELSE 0)
    BY <1>5
  <2> QED
    BY <1>4, <2>1, <2>2, <2>3, <2>4, <2>5
<1>10. (escrows \subseteq Distributions)' /\ ProofsUsable'
  BY <1>1 DEF DistInv, ProofsUsable
<1> QED
  BY <1>2, <1>6, <1>7, <1>8, <1>9, <1>10 DEF DistInv

(* A close writes off what was paid under the receipt. *)
LEMMA CloseKeeps ==
  ASSUME DistInv, NEW a \in TokenAccounts, NEW m \in Mints, NEW i \in ActionIds,
         NEW p \in ProofArgs \cup {NoProof}, CloseClaimReceiptAccount(a, m, i, p)
  PROVE  DistInv'
<1> DEFINE key == ClaimKey(m, a, i, GivenProof(a, i, p))
           paid(d) == {id \in LeafIds : id[1] = d /\ LeafKey[id] = key /\ settled[id] = <<"Internal">>}
<1>1. /\ claimReceipts' = claimReceipts \ {key}
      /\ settled' = [id \in LeafIds |-> IF LeafKey[id] = key THEN << >> ELSE settled[id]]
      /\ funding' = [d \in Distributions |-> funding[d] - TotalOf(paid(d))]
      /\ UNCHANGED <<vars, escrows, proofs>>
  BY DEF CloseClaimReceiptAccount
<1>2. SettledInv'
  BY CloseKeepsSettled DEF DistInv
<1> HIDE DEF key
<1>3. CorporateInv'
  BY <1>1, CorporateFrame DEF DistInv
<1>4. ASSUME NEW d \in Distributions
      PROVE  /\ TotalOf(paid(d)) \in Nat
             /\ TotalOf(PaidLeaves(d)) = TotalOf(paid(d)) + TotalOf(PaidLeaves(d))'
             /\ TotalOf(PaidLeaves(d))' \in Nat
  <2> DEFINE old == PaidLeaves(d)
             gone == paid(d)
             new == {id \in LeafIds : id[1] = d /\ settled'[id] = <<"Internal">>}
  <2>1. << >> # <<"Internal">>
    OBVIOUS
  <2>2. new = old \ gone
    BY <1>1, <2>1 DEF PaidLeaves
  <2>3. /\ old \in SUBSET {id \in LeafIds : id[1] = d} /\ gone \in SUBSET old
        /\ gone \in SUBSET {id \in LeafIds : id[1] = d}
        /\ new \in SUBSET {id \in LeafIds : id[1] = d}
    BY DEF PaidLeaves
  <2>4. TotalOf(PaidLeaves(d))' = TotalOf(new)
    BY DEF TotalOf, PaidLeaves
  <2> HIDE DEF old, gone, new
  <2>5. TotalOf(old) = TotalOf(gone) + TotalOf(new) /\ TotalOf(gone) \in Nat /\ TotalOf(new) \in Nat
    BY <2>2, <2>3, TotalSplits, TotalTyped
  <2> QED
    BY <2>4, <2>5 DEF old, gone
<1>5. HistoriesTyped'
  <2>1. \A d \in Distributions : TotalOf(paid(d)) \in Nat /\ funding[d] \in Int
    BY <1>4, BalancesTyped
  <2> HIDE DEF paid
  <2>2. funding' \in [Distributions -> Int]
    BY <1>1, <2>1
  <2>3. settled' \in [LeafIds -> {<< >>, <<"Internal">>, <<"External">>}]
    BY <1>1 DEF DistInv, HistoriesTyped
  <2> QED
    BY <2>2, <2>3 DEF HistoriesTyped
<1>6. EscrowInv'
  <2> SUFFICES ASSUME NEW d \in Distributions
               PROVE  balance'[EscrowOf[d]] >= funding'[d] - TotalOf(PaidLeaves(d))'
    BY DEF EscrowInv
  <2>1. balance[EscrowOf[d]] >= funding[d] - TotalOf(PaidLeaves(d))
    BY DEF DistInv, EscrowInv
  <2>2. balance' = balance /\ funding'[d] = funding[d] - TotalOf(paid(d))
    BY <1>1 DEF vars
  <2> HIDE DEF paid
  <2> QED
    BY <1>4, <2>1, <2>2, BalancesTyped
<1>7. (escrows \subseteq Distributions)' /\ ProofsUsable' /\ ClaimReceiptsTyped'
  BY <1>1 DEF DistInv, ProofsUsable, ClaimReceiptsTyped
<1> QED
  BY <1>2, <1>3, <1>5, <1>6, <1>7 DEF DistInv

(* A Proof account is written by what a claim may use. *)
LEMMA ProofWritten ==
  ASSUME ProofsUsable, NEW k \in TokenAccounts \X ActionIds, NEW proof \in Seq(NodeArgs),
         ValidProof(proof), proofs \in [TokenAccounts \X ActionIds -> Seq(NodeArgs)],
         proofs' = [proofs EXCEPT ![k] = proof]
  PROVE  ProofsUsable'
<1>1. Len(proof) <= MaxLevels /\ ZeroNode \notin Range(proof)
  <2>1. DOMAIN proof = 1 .. Len(proof)
    OBVIOUS
  <2>2. Len(proof) <= MaxLevels /\ \A i \in 1 .. Len(proof) : proof[i] # ZeroNode
    BY DEF ValidProof
  <2>3. \A i \in DOMAIN proof : proof[i] # ZeroNode
    BY <2>1, <2>2
  <2> QED
    BY <2>2, <2>3 DEF Range
<1>2. proofs'[k] = proof /\ \A j \in TokenAccounts \X ActionIds : j # k => proofs'[j] = proofs[j]
  OBVIOUS
<1> QED
  BY <1>1, <1>2 DEF ProofsUsable

LEMMA ProofsStepKeeps ==
  ASSUME DistInv, NEW a \in TokenAccounts, NEW i \in ActionIds,
         \/ \E p \in ProofArgs : CreateProofAccount(a, i, p)
         \/ \E o \in 0 .. MaxLevels, n \in ProofNodes : UpdateProofAccount(a, i, o, n)
  PROVE  DistInv'
<1>1. UNCHANGED <<vars, escrows, claimReceipts, settled, funding>>
  BY DEF CreateProofAccount, UpdateProofAccount
<1>2. ProofsAreLists'
  BY CreateKeepsLists, UpdateKeepsLists DEF DistInv, SettledInv
<1>3. SettledInv'
  BY <1>1, <1>2 DEF DistInv, SettledInv, SettledOncePerReceipt, LeavesOf
<1>4. ProofsUsable'
  <2>1. PICK proof : ValidProof(proof) /\ proofs' = [proofs EXCEPT ![<<a, i>>] = proof]
    BY DEF CreateProofAccount, UpdateProofAccount
  <2>2. <<a, i>> \in TokenAccounts \X ActionIds
    OBVIOUS
  <2>3. proof \in Seq(NodeArgs) /\ proofs \in [TokenAccounts \X ActionIds -> Seq(NodeArgs)]
    BY <1>2, <2>1, <2>2 DEF DistInv, SettledInv, ProofsAreLists
  <2> QED
    BY <2>1, <2>2, <2>3, ProofWritten DEF DistInv
<1>5. CorporateInv' /\ EscrowInv'
  BY <1>1, CorporateFrame, EscrowFrame DEF DistInv, vars
<1> QED
  BY <1>1, <1>3, <1>4, <1>5 DEF DistInv, ClaimReceiptsTyped, HistoriesTyped

LEMMA DistStep == DistInv /\ [DistNext]_distVars => DistInv'
<1> SUFFICES ASSUME DistInv, [DistNext]_distVars PROVE DistInv'
  OBVIOUS
<1>0. SettledInv'
  BY SettledStepPreserves DEF DistInv
<1>1. CASE TokenOperation
  <2>1. UNCHANGED <<escrows, proofs, claimReceipts, settled>>
    BY <1>1 DEF TokenOperation
  <2> QED
    BY <1>0, <1>1, <2>1, TokenOperationKeeps DEF DistInv, ProofsUsable, ClaimReceiptsTyped
<1>2. CASE \/ \E a \in TokenAccounts, i \in ActionIds, p \in ProofArgs : CreateProofAccount(a, i, p)
           \/ \E a \in TokenAccounts, i \in ActionIds, o \in 0 .. MaxLevels, n \in ProofNodes :
                UpdateProofAccount(a, i, o, n)
  BY <1>2, ProofsStepKeeps
<1>3. ASSUME NEW d \in Distributions, CreateDistributionEscrow(d) PROVE DistInv'
  <2>1. /\ UNCHANGED <<vars, proofs, claimReceipts, settled, funding>>
        /\ escrows' \subseteq Distributions
    BY <1>3 DEF CreateDistributionEscrow, DistInv
  <2>2. CorporateInv' /\ EscrowInv'
    BY <2>1, CorporateFrame, EscrowFrame DEF DistInv, vars
  <2> QED
    BY <1>0, <2>1, <2>2 DEF DistInv, ProofsUsable, ClaimReceiptsTyped, HistoriesTyped
<1>4. CASE UNCHANGED distVars
  <2>1. UNCHANGED <<vars, escrows, proofs, claimReceipts, settled, funding>>
    BY <1>4 DEF distVars, claimVars
  <2>2. CorporateInv' /\ EscrowInv'
    BY <2>1, CorporateFrame, EscrowFrame DEF DistInv, vars
  <2> QED
    BY <1>0, <2>1, <2>2 DEF DistInv, ProofsUsable, ClaimReceiptsTyped, HistoriesTyped
<1>5. CASE \E a \in TokenAccounts, d \in Distributions, n \in Amounts, x \in LeafIndexes,
              p \in ProofArgs \cup {NoProof}, internal \in BOOLEAN :
             ClaimDistribution(a, d.mint, d.action, RootOf[d], n, x, p, internal)
  BY <1>5, ClaimKeeps
<1>6. CASE \E a \in TokenAccounts, m \in Mints, i \in ActionIds, p \in ProofArgs \cup {NoProof} :
             CloseClaimReceiptAccount(a, m, i, p)
  BY <1>6, CloseKeeps
<1> QED
  BY <1>1, <1>2, <1>3, <1>4, <1>5, <1>6 DEF DistNext

LEMMA DistInvariant == DistSpec => []DistInv
BY DistInitInvariant, DistStep, PTL DEF DistSpec

(* Whatever claims, closes and updates there are, balances stay what they   *)
(* are under the token operations, a Proof account holds only a proof that  *)
(* a claim may use, and a leaf is settled once or not at all                *)
(* (ProofDataValidator, execute_update_proof_account,                       *)
(* execute_claim_distribution).                                             *)
THEOREM DistTypeCorrect == DistSpec => []DistTypeOK
<1>1. DistInv => DistTypeOK
  BY CorporateTypes
     DEF DistInv, DistTypeOK, ProofsUsable, ClaimReceiptsTyped, HistoriesTyped
<1> QED
  BY <1>1, DistInvariant, PTL

(* An escrow that holds the total of its tree can pay every leaf whose      *)
(* receipt is not there, whatever other distributions the same action and   *)
(* mint have, and though claimants may be escrows themselves                *)
(* (find_distribution_escrow_authority_pda, execute_claim_distribution).    *)
THEOREM EscrowAlwaysCovers == DistSpec => []EscrowCoversUnsettled
BY InvariantCovers, DistInvariant, PTL
=============================================================================
