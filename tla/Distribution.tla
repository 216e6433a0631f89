---------------------------- MODULE Distribution ----------------------------
(***************************************************************************)
(* Distributions (dividends, coupons): an issuer opens an escrow for a     *)
(* Merkle tree of amounts due, funds it, and every holder of a leaf claims *)
(* its amount from it, or is paid outside the chain (external settlement)  *)
(* and only gets the receipt.  The proof of a leaf comes with the claim or *)
(* from a Proof account, which is written in several transactions.         *)
(*                                                                         *)
(* The escrow is a token account like any other, at the associated address *)
(* of an authority derived from the mint, the action and the root; the     *)
(* receipt of a claim is at an address derived from the mint, the holder,  *)
(* the action and the proof - not the root.  Claims move tokens as the     *)
(* permanent delegate, which the transfer hook lets pass.                  *)
(***************************************************************************)
EXTENDS CorporateActions, MerkleTrees

CONSTANTS
  Distributions,  \* records [mint, action, leaves]; a leaf is [account, amount]
  EscrowOf,       \* the associated token account of each distribution's authority
  ZeroNode,       \* the node of 32 zero bytes, which no proof may hold
  ProofArgs,      \* proof data arguments, the ones to be refused included
  ProofNodes,     \* node arguments of UpdateProofAccount
  LeafIndexes     \* leaf_index arguments

ASSUME EscrowsAssumption ==
  /\ Distributions \subseteq
       [mint : Mints, action : ActionIds,
        leaves : Seq([account : TokenAccounts, amount : 0 .. MaxU64])]
  /\ EscrowOf \in [Distributions -> TokenAccounts]
  /\ \A d \in Distributions : MintOf[EscrowOf[d]] = d.mint
  /\ \A d, e \in Distributions : EscrowOf[d] = EscrowOf[e] => d = e

(* The nodes of arguments, which are sequences of them *)
NodeArgs == ProofNodes \cup UNION {Range(proof) : proof \in ProofArgs}
ASSUME ProofArgsAssumption ==
  /\ ProofArgs \subseteq Seq(NodeArgs)
  /\ LeafIndexes \subseteq Nat

VARIABLES
  escrows,        \* the distributions whose escrow account has been created
  proofs,         \* the Proof account of each token account and action
  claimReceipts,  \* the Receipt accounts of claims
  settled,        \* history: how each leaf was settled since its receipt was free
  funding         \* history: what the issuer owes to the claims and has put in escrow

claimVars == <<escrows, proofs, claimReceipts, settled, funding>>
distVars == <<vars, claimVars>>

(* A Proof account that does not exist, and an argument that is left out *)
NoProof == << >>

(* Leaves, roots and receipts of distributions *)
NodesOf(d) ==
  [i \in 1 .. Len(d.leaves) |->
     LeafNode(d.leaves[i].account, d.mint, d.action, d.leaves[i].amount)]
RootOf == [d \in Distributions |-> TreeRoot(NodesOf(d))]
LeafIds == UNION {{d} \X (0 .. Len(d.leaves) - 1) : d \in Distributions}
LeafAt(id) == id[1].leaves[id[2] + 1]

LeafAmount == [id \in LeafIds |-> LeafAt(id).amount]
TotalOf(ids) == SumFunctionOnSet(LeafAmount, ids)

(* The address of an escrow's authority is derived from the root, so that   *)
(* different distributions of an action have different roots.               *)
ASSUME RootsAssumption ==
  /\ \A d \in Distributions : IsComplete(d.leaves)
  /\ \A d, e \in Distributions :
       d.mint = e.mint /\ d.action = e.action /\ RootOf[d] = RootOf[e] => d = e

(* find_claim_receipt_pda; the hash of the proof is the proof itself. *)
ClaimKey(mint, account, action, proof) == <<mint, account, action, proof>>
LeafKey ==
  [id \in LeafIds |->
     ClaimKey(id[1].mint, LeafAt(id).account, id[1].action, ProofOf(NodesOf(id[1]), id[2]))]

DistInit ==
  /\ Init
  /\ escrows = {}
  /\ proofs = [k \in TokenAccounts \X ActionIds |-> NoProof]
  /\ claimReceipts = {}
  /\ settled = [id \in LeafIds |-> << >>]
  /\ funding = [d \in Distributions |-> 0]

-----------------------------------------------------------------------------
(* ProofDataValidator and Proof::validate *)
LengthOnlyProof(proof) == proof # NoProof /\ Len(proof) <= MaxLevels
ValidProof(proof) ==
  /\ proof # NoProof
  /\ Len(proof) <= MaxLevels
  /\ \A i \in 1 .. Len(proof) : proof[i] # ZeroNode

CreateProofAccount(account, action, proof) ==
  /\ proofs[<<account, action>>] = NoProof
  /\ ValidProof(proof)
  /\ proofs' = [proofs EXCEPT ![<<account, action>>] = proof]
  /\ UNCHANGED <<vars, escrows, claimReceipts, settled, funding>>

(* update_data_at_offset replaces a node or appends one. *)
WithNode(proof, offset, node) ==
  IF offset = Len(proof) THEN Append(proof, node) ELSE [proof EXCEPT ![offset + 1] = node]

UpdateProofAccount(account, action, offset, node) ==
  LET proof == proofs[<<account, action>>]
      new   == WithNode(proof, offset, node)
  IN  /\ proof # NoProof
      /\ offset <= Len(proof)
      /\ ValidProof(new)
      /\ proofs' = [proofs EXCEPT ![<<account, action>>] = new]
      /\ UNCHANGED <<vars, escrows, claimReceipts, settled, funding>>

CreateDistributionEscrow(d) ==
  /\ d \notin escrows
  /\ escrows' = escrows \cup {d}
  /\ UNCHANGED <<vars, proofs, claimReceipts, settled, funding>>

-----------------------------------------------------------------------------
(* get_proof_data_from_instruction: the argument, or else the account. *)
GivenProof(account, action, argument) ==
  IF argument = NoProof THEN proofs[<<account, action>>] ELSE argument

(* The escrow that pays for a root; its authority is derived from the mint, *)
(* the action and the root.                                                 *)
AnyRootEscrows(mint, action, root) == {d \in escrows : d.mint = mint /\ d.action = action}
EscrowsFor(mint, action, root) ==
  {d \in escrows : d.mint = mint /\ d.action = action /\ RootOf[d] = root}

(* The transfer out of the escrow *)
PaidFrom(d, account, amount) ==
  LET escrow == EscrowOf[d]
  IN  /\ MintOf[account] = d.mint
      /\ Movable(escrow)
      /\ Movable(account)
      /\ amount <= balance[escrow]
      /\ balance' = Credited(Debited(balance, escrow, amount), account, amount)

(* Whether a claim is settled inside or outside, it issues the receipt. *)
InternalReceipt(key, internal) ==
  claimReceipts' = IF internal THEN claimReceipts \cup {key} ELSE claimReceipts
ClaimReceipt(key, internal) == claimReceipts' = claimReceipts \cup {key}

(* The leaves of a root that a claim was for: all that are the same *)
LeavesClaimed(account, mint, action, root, amount, index) ==
  {id \in LeafIds :
     /\ id[1].mint = mint /\ id[1].action = action /\ RootOf[id[1]] = root
     /\ LeafAt(id) = [account |-> account, amount |-> amount]
     /\ id[2] = index}

ClaimDistribution(account, mint, action, root, amount, index, argument, internal) ==
  LET proof == GivenProof(account, action, argument)
      key   == ClaimKey(mint, account, action, proof)
      how   == IF internal THEN "Internal" ELSE "External"
  IN  /\ amount > 0
      /\ argument # NoProof => ValidProof(argument)
      /\ proof # NoProof
      /\ key \notin claimReceipts
      /\ VerifyMerkleProof(LeafNode(account, mint, action, amount), root, proof, index)
      /\ \/ /\ internal
            /\ \E d \in EscrowsFor(mint, action, root) : PaidFrom(d, account, amount)
         \/ /\ ~internal
            /\ UNCHANGED balance
      /\ ClaimReceipt(key, internal)
      /\ settled' = [id \in LeafIds |->
                       IF id \in LeavesClaimed(account, mint, action, root, amount, index)
                         THEN Append(settled[id], how) ELSE settled[id]]
      /\ UNCHANGED <<frozen, paused, rates, receipts, ran, escrows, proofs, funding>>

(* The leaves settled under a receipt are due again once it is closed. *)
CloseClaimReceiptAccount(account, mint, action, argument) ==
  LET proof == GivenProof(account, action, argument)
      key   == ClaimKey(mint, account, action, proof)
      paid(d) == {id \in LeafIds : id[1] = d /\ LeafKey[id] = key /\ settled[id] = <<"Internal">>}
  IN  /\ argument # NoProof => ValidProof(argument)
      /\ proof # NoProof
      /\ key \in claimReceipts
      /\ claimReceipts' = claimReceipts \ {key}
      /\ settled' = [id \in LeafIds |-> IF LeafKey[id] = key THEN << >> ELSE settled[id]]
      /\ funding' = [d \in Distributions |->
                       funding[d] - TotalOf(paid(d))]
      /\ UNCHANGED <<vars, escrows, proofs>>

-----------------------------------------------------------------------------
(* What else happens to the tokens.  An escrow account takes part like any  *)
(* other once it is there; what it gains and loses is the issuer's funding. *)
Usable == TokenAccounts \ {EscrowOf[d] : d \in Distributions \ escrows}

TokenOperation ==
  /\ \/ \E a \in Usable, n \in Amounts : Mint(a, n) \/ Burn(a, n)
     \/ \E a, b \in Usable, n \in Amounts : Transfer(a, b, n)
     \/ \E m \in Mints : Pause(m) \/ Resume(m)
     \/ \E a \in Usable : Freeze(a) \/ Thaw(a)
  /\ funding' = [d \in Distributions |->
                   funding[d] + balance'[EscrowOf[d]] - balance[EscrowOf[d]]]
  /\ UNCHANGED <<escrows, proofs, claimReceipts, settled>>

DistNext ==
  \/ TokenOperation
  \/ \E a \in TokenAccounts, i \in ActionIds, p \in ProofArgs : CreateProofAccount(a, i, p)
  \/ \E a \in TokenAccounts, i \in ActionIds, o \in 0 .. MaxLevels, n \in ProofNodes :
       UpdateProofAccount(a, i, o, n)
  \/ \E d \in Distributions : CreateDistributionEscrow(d)
  \/ \E a \in TokenAccounts, d \in Distributions, n \in Amounts, x \in LeafIndexes,
        p \in ProofArgs \cup {NoProof}, internal \in BOOLEAN :
       ClaimDistribution(a, d.mint, d.action, RootOf[d], n, x, p, internal)
  \/ \E a \in TokenAccounts, m \in Mints, i \in ActionIds, p \in ProofArgs \cup {NoProof} :
       CloseClaimReceiptAccount(a, m, i, p)

DistSpec == DistInit /\ [][DistNext]_distVars

-----------------------------------------------------------------------------
(* The types of the state of distributions: a Proof account that exists     *)
(* holds a proof that a claim may use, of at most MaxLevels nodes, none of  *)
(* them zero, whatever updates it went through.                             *)
DistTypeOK ==
  /\ TypeOK
  /\ escrows \subseteq Distributions
  /\ \A k \in TokenAccounts \X ActionIds :
       Len(proofs[k]) <= MaxLevels /\ ZeroNode \notin Range(proofs[k])
  /\ \A key \in claimReceipts :
       /\ key[1] \in Mints /\ key[2] \in TokenAccounts /\ key[3] \in ActionIds
       /\ Len(key[4]) \in 1 .. MaxLevels
  /\ settled \in [LeafIds -> {<< >>, <<"Internal">>, <<"External">>}]
  /\ funding \in [Distributions -> Int]

(* A receipt prevents duplicate participation (docs, "Receipt"): of all the *)
(* leaves that lead to one receipt, one has been settled while the receipt  *)
(* is there and none otherwise, whether inside or outside, whether the      *)
(* proof came from an account, before or after it was updated, or with the  *)
(* claim.                                                                   *)
LeavesOf(key) == {id \in LeafIds : LeafKey[id] = key}
SettledOncePerReceipt ==
  /\ \A id \in LeafIds : LeafKey[id] \notin claimReceipts => settled[id] = << >>
  /\ \A key \in claimReceipts :
       \E id \in LeavesOf(key) :
         /\ Len(settled[id]) = 1
         /\ \A other \in LeavesOf(key) \ {id} : settled[other] = << >>

(* An escrow pays its own tree and nothing else: while it is funded with    *)
(* the total of its leaves, it can pay every leaf whose receipt is not      *)
(* there yet, whoever claimed what, where and in which order, and whatever  *)
(* other distributions the same action and mint have.                       *)
EscrowCoversUnsettled ==
  \A d \in Distributions :
    LET ids == {id \in LeafIds : id[1] = d}
    IN  funding[d] >= TotalOf(ids) =>
          balance[EscrowOf[d]] >= TotalOf({id \in ids : LeafKey[id] \notin claimReceipts})
=============================================================================
