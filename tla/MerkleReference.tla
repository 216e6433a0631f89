-------------------------- MODULE MerkleReference --------------------------
(***************************************************************************)
(* The program's check of a Merkle proof against the trees themselves: the *)
(* state is a tree and an alleged membership in it, and a step alleges     *)
(* another one.                                                            *)
(***************************************************************************)
EXTENDS MerkleTrees

CONSTANTS
  Entries,  \* what leaves are made of: records [account, mint, action, amount]
  Trees,    \* sequences of leaves
  Indexes   \* alleged leaf indexes

Leaves == {LeafNode(e.account, e.mint, e.action, e.amount) : e \in Entries}

ASSUME TreesAssumption ==
  /\ \A leaves \in Trees : leaves \in Seq(Leaves) /\ Len(leaves) > 1 /\ IsComplete(leaves)
  /\ Indexes \subseteq Nat

VARIABLES
  tree,                \* the sequence of leaves of the tree
  node, proof, index   \* the leaf alleged to be at the index, and its proof

alleged == <<node, proof, index>>

(* Proofs worth trying: those of the tree's own leaves, whole, cut short or *)
(* upside down.                                                             *)
Attempts(leaves) ==
  LET genuine == {ProofOf(leaves, i) : i \in 0 .. Len(leaves) - 1}
  IN  genuine \cup {Reverse(p) : p \in genuine}
              \cup {SubSeq(p, 1, Len(p) - 1) : p \in genuine}

Allege ==
  /\ node \in Leaves
  /\ proof \in Attempts(tree)
  /\ index \in Indexes

MerkleInit ==
  /\ tree \in Trees
  /\ Allege

AllegeAnother ==
  /\ UNCHANGED tree
  /\ node' \in Leaves
  /\ proof' \in Attempts(tree)
  /\ index' \in Indexes

MerkleSpec == MerkleInit /\ [][AllegeAnother]_<<tree, alleged>>
-----------------------------------------------------------------------------
(* A proof is accepted exactly for a leaf of the tree, at the index where   *)
(* the leaf is, and with the siblings of that index: neither bits of the    *)
(* index beyond the tree nor a shorter proof make a second way to claim     *)
(* the same leaf (verify_merkle_proof).                                     *)
AcceptsExactlyMembers ==
  VerifyMerkleProof(node, TreeRoot(tree), proof, index) <=>
    /\ index < Len(tree)
    /\ node = tree[index + 1]
    /\ proof = ProofOf(tree, index)
=============================================================================
