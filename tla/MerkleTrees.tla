---------------------------- MODULE MerkleTrees ----------------------------
(***************************************************************************)
(* Merkle proofs as the program checks them                                *)
(* (program/src/merkle_tree_utils.rs).  The hash is taken to be free of    *)
(* collisions: a hash is the term it was made of, so that two are equal    *)
(* only if they were made of the same things.  A leaf hashes 80 bytes and  *)
(* an inner node 64, and neither can pass for the other.                   *)
(***************************************************************************)
EXTENDS Integers, SequencesExt

CONSTANT
  MaxLevels  \* MAX_PROOF_LEVELS

ASSUME LevelsAssumption == MaxLevels \in Nat \ {0}

(* create_merkle_tree_leaf_node *)
LeafNode(account, mint, action, amount) == <<"leaf", account, mint, action, amount>>
InnerNode(left, right) == <<"node", left, right>>

(* 1 << n and leaf_index >> n *)
Pow2[n \in 0 .. MaxLevels] == IF n = 0 THEN 1 ELSE 2 * Pow2[n - 1]
Shifted(index, n) == index \div Pow2[n]

(* The nodes that the siblings of a proof lead to from a node: bit i of the *)
(* index tells on which side the node is at level i.                        *)
Parent(node, sibling, place) ==
  IF place % 2 = 0 THEN InnerNode(node, sibling) ELSE InnerNode(sibling, node)
Ascent(node, proof, index) ==
  LET at[i \in 0 .. Len(proof)] ==
        IF i = 0 THEN node ELSE Parent(at[i - 1], proof[i], Shifted(index, i - 1))
  IN  at
RootReached(node, proof, index) == Ascent(node, proof, index)[Len(proof)]

(* verify_merkle_proof *)
AnyIndex(node, root, proof, index) ==
  Len(proof) <= MaxLevels /\ RootReached(node, proof, index) = root
VerifyMerkleProof(node, root, proof, index) ==
  /\ Len(proof) <= MaxLevels
  /\ proof # << >> => index < Pow2[Len(proof)]
  /\ RootReached(node, proof, index) = root

-----------------------------------------------------------------------------
(***************************************************************************)
(* The trees an issuer builds, which the program never sees (the tests     *)
(* take them from spl_merkle_tree_reference): Levels(leaves)[k] is the row *)
(* of nodes k levels above the leaves, here of complete trees only.        *)
(***************************************************************************)
Depth(leaves) == CHOOSE k \in 0 .. MaxLevels : Pow2[k] = Len(leaves)
IsComplete(leaves) == \E k \in 0 .. MaxLevels : Pow2[k] = Len(leaves)

Levels(leaves) ==
  LET row[k \in 0 .. Depth(leaves)] ==
        IF k = 0 THEN leaves
        ELSE [i \in 1 .. Len(row[k - 1]) \div 2 |->
                InnerNode(row[k - 1][2 * i - 1], row[k - 1][2 * i])]
  IN  row

TreeRoot(leaves) == Levels(leaves)[Depth(leaves)][1]

(* The siblings on the way from a leaf (counted from 0) to the root *)
ProofOf(leaves, index) ==
  [k \in 1 .. Depth(leaves) |->
     LET place == Shifted(index, k - 1)
     IN  Levels(leaves)[k - 1][IF place % 2 = 0 THEN place + 2 ELSE place]]
=============================================================================
