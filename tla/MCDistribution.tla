--------------------------- MODULE MCDistribution ---------------------------
(* Instance of Distribution for TLC: two holders, and two distributions of   *)
(* the same action.  The second corrects what one holder is due, so that     *)
(* this holder has the same proof in both and the other holder has not.      *)
EXTENDS Distribution

CONSTANTS M1, a1, a2, e1, e2

MCMintOf == [a \in TokenAccounts |-> M1]
MCDecimals == [m \in {M1} |-> 0]
MCMaxU128 == (MaxU64 + 1) * (MaxU64 + 1) - 1

Due(account, amount) == [account |-> account, amount |-> amount]
First  == [mint |-> M1, action |-> 1, leaves |-> <<Due(a1, 1), Due(a2, 1)>>]
Second == [mint |-> M1, action |-> 1, leaves |-> <<Due(a1, 2), Due(a2, 1)>>]

MCDistributions == {First, Second}
MCEscrowOf == [d \in MCDistributions |-> IF d = First THEN e1 ELSE e2]

Genuine == {ProofOf(NodesOf(id[1]), id[2]) : id \in LeafIds}
MCProofArgs == Genuine \cup {<<ZeroNode>>}
MCProofNodes == {p[1] : p \in Genuine} \cup {ZeroNode}

(* Bounds: only the first holder is frozen (which stops what a paused mint   *)
(* would stop for it), and there is one Proof account at a time.             *)
Bounded ==
  /\ frozen \subseteq {a1}
  /\ paused = {}
  /\ Cardinality({k \in DOMAIN proofs : proofs[k] # NoProof}) <= 1
=============================================================================
