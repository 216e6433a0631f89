--------------------------- MODULE StatelessParts ---------------------------
(***************************************************************************)
(* The parts of the code that keep no state, each against a definition of  *)
(* its own of what it should compute: rate arithmetic, Merkle proofs, the  *)
(* accounts of a call and the data of a message.  A behaviour is about one *)
(* of them, and the others are at rest.                                    *)
(***************************************************************************)
EXTENDS Interfaces, RateReference, MerkleReference

VARIABLE subject

parts == <<subject, inputs, tree, alleged, call, wire>>

RatesAtRest ==
  /\ rate = CHOOSE r \in Rates : ValidRate(r)
  /\ amount = 0 /\ from = 0 /\ to = 0
TreesAtRest ==
  /\ tree = CHOOSE leaves \in Trees : TRUE
  /\ node = tree[1] /\ proof = ProofOf(tree, 0) /\ index = 0
InterfacesAtRest == call = NoCall /\ wire = NoData

StatelessInit ==
  \/ subject = "rates" /\ RateInit /\ TreesAtRest /\ InterfacesAtRest
  \/ subject = "trees" /\ MerkleInit /\ RatesAtRest /\ InterfacesAtRest
  \/ subject = "interfaces" /\ InterfacesInit /\ RatesAtRest /\ TreesAtRest

StatelessNext ==
  /\ UNCHANGED subject
  /\ \/ subject = "rates" /\ NextAmount /\ UNCHANGED <<tree, alleged, call, wire>>
     \/ subject = "trees" /\ AllegeAnother /\ UNCHANGED <<inputs, call, wire>>
     \/ subject = "interfaces" /\ InterfacesNext /\ UNCHANGED <<inputs, tree, alleged>>

StatelessSpec == StatelessInit /\ [][StatelessNext]_parts
=============================================================================
