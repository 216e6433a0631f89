--------------------------- MODULE MCMintLifecycle ---------------------------
(* Instance of MintLifecycle for TLC: a buffer of one row, two keys that fit *)
(* it and one that does not, and a value that the parser refuses.            *)
EXTENDS MintLifecycle

CONSTANTS c1, c2, k1, k2, long, Elsewhere

MCKeyLen == [k \in {k1, k2, long} |-> IF k = long THEN 70 ELSE 10]

Field(key, len) == [key |-> key, len |-> len]
Small == {Field(k1, 1), Field(k2, 1), Field(long, 1), Field(k1, 150)}
MCRequests == {<< >>} \cup [1 .. 1 -> Small] \cup [1 .. 2 -> Small]
                \cup {<<Field(k1, 2000)>>}

(* Bounds: the mint has the extensions besides the pointer if it has no      *)
(* metadata, and the mint's lamports, which never decrease, are what a few   *)
(* growths have paid.                                                        *)
Bounded ==
  /\ mint.exists => mint.scaled = (mint.state # None) /\ mint.scaled # metadata.exists
  /\ lamports <= 900
=============================================================================
