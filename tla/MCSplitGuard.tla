---------------------------- MODULE MCSplitGuard ----------------------------
(* Instance of SplitGuard for TLC: three holders of one mint, one action     *)
(* at a doubling or a halving rate, and a rate that is refused.              *)
EXTENDS SplitGuard, TLC

CONSTANTS M1, a1, a2, a3

MCMintOf == [a \in TokenAccounts |-> M1]
MCDecimals == [m \in {M1} |-> 0]
MCMaxU128 == (MaxU64 + 1) * (MaxU64 + 1) - 1

MCRates ==
  { [rounding |-> "Down", numerator |-> 2, denominator |-> 1],
    [rounding |-> "Up", numerator |-> 1, denominator |-> 2],
    [rounding |-> "Up", numerator |-> 1, denominator |-> 0] }

(* Bounds: at most one verified transfer in a transaction, and at most one   *)
(* account frozen at a time.                                                 *)
Bounded ==
  /\ Cardinality(approved) <= 1
  /\ Cardinality(frozen) <= 1

Holders == Permutations(TokenAccounts)
=============================================================================
