------------------------- MODULE MCCorporateActions -------------------------
(* Instance of CorporateActions for TLC: two holders of one mint, one of     *)
(* another, supplies of at most 3, and two rates.                            *)
EXTENDS CorporateActions

CONSTANTS M1, M2, a1, a2, b1

MCMintOf == [a \in {a1, a2, b1} |-> IF a = b1 THEN M2 ELSE M1]
MCDecimals == [m \in {M1, M2} |-> 0]
MCMaxU128 == (MaxU64 + 1) * (MaxU64 + 1) - 1

(* One that doubles, one that halves upwards, so that 1 stays 1, and one     *)
(* that is refused.                                                          *)
MCRates ==
  { [rounding |-> "Down", numerator |-> 2, denominator |-> 1],
    [rounding |-> "Up", numerator |-> 1, denominator |-> 2],
    [rounding |-> "Up", numerator |-> 1, denominator |-> 0] }

(* Bound: rates of M1 only, and at most one account frozen at a time. *)
Bounded ==
  /\ \A k \in RateKeys : rates[k] # NoRate => k[2] = M1
  /\ Cardinality(frozen) <= 1
=============================================================================
