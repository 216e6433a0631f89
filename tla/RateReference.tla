--------------------------- MODULE RateReference ---------------------------
(***************************************************************************)
(* RateMath against exact rational arithmetic, over every amount: the      *)
(* state is one input, and a step takes the next amount.                   *)
(***************************************************************************)
EXTENDS RateMath

CONSTANTS
  Rates,     \* rates to try
  Decimals   \* numbers of decimals to try

ASSUME RatesAssumption ==
  /\ Rates \subseteq [rounding : {"Up", "Down"}, numerator : 0 .. 255, denominator : 0 .. 255]
  /\ \A r \in Rates : r.numerator <= MaxU64 /\ r.denominator <= MaxU64
  /\ Decimals \subseteq 0 .. 255

VARIABLES
  rate, amount,  \* the rate, and the amount it is applied to
  from, to       \* decimals of the mint converted from and of the one converted to

inputs == <<rate, amount, from, to>>

RateInit ==
  /\ rate \in {r \in Rates : ValidRate(r)}
  /\ amount = 0
  /\ from \in Decimals
  /\ to \in Decimals

NextAmount ==
  /\ amount' = IF amount = MaxU64 THEN 0 ELSE amount + 1
  /\ UNCHANGED <<rate, from, to>>

RateSpec == RateInit /\ [][NextAmount]_inputs

-----------------------------------------------------------------------------
(* r is a / b rounded in the given direction: the least integer that is    *)
(* not below it, or the greatest that is not above it.                     *)
IsRounded(rounding, r, a, b) ==
  IF rounding = "Up" THEN r * b >= a /\ (r - 1) * b < a
                     ELSE r * b <= a /\ (r + 1) * b > a

(* Rate::calculate is exact: it fails only when the product does not fit,  *)
(* and otherwise rounds the exact ratio in the rate's direction.           *)
CalculateIsExact ==
  LET r == Calculate(rate, amount)
      product == amount * rate.numerator
  IN  IF product > MaxU64 THEN r = Overflow
      ELSE r >= 0 /\ IsRounded(rate.rounding, r, product, rate.denominator)

(* Rate::convert_from_to_amount is exact: it fails only when the power of  *)
(* ten or the result itself does not fit in 64 bits (the 128-bit           *)
(* intermediate products never decide), and otherwise rounds the exact     *)
(* ratio between the mints' units.                                         *)
ConvertIsExact ==
  LET r == ConvertFromTo(rate, amount, from, to)
      n == amount * rate.numerator * Pow10[to]
      d == rate.denominator * Pow10[from]
      down == Pow10[from] > MaxU64 * Pow10[to]
      up   == Pow10[to] > MaxU64 * Pow10[from]
  IN  IF r = Overflow
        THEN up \/ down \/ n > MaxU64 * d
        ELSE r \in 0 .. MaxU64 /\ IsRounded(rate.rounding, r, n, d)

(* Between mints of equal decimals a conversion yields what a split would, *)
(* wherever the split can be computed at all.                              *)
ConvertAgreesWithSplit ==
  from = to /\ Calculate(rate, amount) # Overflow
    => ConvertFromTo(rate, amount, from, to) = Calculate(rate, amount)

InverseRate(r) == [r EXCEPT !.numerator = r.denominator, !.denominator = r.numerator]

(* A rate that rounds down never creates value: a holder who converts and  *)
(* converts back at the inverse rate, or is split and then split back, has *)
(* no more than before.                                                    *)
RoundTripNeverGains ==
  rate.rounding = "Down" =>
    /\ LET there == Calculate(rate, amount)
       IN  there # Overflow => Calculate(InverseRate(rate), there) <= amount
    /\ LET there == ConvertFromTo(rate, amount, from, to)
       IN  there # Overflow => ConvertFromTo(InverseRate(rate), there, to, from) <= amount

(* A larger balance never becomes the smaller one: where both can be       *)
(* computed, order is preserved by splits and by conversions.              *)
OrderPreserved ==
  [][amount' > amount =>
       /\ Calculate(rate, amount') # Overflow =>
            Calculate(rate, amount) \in 0 .. Calculate(rate, amount')
       /\ ConvertFromTo(rate, amount', from, to) # Overflow =>
            ConvertFromTo(rate, amount, from, to) \in
              0 .. ConvertFromTo(rate, amount', from, to)]_inputs
=============================================================================
