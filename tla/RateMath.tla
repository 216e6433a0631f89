------------------------------ MODULE RateMath ------------------------------
(***************************************************************************)
(* The arithmetic of a Rate account (program/src/state/rate.rs): what a    *)
(* balance becomes in a split, and what an amount of one mint becomes in   *)
(* another in a conversion.  Integers are bounded by MaxU64 and MaxU128,   *)
(* and every checked operation that leaves its range makes the whole       *)
(* computation fail.                                                       *)
(***************************************************************************)
EXTENDS Integers

CONSTANTS
  MaxU64,   \* u64::MAX
  MaxU128   \* u128::MAX

ASSUME WidthAssumption ==
  /\ MaxU64 \in Nat \ {0}
  /\ MaxU128 = (MaxU64 + 1) * (MaxU64 + 1) - 1

(* The result of a computation that fails (ProgramError::ArithmeticOverflow). *)
Overflow == -1

(* Rate::validate: neither part may be zero. *)
NumeratorOnly(rate) == rate.numerator > 0
ValidRate(rate) == rate.numerator > 0 /\ rate.denominator > 0

(* div_ceil and checked_div *)
NearestUp(rounding, a, b) == IF rounding = "Up" THEN a \div b + 1 ELSE a \div b
AlwaysUp(rounding, a, b) == (a + b - 1) \div b
Divided(rounding, a, b) ==
  IF rounding = "Up" THEN (a + b - 1) \div b ELSE a \div b

(* Rate::calculate.  The product must fit in 64 bits, even when the        *)
(* quotient would.                                                         *)
WrappingCalculate(rate, amount) ==
  Divided(rate.rounding, (amount * rate.numerator) % (MaxU64 + 1), rate.denominator)

Calculate(rate, amount) ==
  LET scaled == amount * rate.numerator
  IN  IF scaled > MaxU64 THEN Overflow
      ELSE Divided(rate.rounding, scaled, rate.denominator)

(* Rate::convert_from_to_amount.  The difference in decimals, a power of   *)
(* ten that must fit in 64 bits, scales the numerator or the denominator,  *)
(* which are computed with 128 bits.                                       *)
Pow10[n \in 0 .. 255] == IF n = 0 THEN 1 ELSE 10 * Pow10[n - 1]
Scale(from, to) == IF to >= from THEN Pow10[to - from] ELSE Pow10[from - to]

Numerator(rate, amount, from, to) ==
  amount * rate.numerator * (IF to >= from THEN Scale(from, to) ELSE 1)

Denominator(rate, from, to) ==
  rate.denominator * (IF to >= from THEN 1 ELSE Scale(from, to))

NarrowProduct(rate, amount, from, to) ==
  Numerator(rate, amount, from, to) <= MaxU64 /\ Denominator(rate, from, to) <= MaxU64
ProductsFit(rate, amount, from, to) ==
  Numerator(rate, amount, from, to) <= MaxU128 /\ Denominator(rate, from, to) <= MaxU128

ConvertFromTo(rate, amount, from, to) ==
  LET result == Divided(rate.rounding, Numerator(rate, amount, from, to),
                        Denominator(rate, from, to))
  IN  IF amount = 0 THEN 0
      ELSE IF /\ Scale(from, to) <= MaxU64
              /\ ProductsFit(rate, amount, from, to)
              /\ result <= MaxU64
        THEN result
      ELSE Overflow
=============================================================================
