-------------------------- MODULE ReferenceProofs --------------------------
(***************************************************************************)
(* Proofs about the parts that keep no state, the ones of StatelessParts.  *)
(*                                                                         *)
(* Rates (RateReference), for every width of the integers, rate, amount    *)
(* and decimals: a split and a conversion round the exact ratio in the     *)
(* rate's direction or fail because a product does not fit, agree where    *)
(* the decimals do, keep the order of holdings, and do not gain on the way *)
(* back.  A conversion scales by a power of ten; that powers are what they *)
(* should be is proved in DataProofs.                                      *)
(*                                                                         *)
(* Merkle proofs (MerkleReference), for complete trees of any depth: what  *)
(* is accepted is the leaf at the index, with its siblings.                *)
(*                                                                         *)
(* Calls (InstructionAccounts), for any number of remaining accounts: what *)
(* is taken by position is what the client's caller meant, and a call goes *)
(* through exactly when it is complete.                                    *)
(*                                                                         *)
(* Messages (InstructionData), of any cells and lists: the descriptions of *)
(* the program and of the client read one another's data, and never the    *)
(* same data with two meanings.  Both are read and written field by field, *)
(* so this is shown of a field first, then of fields in turn, then of the  *)
(* 25 pairs of descriptions, which agree field by field.                   *)
(***************************************************************************)
EXTENDS RateReference, MerkleReference, Interfaces, SequenceTheorems, DataProofs

RateType ==
  /\ rate \in {r \in Rates : ValidRate(r)}
  /\ amount \in 0 .. MaxU64
  /\ from \in 0 .. 255 /\ to \in 0 .. 255

-----------------------------------------------------------------------------
(* What checked_div and div_ceil return *)
LEMMA QuotientDown ==
  ASSUME NEW a \in Nat, NEW b \in Nat \ {0}
  PROVE  /\ a \div b \in Nat
         /\ (a \div b) * b <= a
         /\ a < (a \div b + 1) * b
<1>1. a = b * (a \div b) + (a % b) /\ a % b \in 0 .. b - 1 /\ a \div b \in Int
  OBVIOUS
<1> QED
  BY <1>1

LEMMA DividedExact ==
  ASSUME NEW a \in Nat, NEW b \in Nat \ {0}, NEW rounding \in {"Up", "Down"}
  PROVE  /\ Divided(rounding, a, b) \in Nat
         /\ IsRounded(rounding, Divided(rounding, a, b), a, b)
<1>1. CASE rounding = "Down"
  BY <1>1, QuotientDown DEF Divided, IsRounded
<1>2. CASE rounding = "Up"
  <2> DEFINE q == (a + b - 1) \div b
  <2>1. a + b - 1 \in Nat
    OBVIOUS
  <2>2. q \in Nat /\ q * b <= a + b - 1 /\ a + b - 1 < (q + 1) * b
    BY <2>1, QuotientDown
  <2>3. Divided(rounding, a, b) = q
    BY <1>2 DEF Divided
  <2> HIDE DEF q
  <2>4. (q + 1) * b = q * b + b /\ (q - 1) * b = q * b - b /\ q * b \in Nat
    BY <2>2
  <2> QED
    BY <1>2, <2>2, <2>3, <2>4 DEF IsRounded
<1> QED
  BY <1>1, <1>2

(* Rate::calculate, for a rate that Rate::validate accepts *)
UsableRate(r) ==
  r \in [rounding : {"Up", "Down"}, numerator : Nat \ {0}, denominator : Nat \ {0}]

LEMMA CalculateExact ==
  ASSUME NEW r, UsableRate(r), NEW n \in Nat
  PROVE  IF n * r.numerator > MaxU64 THEN Calculate(r, n) = Overflow
         ELSE /\ Calculate(r, n) \in Nat
              /\ IsRounded(r.rounding, Calculate(r, n), n * r.numerator, r.denominator)
<1>1. /\ r.numerator \in Nat \ {0} /\ r.denominator \in Nat \ {0}
      /\ r.rounding \in {"Up", "Down"}
  BY DEF UsableRate
<1>2. n * r.numerator \in Nat
  BY <1>1
<1>3. LET q == Divided(r.rounding, n * r.numerator, r.denominator)
      IN  q \in Nat /\ IsRounded(r.rounding, q, n * r.numerator, r.denominator)
  BY <1>1, <1>2, DividedExact
<1> QED
  BY <1>3 DEF Calculate

(* Two roundings of the same kind keep the order of what they round. *)
LEMMA RoundedMonotonic ==
  ASSUME NEW a \in Nat, NEW c \in Nat, a <= c, NEW b \in Nat \ {0},
         NEW rounding \in {"Up", "Down"}, NEW p \in Nat, NEW q \in Nat,
         IsRounded(rounding, p, a, b), IsRounded(rounding, q, c, b)
  PROVE  p <= q
<1> SUFFICES ASSUME q < p PROVE FALSE
  OBVIOUS
<1>1. CASE rounding = "Down"
  <2>1. q * b + b > c /\ p * b <= a
    BY <1>1 DEF IsRounded
  <2>2. (q + 1) * b <= p * b
    OBVIOUS
  <2>3. (q + 1) * b = q * b + b /\ q * b \in Nat /\ p * b \in Nat
    OBVIOUS
  <2> QED
    BY <2>1, <2>2, <2>3
<1>2. CASE rounding = "Up"
  <2>1. q * b >= c /\ (p - 1) * b < a
    BY <1>2 DEF IsRounded
  <2>2. q * b <= (p - 1) * b
    OBVIOUS
  <2>3. q * b \in Int /\ (p - 1) * b \in Int
    OBVIOUS
  <2> QED
    BY <2>1, <2>2, <2>3
<1> QED
  BY <1>1, <1>2

-----------------------------------------------------------------------------
LEMMA RateTyped == RateSpec => []RateType
<1>1. RateInit => RateType
  BY WidthAssumption, RatesAssumption DEF RateInit, RateType
<1>2. RateType /\ [NextAmount]_inputs => RateType'
  BY WidthAssumption DEF RateType, NextAmount, inputs
<1> QED
  BY <1>1, <1>2, PTL DEF RateSpec

-----------------------------------------------------------------------------
(***************************************************************************)
(* Products of naturals, which the prover handles a step at a time         *)
(***************************************************************************)
LEMMA TimesMonotone ==
  ASSUME NEW a \in Nat, NEW b \in Nat, NEW k \in Nat
  PROVE  /\ a * k \in Nat /\ b * k \in Nat
         /\ a <= b => a * k <= b * k
         /\ k > 0 /\ a < b => a * k < b * k
OBVIOUS

LEMMA TimesCancel ==
  ASSUME NEW a \in Nat, NEW b \in Nat, NEW k \in Nat \ {0}
  PROVE  /\ a * k <= b * k => a <= b
         /\ a * k < b * k => a < b
<1>1. ~(a <= b) => ~(a * k <= b * k)
  BY TimesMonotone
<1>2. ~(a < b) => ~(a * k < b * k)
  BY TimesMonotone
<1> QED
  BY <1>1, <1>2

LEMMA TimesOrder ==
  ASSUME NEW a \in Nat, NEW b \in Nat, NEW k \in Nat
  PROVE  /\ a * b \in Nat /\ a * b = b * a
         /\ (a * b) * k = a * (b * k) /\ (a * b) * k = (a * k) * b
OBVIOUS

(* A ratio is the same in finer units. *)
LEMMA RoundedScaled ==
  ASSUME NEW rounding, NEW q \in Nat, NEW a \in Nat, NEW b \in Nat \ {0}, NEW k \in Nat \ {0},
         IsRounded(rounding, q, a, b)
  PROVE  IsRounded(rounding, q, a * k, b * k)
<1>1. /\ b * k \in Nat /\ a * k \in Nat
      /\ q * (b * k) = (q * b) * k /\ (q + 1) * (b * k) = ((q + 1) * b) * k
      /\ q * b \in Nat /\ (q + 1) * b \in Nat
  BY TimesOrder
<1>2. CASE rounding # "Up"
  <2>1. q * b <= a /\ a < (q + 1) * b
    BY <1>2 DEF IsRounded
  <2>2. (q * b) * k <= a * k /\ a * k < ((q + 1) * b) * k
    BY <1>1, <2>1, TimesMonotone
  <2> QED
    BY <1>1, <1>2, <2>2 DEF IsRounded
<1>3. CASE rounding = "Up" /\ q = 0
  <2>1. a <= 0 /\ a = 0
    BY <1>3 DEF IsRounded
  <2>2. a * k = 0 /\ q * (b * k) = 0 /\ (q - 1) * (b * k) = 0 - (b * k) /\ b * k > 0
    BY <1>3, <2>1
  <2> QED
    BY <1>3, <2>2 DEF IsRounded
<1>4. CASE rounding = "Up" /\ q # 0
  <2>1. a <= q * b /\ (q - 1) * b < a /\ q - 1 \in Nat
    BY <1>4 DEF IsRounded
  <2>2. (q - 1) * b \in Nat /\ (q - 1) * (b * k) = ((q - 1) * b) * k
    BY <2>1, TimesOrder
  <2>3. a * k <= (q * b) * k /\ ((q - 1) * b) * k < a * k
    BY <1>1, <2>1, <2>2, TimesMonotone
  <2> QED
    BY <1>1, <1>4, <2>2, <2>3 DEF IsRounded
<1> QED
  BY <1>2, <1>3, <1>4

(* A rounded quotient that exceeds a limit is of a ratio that does, and one *)
(* of a ratio within a limit is within it.                                  *)
LEMMA RoundedExceeds ==
  ASSUME NEW rounding, NEW q \in Nat, NEW a \in Nat, NEW b \in Nat \ {0}, NEW limit \in Nat,
         IsRounded(rounding, q, a, b), q > limit
  PROVE  a > limit * b
<1>1. limit * b \in Nat
  BY TimesOrder
<1>2. CASE rounding # "Up"
  <2>1. q * b <= a /\ limit * b < q * b /\ q * b \in Nat
    BY <1>2, TimesMonotone DEF IsRounded
  <2> QED
    BY <1>1, <2>1
<1>3. CASE rounding = "Up"
  <2>1. (q - 1) * b < a /\ q - 1 \in Nat /\ limit <= q - 1
    BY <1>3 DEF IsRounded
  <2>2. limit * b <= (q - 1) * b /\ (q - 1) * b \in Nat
    BY <2>1, TimesMonotone
  <2> QED
    BY <1>1, <2>1, <2>2
<1> QED
  BY <1>2, <1>3

-----------------------------------------------------------------------------
(***************************************************************************)
(* Conversions.  The powers of ten obey the law of exponents, and so the   *)
(* ratio that is computed is the one between the mints' own units.         *)
(***************************************************************************)
LEMMA TenPowers == PowersOf(Pow10, 10, 255)
<1>1. PICK p : PowersEquation(p, 10, 255)
  BY PowersSolvable
<1>2. p = [n \in 0 .. 255 |-> IF n = 0 THEN 1 ELSE 10 * p[n - 1]]
  BY <1>1 DEF PowersEquation
<1>3. PowersEquation(Pow10, 10, 255)
  BY <1>2 DEF Pow10, PowersEquation
<1> QED
  BY <1>3, PowersRecursive

LEMMA ScaleFacts ==
  ASSUME NEW f \in 0 .. 255, NEW t \in 0 .. 255
  PROVE  /\ Pow10[f] \in Nat \ {0} /\ Pow10[t] \in Nat \ {0}
         /\ Scale(f, t) \in Nat \ {0}
         /\ t >= f => Pow10[t] = Scale(f, t) * Pow10[f]
         /\ ~(t >= f) => Pow10[f] = Scale(f, t) * Pow10[t]
         /\ t = f => Scale(f, t) = 1
<1>1. Pow10 \in [0 .. 255 -> Nat \ {0}] /\ Pow10[0] = 1
  BY TenPowers DEF PowersOf
<1>2. ASSUME NEW x \in 0 .. 255, NEW y \in 0 .. 255, y >= x
      PROVE  Pow10[y] = Pow10[y - x] * Pow10[x]
  <2>1. (y - x) \in 0 .. 255 /\ (y - x) + x = y /\ 10 \in Nat \ {0} /\ 255 \in Nat
    BY <1>2
  <2>2. (y - x) + x <= 255
    BY <2>1
  <2>3. Pow10[(y - x) + x] = Pow10[y - x] * Pow10[x]
    BY <2>1, <2>2, TenPowers, PowersAdd
  <2> QED
    BY <2>1, <2>3
<1>3. CASE t >= f
  <2>1. t - f \in 0 .. 255 /\ Scale(f, t) = Pow10[t - f] /\ (t = f => t - f = 0)
    BY <1>3 DEF Scale
  <2> QED
    BY <1>1, <1>2, <1>3, <2>1
<1>4. CASE ~(t >= f)
  <2>1. f - t \in 0 .. 255 /\ Scale(f, t) = Pow10[f - t] /\ f >= t /\ t # f
    BY <1>4 DEF Scale
  <2> QED
    BY <1>1, <1>2, <1>4, <2>1
<1> QED
  BY <1>3, <1>4

(* The ratio between the units of the mints, and the one that is computed,  *)
(* which is a part of it                                                    *)
InUnits(r, n, f, t, k) ==
  /\ k \in Nat \ {0}
  /\ n * r.numerator * Pow10[t] = Numerator(r, n, f, t) * k
  /\ r.denominator * Pow10[f] = Denominator(r, f, t) * k

LEMMA SameRatio ==
  ASSUME NEW r, UsableRate(r), NEW n \in Nat, NEW f \in 0 .. 255, NEW t \in 0 .. 255
  PROVE  /\ Numerator(r, n, f, t) \in Nat /\ Denominator(r, f, t) \in Nat \ {0}
         /\ n = 0 => Numerator(r, n, f, t) = 0
         /\ \E k : InUnits(r, n, f, t, k)
<1> DEFINE s == Scale(f, t)
           p == n * r.numerator
           d == r.denominator
           x == Pow10[f]
           y == Pow10[t]
<1>1. /\ s \in Nat \ {0} /\ x \in Nat \ {0} /\ y \in Nat \ {0}
      /\ t >= f => y = s * x
      /\ ~(t >= f) => x = s * y
  BY ScaleFacts
<1>2. p \in Nat /\ d \in Nat \ {0}
  BY DEF UsableRate
<1>0. n = 0 => p = 0
  BY DEF UsableRate
<1>3. /\ Numerator(r, n, f, t) = p * (IF t >= f THEN s ELSE 1)
      /\ Denominator(r, f, t) = d * (IF t >= f THEN 1 ELSE s)
  BY DEF Numerator, Denominator
<1> HIDE DEF s, p, d, x, y
<1>4. CASE t >= f
  <2>1. Numerator(r, n, f, t) = p * s /\ Denominator(r, f, t) = d
    BY <1>2, <1>3, <1>4
  <2>2. p * s \in Nat /\ p * y = (p * s) * x
    BY <1>1, <1>2, <1>4, TimesOrder
  <2>3. InUnits(r, n, f, t, x)
    BY <1>1, <2>1, <2>2 DEF InUnits, p, d, x, y
  <2> QED
    BY <1>0, <1>1, <1>2, <2>1, <2>2, <2>3
<1>5. CASE ~(t >= f)
  <2>1. Numerator(r, n, f, t) = p /\ Denominator(r, f, t) = d * s
    BY <1>2, <1>3, <1>5
  <2>2. d * s \in Nat \ {0} /\ d * x = (d * s) * y
    BY <1>1, <1>2, <1>5, TimesOrder
  <2>3. InUnits(r, n, f, t, y)
    BY <1>1, <2>1, <2>2 DEF InUnits, p, d, x, y
  <2> QED
    BY <1>0, <1>1, <1>2, <2>1, <2>2, <2>3
<1> QED
  BY <1>4, <1>5

(* A conversion that does not fail rounds the exact ratio. *)
LEMMA ConvertRounds ==
  ASSUME NEW r, UsableRate(r), NEW n \in Nat, NEW f \in 0 .. 255, NEW t \in 0 .. 255,
         ConvertFromTo(r, n, f, t) # Overflow
  PROVE  /\ ConvertFromTo(r, n, f, t) \in 0 .. MaxU64
         /\ IsRounded(r.rounding, ConvertFromTo(r, n, f, t),
                      n * r.numerator * Pow10[t], r.denominator * Pow10[f])
<1> DEFINE a == Numerator(r, n, f, t)
           b == Denominator(r, f, t)
           q == Divided(r.rounding, a, b)
           c == ConvertFromTo(r, n, f, t)
<1>1. a \in Nat /\ b \in Nat \ {0} /\ (n = 0 => a = 0)
  BY SameRatio
<1>2. PICK k : InUnits(r, n, f, t, k)
  BY SameRatio
<1>3. /\ k \in Nat \ {0}
      /\ n * r.numerator * Pow10[t] = a * k /\ r.denominator * Pow10[f] = b * k
  BY <1>2 DEF InUnits
<1>4. /\ n = 0 => c = 0
      /\ n # 0 => c = q /\ q <= MaxU64
  BY DEF ConvertFromTo
<1> HIDE DEF a, b, c
<1>5. q \in Nat /\ IsRounded(r.rounding, q, a, b)
  BY <1>1, DividedExact DEF UsableRate
<1> HIDE DEF q
<1>6. MaxU64 \in Nat
  BY WidthAssumption
<1>7. c \in 0 .. MaxU64
  BY <1>4, <1>5, <1>6
<1>8. IsRounded(r.rounding, c, a, b)
  <2>1. CASE n = 0
    <3>1. a = 0 /\ c = 0 /\ 0 * b = 0 /\ (0 - 1) * b = 0 - b /\ (0 + 1) * b = b
      BY <1>1, <1>4, <2>1
    <3> QED
      BY <1>1, <3>1 DEF IsRounded
  <2>2. CASE n # 0
    BY <1>4, <1>5, <2>2
  <2> QED
    BY <2>1, <2>2
<1>9. IsRounded(r.rounding, c, a * k, b * k)
  <2>1. c \in Nat
    BY <1>6, <1>7
  <2> QED
    BY <1>1, <1>3, <1>8, <2>1, RoundedScaled
<1> QED
  BY <1>3, <1>7, <1>9 DEF c

-----------------------------------------------------------------------------
(* A product of numbers of 64 bits fits in 128, and one that does not fit   *)
(* is beyond any quotient of 64 bits by a number of 64 bits.                *)
LEMMA WideEnough ==
  ASSUME NEW a \in 0 .. MaxU64, NEW b \in 0 .. MaxU64
  PROVE  /\ a * b <= MaxU64 * MaxU64 /\ MaxU64 * MaxU64 <= MaxU128
         /\ a * b \in Nat /\ MaxU64 * MaxU64 \in Nat /\ MaxU128 \in Nat
<1>1. a \in Nat /\ b \in Nat /\ MaxU64 \in Nat
  BY WidthAssumption
<1>2. a * b <= MaxU64 * b /\ b * MaxU64 <= MaxU64 * MaxU64
  BY <1>1, TimesMonotone
<1>3. /\ a * b \in Nat /\ MaxU64 * b \in Nat /\ MaxU64 * MaxU64 \in Nat
      /\ MaxU64 * b = b * MaxU64
  BY <1>1, TimesOrder
<1>4. (MaxU64 + 1) * (MaxU64 + 1) - 1 = MaxU64 * MaxU64 + MaxU64 + MaxU64
  BY <1>1
<1>5. MaxU128 = MaxU64 * MaxU64 + MaxU64 + MaxU64
  BY <1>4, WidthAssumption
<1> QED
  BY <1>1, <1>2, <1>3, <1>5

SmallRate(r) ==
  /\ UsableRate(r)
  /\ r.numerator \in 1 .. MaxU64 /\ r.denominator \in 1 .. MaxU64

(* A conversion that fails could not have had a result of 64 bits: the      *)
(* power of ten is out of range, or the exact ratio is.                     *)
LEMMA ConvertFails ==
  ASSUME NEW r, SmallRate(r), NEW n \in 0 .. MaxU64, NEW f \in 0 .. 255, NEW t \in 0 .. 255,
         ConvertFromTo(r, n, f, t) = Overflow
  PROVE  \/ Pow10[t] > MaxU64 * Pow10[f]
         \/ Pow10[f] > MaxU64 * Pow10[t]
         \/ n * r.numerator * Pow10[t] > MaxU64 * (r.denominator * Pow10[f])
<1> DEFINE s == Scale(f, t)
           a == Numerator(r, n, f, t)
           b == Denominator(r, f, t)
           q == Divided(r.rounding, a, b)
           x == Pow10[f]
           y == Pow10[t]
           p == n * r.numerator
           d == r.denominator
<1>1. /\ UsableRate(r) /\ n \in Nat /\ MaxU64 \in Nat
      /\ p \in Nat /\ d \in 1 .. MaxU64 /\ p <= MaxU64 * MaxU64
  BY WideEnough, WidthAssumption DEF SmallRate
<1>0. MaxU128 \in Nat
  <2>1. 0 \in 0 .. MaxU64
    BY <1>1
  <2> QED
    BY <2>1, WideEnough
<1>2. a \in Nat /\ b \in Nat \ {0}
  BY <1>1, SameRatio
<1>3. PICK k : InUnits(r, n, f, t, k)
  BY <1>1, SameRatio
<1>4. q \in Nat /\ IsRounded(r.rounding, q, a, b)
  BY <1>1, <1>2, DividedExact DEF UsableRate
<1>5. /\ x \in Nat \ {0} /\ y \in Nat \ {0} /\ s \in Nat \ {0}
      /\ t >= f => y = s * x
      /\ ~(t >= f) => x = s * y
  BY ScaleFacts
<1>6. s > MaxU64 \/ a > MaxU128 \/ b > MaxU128 \/ q > MaxU64
  <2>1. ~(s <= MaxU64 /\ a <= MaxU128 /\ b <= MaxU128 /\ q <= MaxU64)
    <3> HIDE DEF s
    <3>1. q # -1 /\ 0 # -1
      BY <1>4
    <3> QED
      BY <3>1 DEF ConvertFromTo, ProductsFit, Overflow, s
  <2> HIDE DEF s, a, b, q
  <2> QED
    BY <2>1, <1>0, <1>1, <1>2, <1>4, <1>5
<1>7. /\ t >= f => a = p * s /\ b = d
      /\ ~(t >= f) => a = p /\ b = d * s
  <2>1. p * 1 = p /\ d * 1 = d
    BY <1>1
  <2> QED
    BY <2>1 DEF Numerator, Denominator
<1> HIDE DEF s, a, b, q, x, y, p, d
<1>8. CASE s > MaxU64
  <2>1. MaxU64 * x < s * x /\ MaxU64 * y < s * y
    BY <1>1, <1>5, <1>8, TimesMonotone
  <2> QED
    BY <1>5, <2>1 DEF x, y
<1>9. CASE s <= MaxU64
  <2>1. a > MaxU64 * b
    <3>1. CASE q > MaxU64
      BY <1>1, <1>2, <1>4, <3>1, RoundedExceeds
    <3>2. CASE b > MaxU128
      <4>1. d * s <= MaxU128 /\ d <= MaxU128
        BY <1>1, <1>5, <1>9, WideEnough
      <4> QED
        BY <1>0, <1>1, <1>2, <1>7, <3>2, <4>1
    <3>3. CASE a > MaxU128
      <4>1. p <= MaxU128 /\ MaxU64 * MaxU64 <= MaxU128 /\ MaxU128 \in Nat
            /\ MaxU64 * MaxU64 \in Nat
        BY <1>1, WideEnough
      <4>2. t >= f
        BY <1>7, <3>3, <4>1, <1>1
      <4>3. b = d /\ MaxU64 * b <= MaxU64 * MaxU64 /\ MaxU64 * b \in Nat
        BY <1>1, <1>7, <4>2, WideEnough
      <4> QED
        BY <1>2, <3>3, <4>1, <4>3
    <3> QED
      BY <1>6, <1>9, <3>1, <3>2, <3>3, <1>1, <1>5
  <2>2. /\ k \in Nat \ {0}
        /\ n * r.numerator * Pow10[t] = a * k /\ r.denominator * Pow10[f] = b * k
    BY <1>3 DEF InUnits, a, b
  <2>3. /\ MaxU64 * b \in Nat /\ (MaxU64 * b) * k = MaxU64 * (b * k)
        /\ (MaxU64 * b) * k < a * k
    <3>1. MaxU64 * b \in Nat /\ (MaxU64 * b) * k = MaxU64 * (b * k)
      BY <1>1, <1>2, <2>2, TimesOrder
    <3> QED
      BY <1>2, <2>1, <2>2, <3>1, TimesMonotone
  <2>4. a * k > MaxU64 * (b * k)
    <3>1. a * k \in Nat /\ MaxU64 * (b * k) \in Nat
      BY <1>1, <1>2, <2>2, TimesOrder
    <3> QED
      BY <2>3, <3>1
  <2> QED
    BY <2>2, <2>4
<1> QED
  BY <1>8, <1>9, <1>1, <1>5

LEMMA TypedRate ==
  ASSUME RateType
  PROVE  /\ SmallRate(rate) /\ UsableRate(rate)
         /\ amount \in 0 .. MaxU64 /\ amount \in Nat
         /\ from \in 0 .. 255 /\ to \in 0 .. 255
BY RatesAssumption, WidthAssumption DEF RateType, ValidRate, SmallRate, UsableRate

(* A split computes the exact ratio, rounded as its rate says, or fails     *)
(* because the product does not fit, whatever the width of the integers.    *)
THEOREM CalculateAlwaysExact == RateSpec => []CalculateIsExact
<1>1. ASSUME RateType PROVE CalculateIsExact
  <2>1. UsableRate(rate) /\ amount \in Nat /\ \A x \in Nat : x >= 0
    BY <1>1, TypedRate
  <2> QED
    BY <2>1, CalculateExact DEF CalculateIsExact
<1> QED
  BY <1>1, RateTyped, PTL

(* A conversion computes the exact ratio between the mints' units, rounded  *)
(* as its rate says; when it fails, the power of ten or the exact result    *)
(* would not fit in 64 bits, so the products of 128 bits never decide.      *)
THEOREM ConvertAlwaysExact == RateSpec => []ConvertIsExact
<1>1. ASSUME RateType PROVE ConvertIsExact
  <2>1. /\ SmallRate(rate) /\ UsableRate(rate) /\ amount \in 0 .. MaxU64 /\ amount \in Nat
        /\ from \in 0 .. 255 /\ to \in 0 .. 255
    BY <1>1, TypedRate
  <2>2. CASE ConvertFromTo(rate, amount, from, to) = Overflow
    BY <2>1, <2>2, ConvertFails DEF ConvertIsExact
  <2>3. CASE ConvertFromTo(rate, amount, from, to) # Overflow
    BY <2>1, <2>3, ConvertRounds DEF ConvertIsExact
  <2> QED
    BY <2>2, <2>3
<1> QED
  BY <1>1, RateTyped, PTL

-----------------------------------------------------------------------------
(* A rounded quotient is at most what is divided. *)
LEMMA RoundedShrinks ==
  ASSUME NEW rounding, NEW q \in Nat, NEW a \in Nat, NEW b \in Nat \ {0},
         IsRounded(rounding, q, a, b)
  PROVE  q <= a
<1> SUFFICES ASSUME q > a PROVE FALSE
  OBVIOUS
<1>1. a > a * b
  BY RoundedExceeds
<1>2. a * 1 <= b * a /\ a * b = b * a /\ 1 * a <= b * a /\ 1 * a = a /\ a * b \in Nat
  BY TimesMonotone, TimesOrder
<1> QED
  BY <1>1, <1>2

(* Between mints of equal decimals a conversion is a split, where the split *)
(* can be computed at all.                                                  *)
LEMMA EqualDecimals ==
  ASSUME NEW r, SmallRate(r), NEW n \in 0 .. MaxU64,
         NEW f \in 0 .. 255, Calculate(r, n) # Overflow
  PROVE  ConvertFromTo(r, n, f, f) = Calculate(r, n)
<1> DEFINE p == n * r.numerator
           q == Divided(r.rounding, p, r.denominator)
<1>1. /\ n \in Nat /\ MaxU64 \in Nat \ {0} /\ p \in Nat
      /\ r.denominator \in Nat \ {0} /\ r.denominator <= MaxU64
      /\ MaxU64 <= MaxU128 /\ MaxU128 \in Nat
  <2>1. 1 * MaxU64 <= MaxU64 * MaxU64 /\ 1 * MaxU64 = MaxU64 /\ MaxU64 * MaxU64 <= MaxU128
        /\ MaxU64 * MaxU64 \in Nat /\ MaxU128 \in Nat
    BY WidthAssumption, TimesMonotone, WideEnough
  <2>2. MaxU64 <= MaxU128
    BY <2>1, WidthAssumption
  <2> QED
    BY <2>1, <2>2, WidthAssumption DEF SmallRate, UsableRate
<1>2. /\ p <= MaxU64 /\ q \in Nat /\ IsRounded(r.rounding, q, p, r.denominator)
      /\ Calculate(r, n) = q
  BY <1>1, CalculateExact DEF Calculate, SmallRate
<1>3. q <= p
  BY <1>1, <1>2, RoundedShrinks
<1>4. Scale(f, f) = 1
  BY ScaleFacts
<1>5. Numerator(r, n, f, f) = p /\ Denominator(r, f, f) = r.denominator
  <2>1. p * 1 = p /\ r.denominator * 1 = r.denominator
    BY <1>1
  <2> QED
    BY <1>4, <2>1 DEF Numerator, Denominator
<1>6. CASE n = 0
  <2>1. p = 0
    BY <1>6 DEF SmallRate, UsableRate
  <2>2. q = 0
    BY <1>2, <1>3, <2>1
  <2> QED
    BY <1>2, <1>6, <2>2 DEF ConvertFromTo
<1>7. CASE n # 0
  <2>1. /\ 1 <= MaxU64 /\ p <= MaxU128 /\ r.denominator <= MaxU128 /\ q <= MaxU64
    <3> HIDE DEF p, q
    <3> QED
      BY <1>1, <1>2, <1>3
  <2> QED
    BY <1>2, <1>4, <1>5, <1>7, <2>1 DEF ConvertFromTo, ProductsFit
<1> QED
  BY <1>6, <1>7

THEOREM ConvertAlwaysAgreesWithSplit == RateSpec => []ConvertAgreesWithSplit
<1>1. ASSUME RateType PROVE ConvertAgreesWithSplit
  BY <1>1, TypedRate, EqualDecimals DEF ConvertAgreesWithSplit
<1> QED
  BY <1>1, RateTyped, PTL

-----------------------------------------------------------------------------
(* There and back: what is paid out has, exactly, no more value than what   *)
(* was given, twice.                                                        *)
LEMMA InverseUsable ==
  ASSUME NEW r, UsableRate(r), r.rounding = "Down"
  PROVE  /\ UsableRate(InverseRate(r)) /\ InverseRate(r).rounding = "Down"
         /\ InverseRate(r).numerator = r.denominator
         /\ InverseRate(r).denominator = r.numerator
<1>1. /\ r \in [rounding : {"Up", "Down"}, numerator : Nat, denominator : Nat]
      /\ r.numerator # 0 /\ r.denominator # 0
  BY DEF UsableRate
<1>2. /\ InverseRate(r) \in [rounding : {"Up", "Down"}, numerator : Nat, denominator : Nat]
      /\ InverseRate(r).rounding = "Down"
      /\ InverseRate(r).numerator = r.denominator
      /\ InverseRate(r).denominator = r.numerator
  BY <1>1 DEF InverseRate
<1> QED
  BY <1>1, <1>2 DEF UsableRate

LEMMA SplitRoundTrip ==
  ASSUME NEW r, UsableRate(r), r.rounding = "Down", NEW n \in Nat, Calculate(r, n) # Overflow
  PROVE  Calculate(InverseRate(r), Calculate(r, n)) <= n
<1> DEFINE there == Calculate(r, n)
           back  == Calculate(InverseRate(r), there)
           a     == r.numerator
           b     == r.denominator
<1>1. a \in Nat \ {0} /\ b \in Nat \ {0}
  BY DEF UsableRate
<1>2. there \in Nat /\ there * b <= n * a
  BY CalculateExact DEF IsRounded
<1> HIDE DEF there
<1>3. CASE back = Overflow
  BY <1>3 DEF Overflow, there
<1>4. CASE back # Overflow
  <2>1. back \in Nat /\ back * a <= there * b
    <3>1. /\ UsableRate(InverseRate(r)) /\ InverseRate(r).rounding = "Down"
          /\ InverseRate(r).numerator = b /\ InverseRate(r).denominator = a
      BY InverseUsable
    <3> HIDE DEF a, b
    <3>2. back \in Nat /\ IsRounded("Down", back, there * b, a)
      BY <1>2, <1>4, <3>1, CalculateExact
    <3> QED
      BY <3>2 DEF IsRounded
  <2> HIDE DEF back, a, b
  <2>2. back * a \in Nat /\ there * b \in Nat /\ n * a \in Nat
    BY <1>1, <1>2, <2>1, TimesOrder
  <2>3. back * a <= n * a
    BY <1>2, <2>1, <2>2
  <2>4. back <= n
    BY <1>1, <2>1, <2>3, TimesCancel
  <2> QED
    BY <2>4 DEF back, there
<1> QED
  BY <1>3, <1>4

LEMMA ConvertRoundTrip ==
  ASSUME NEW r, UsableRate(r), r.rounding = "Down", NEW n \in Nat,
         NEW f \in 0 .. 255, NEW t \in 0 .. 255, ConvertFromTo(r, n, f, t) # Overflow
  PROVE  ConvertFromTo(InverseRate(r), ConvertFromTo(r, n, f, t), t, f) <= n
<1> DEFINE there == ConvertFromTo(r, n, f, t)
           back  == ConvertFromTo(InverseRate(r), there, t, f)
           a     == r.numerator
           b     == r.denominator
           x     == Pow10[f]
           y     == Pow10[t]
<1>1. /\ a \in Nat \ {0} /\ b \in Nat \ {0}
      /\ x \in Nat \ {0} /\ y \in Nat \ {0} /\ MaxU64 \in Nat
  BY ScaleFacts, WidthAssumption DEF UsableRate
<1>2. there \in Nat /\ there * (b * x) <= n * a * y
  <2>1. there \in 0 .. MaxU64 /\ IsRounded("Down", there, n * a * y, b * x)
    BY ConvertRounds
  <2> HIDE DEF there
  <2> QED
    BY <1>1, <2>1 DEF IsRounded
<1> HIDE DEF there
<1>3. CASE back = Overflow
  BY <1>3 DEF Overflow, there
<1>4. CASE back # Overflow
  <2>1. back \in Nat /\ back * (a * y) <= there * b * x
    <3>1. /\ UsableRate(InverseRate(r)) /\ InverseRate(r).rounding = "Down"
          /\ InverseRate(r).numerator = b /\ InverseRate(r).denominator = a
      BY InverseUsable
    <3>2. back \in 0 .. MaxU64 /\ IsRounded("Down", back, there * b * x, a * y)
      <4> HIDE DEF a, b
      <4> QED
        BY <1>2, <1>4, <3>1, ConvertRounds
    <3> HIDE DEF back, a, b, x, y
    <3> QED
      BY <1>1, <3>2 DEF IsRounded
  <2> HIDE DEF back, a, b, x, y
  <2>2. /\ there * b * x = there * (b * x) /\ n * a * y = n * (a * y)
        /\ a * y \in Nat /\ b * x \in Nat
    BY <1>1, <1>2, TimesOrder
  <2>3. a * y \in Nat \ {0}
    BY <1>1, TimesCancel
  <2>4. back * (a * y) \in Nat /\ there * (b * x) \in Nat /\ n * (a * y) \in Nat
    BY <1>2, <2>1, <2>2, TimesOrder
  <2>5. back * (a * y) <= n * (a * y)
    BY <1>2, <2>1, <2>2, <2>4
  <2>6. back <= n
    BY <2>1, <2>3, <2>5, TimesCancel
  <2> QED
    BY <2>6 DEF back, there
<1> QED
  BY <1>3, <1>4

(* A holder who is split and split back, or converts and converts back at   *)
(* the inverse rate, both rounding down, never has more than before,        *)
(* whatever the amounts, the decimals and the width of the integers.        *)
THEOREM RoundTripNeverEverGains == RateSpec => []RoundTripNeverGains
<1>1. ASSUME RateType PROVE RoundTripNeverGains
  BY <1>1, TypedRate, SplitRoundTrip, ConvertRoundTrip DEF RoundTripNeverGains
<1> QED
  BY <1>1, RateTyped, PTL

-----------------------------------------------------------------------------
(* Order.  The larger amount has the larger products, so that whenever it   *)
(* can be computed the smaller can.                                         *)
LEMMA SplitOrder ==
  ASSUME NEW r, UsableRate(r), NEW n \in Nat, NEW m \in Nat, n <= m,
         Calculate(r, m) # Overflow
  PROVE  Calculate(r, n) \in 0 .. Calculate(r, m)
<1>1. /\ r.numerator \in Nat \ {0} /\ r.denominator \in Nat \ {0}
      /\ r.rounding \in {"Up", "Down"}
  BY DEF UsableRate
<1>2. /\ n * r.numerator \in Nat /\ m * r.numerator \in Nat
      /\ n * r.numerator <= m * r.numerator
  BY <1>1, TimesMonotone
<1>3. /\ Calculate(r, m) \in Nat
      /\ IsRounded(r.rounding, Calculate(r, m), m * r.numerator, r.denominator)
      /\ m * r.numerator <= MaxU64
  BY CalculateExact, <1>2, WidthAssumption
<1>4. /\ Calculate(r, n) \in Nat
      /\ IsRounded(r.rounding, Calculate(r, n), n * r.numerator, r.denominator)
  <2>1. ~(n * r.numerator > MaxU64)
    BY <1>2, <1>3, WidthAssumption
  <2> QED
    BY <2>1, CalculateExact
<1>5. Calculate(r, n) <= Calculate(r, m)
  BY <1>1, <1>2, <1>3, <1>4, RoundedMonotonic
<1> QED
  BY <1>3, <1>4, <1>5

LEMMA ConvertOrder ==
  ASSUME NEW r, UsableRate(r), NEW n \in Nat, NEW m \in Nat, n <= m,
         NEW f \in 0 .. 255, NEW t \in 0 .. 255, ConvertFromTo(r, m, f, t) # Overflow
  PROVE  ConvertFromTo(r, n, f, t) \in 0 .. ConvertFromTo(r, m, f, t)
<1> DEFINE c == Numerator(r, n, f, t)
           a == Numerator(r, m, f, t)
           b == Denominator(r, f, t)
           p == Divided(r.rounding, c, b)
           q == Divided(r.rounding, a, b)
<1>1. ConvertFromTo(r, m, f, t) \in Nat
  <2>1. ConvertFromTo(r, m, f, t) \in 0 .. MaxU64
    BY ConvertRounds
  <2> QED
    BY <2>1, WidthAssumption
<1>2. CASE n = 0
  <2>1. ConvertFromTo(r, n, f, t) = 0
    BY <1>2 DEF ConvertFromTo
  <2> QED
    BY <1>1, <2>1
<1>3. CASE n # 0
  <2>1. /\ c \in Nat /\ a \in Nat /\ b \in Nat \ {0}
        /\ r.rounding \in {"Up", "Down"} /\ r.numerator \in Nat
    BY SameRatio DEF UsableRate
  <2>2. c <= a
    <3> DEFINE k == IF t >= f THEN Scale(f, t) ELSE 1
    <3>1. k \in Nat
      <4>1. Scale(f, t) \in Nat
        BY ScaleFacts
      <4> QED
        BY <4>1
    <3>2. c = n * r.numerator * k /\ a = m * r.numerator * k
      BY DEF Numerator
    <3> HIDE DEF k, c, a
    <3>3. n * r.numerator <= m * r.numerator /\ n * r.numerator \in Nat
          /\ m * r.numerator \in Nat
      BY <2>1, TimesMonotone
    <3> QED
      BY <3>1, <3>2, <3>3, TimesMonotone
  <2>3. /\ m # 0 /\ Scale(f, t) <= MaxU64 /\ a <= MaxU128 /\ b <= MaxU128 /\ q <= MaxU64
        /\ ConvertFromTo(r, m, f, t) = q
    BY <1>3 DEF ConvertFromTo, ProductsFit
  <2>4. /\ p \in Nat /\ q \in Nat
        /\ IsRounded(r.rounding, p, c, b) /\ IsRounded(r.rounding, q, a, b)
    BY <2>1, DividedExact
  <2>5. p <= q
    <3> HIDE DEF p, q, a, b, c
    <3> QED
      BY <2>1, <2>2, <2>4, RoundedMonotonic
  <2>6. c <= MaxU128 /\ p <= MaxU64
    <3>1. MaxU128 \in Nat /\ MaxU64 \in Nat
      <4>1. MaxU64 \in Nat /\ 0 \in 0 .. MaxU64
        BY WidthAssumption
      <4> QED
        BY <4>1, WideEnough
    <3> HIDE DEF p, q, a, b, c
    <3> QED
      BY <2>1, <2>2, <2>3, <2>4, <2>5, <3>1
  <2>7. ConvertFromTo(r, n, f, t) = p
    BY <1>3, <2>3, <2>6 DEF ConvertFromTo, ProductsFit
  <2> QED
    BY <2>3, <2>4, <2>5, <2>7
<1> QED
  BY <1>2, <1>3

(* A larger holding never becomes the smaller one, in a split or in a       *)
(* conversion.                                                              *)
THEOREM OrderAlwaysPreserved == RateSpec => OrderPreserved
<1>1. ASSUME RateType, RateType', [NextAmount]_inputs
      PROVE  [amount' > amount =>
                /\ Calculate(rate, amount') # Overflow =>
                     Calculate(rate, amount) \in 0 .. Calculate(rate, amount')
                /\ ConvertFromTo(rate, amount', from, to) # Overflow =>
                     ConvertFromTo(rate, amount, from, to) \in
                       0 .. ConvertFromTo(rate, amount', from, to)]_inputs
  <2>1. /\ UsableRate(rate) /\ amount \in Nat /\ amount' \in Nat
        /\ from \in 0 .. 255 /\ to \in 0 .. 255
    BY <1>1, TypedRate, WidthAssumption DEF RateType
  <2>2. amount' > amount => amount <= amount'
    BY <2>1
  <2> QED
    BY <2>1, <2>2, SplitOrder, ConvertOrder
<1> QED
  BY <1>1, RateTyped, PTL DEF RateSpec, OrderPreserved

-----------------------------------------------------------------------------
(***************************************************************************)
(* Merkle proofs.  DataProofs compares the way up from a leaf with the     *)
(* rows of the tree; here the state is any tree and any allegation.        *)
(***************************************************************************)
AllegedType ==
  /\ tree \in Trees
  /\ node \in Leaves
  /\ proof \in Attempts(tree)
  /\ index \in Nat

LEMMA AttemptsAreLists ==
  ASSUME NEW leaves \in Trees, NEW p \in Attempts(leaves)
  PROVE  \E T : p \in Seq(T)
<1>1. leaves \in Seq(Leaves) /\ IsComplete(leaves) /\ Len(leaves) > 1
  BY TreesAssumption
<1>2. Depth(leaves) \in Nat
  BY <1>1, HighTree
<1>3. PICK i \in 0 .. Len(leaves) - 1 :
        LET q == ProofOf(leaves, i) IN p \in {q, Reverse(q), SubSeq(q, 1, Len(q) - 1)}
  BY DEF Attempts
<1> DEFINE q == ProofOf(leaves, i)
<1>4. PICK T : q \in [1 .. Depth(leaves) -> T]
  BY <1>2, ProofIsList
<1> HIDE DEF q
<1>5. q \in Seq(T) /\ Len(q) = Depth(leaves)
  BY <1>2, <1>4
<1>6. Reverse(q) \in Seq(T)
  <2> DEFINE n == Len(q)
  <2>1. n \in Nat /\ Reverse(q) = [j \in 1 .. n |-> q[(n - j) + 1]]
    BY <1>2, <1>5 DEF Reverse
  <2>2. \A j \in 1 .. n : (n - j) + 1 \in 1 .. n
    BY <2>1
  <2>3. \A j \in 1 .. n : q[j] \in T
    BY <1>5
  <2> HIDE DEF n
  <2>4. Reverse(q) \in [1 .. n -> T]
    BY <2>1, <2>2, <2>3
  <2> QED
    BY <2>1, <2>4
<1>7. SubSeq(q, 1, Len(q) - 1) \in Seq(T)
  <2> DEFINE n == Len(q)
  <2>1. n \in Nat /\ \A j \in 1 .. n : q[j] \in T
    BY <1>2, <1>5
  <2>2. \A j \in 1 .. n - 1 : q[j] \in T
    BY <2>1
  <2> QED
    BY <1>5, <2>1, <2>2
<1> QED
  BY <1>3, <1>5, <1>6, <1>7 DEF q

LEMMA AcceptedExactly == AllegedType => AcceptsExactlyMembers
<1> SUFFICES ASSUME AllegedType PROVE AcceptsExactlyMembers
  OBVIOUS
<1>1. /\ tree \in Seq(Leaves) /\ IsComplete(tree) /\ Len(tree) > 1
      /\ index \in Nat /\ IsLeaf(node)
      /\ \A x \in Leaves : IsLeaf(x)
  <2>1. \A x \in Leaves : IsLeaf(x)
    BY LeafNodeIsLeaf DEF Leaves
  <2> QED
    BY <2>1, TreesAssumption DEF AllegedType
<1>2. PICK T : proof \in Seq(T)
  BY AttemptsAreLists DEF AllegedType
<1>3. ASSUME VerifyMerkleProof(node, TreeRoot(tree), proof, index)
      PROVE  index < Len(tree) /\ node = tree[index + 1] /\ proof = ProofOf(tree, index)
  <2>1. proof # << >>
    BY <1>1, <1>3, EmptyProofRefused
  <2> QED
    BY <1>1, <1>2, <1>3, <2>1, AcceptedIsMember
<1>4. ASSUME index < Len(tree), node = tree[index + 1], proof = ProofOf(tree, index)
      PROVE  VerifyMerkleProof(node, TreeRoot(tree), proof, index)
  BY <1>1, <1>4, MemberIsAccepted
<1> QED
  BY <1>3, <1>4 DEF AcceptsExactlyMembers

(* For every tree and every proof, whole, cut short or upside down, at any  *)
(* index: a leaf is accepted exactly where it is (verify_merkle_proof).     *)
THEOREM AlwaysAcceptsExactlyMembers == MerkleSpec => []AcceptsExactlyMembers
<1>1. MerkleInit => AllegedType
  BY TreesAssumption DEF MerkleInit, Allege, AllegedType
<1>2. AllegedType /\ [AllegeAnother]_<<tree, alleged>> => AllegedType'
  BY TreesAssumption DEF AllegedType, AllegeAnother, alleged, Leaves, Attempts
<1> QED
  BY <1>1, <1>2, AcceptedExactly, PTL DEF MerkleSpec

-----------------------------------------------------------------------------
(***************************************************************************)
(* The accounts of a call.  That the client's tables, the positions of the *)
(* handlers and those of the verification program agree is checked table   *)
(* by table (HandlerTables, VerifierTables); that building, merging and    *)
(* stripping keep every account at its position is proved once, for any    *)
(* table (DeliveredKeys, VerifiedStretch).                                 *)
(***************************************************************************)
(* The tables of an instruction: those of its own accounts come after the  *)
(* ones that verification strips.                                          *)
Offset(op) == IF op = "InitializeMint" THEN 0 ELSE 3
OptionalNames(op) ==
  CASE op \in WritesConfiguration -> HookFields
    [] op = "ClaimDistribution" -> {"escrow_token_account", "proof_account"}
    [] op = "CloseClaimReceiptAccount" -> {"proof_account"}
    [] OTHER -> {}
Either == {"verification_config_or_mint_authority", "instructions_sysvar_or_creator"}

Sized(s) == Len(s) \in Nat /\ DOMAIN s = 1 .. Len(s)

(* A table of the client and the names under which its accounts are taken: *)
(* position by position they mean the same account, and what may be left   *)
(* out has the same name on both sides.                                    *)
Fits(table, names, off, opt) ==
  /\ Sized(table) /\ Sized(names)
  /\ off + Len(names) <= Len(table)
  /\ \A i \in 1 .. Len(table) : table[i].optional <=> table[i].name \in opt
  /\ \A i \in 1 .. Len(names) :
       LET field == table[off + i]
       IN  /\ AddressOf(field.name) = AddressOf(names[i])
           /\ field.name \notin Either
           /\ field.name \in opt \/ names[i] \in opt => field.name = names[i]

NamesOf(takes) == [i \in DOMAIN takes |-> takes[i].name]

(* With what the handlers of configurations take if it is Transfer's.      *)
FitsAlone(table, takes, off, opt) == Fits(table, NamesOf(takes \o << >>), off, opt)
FitsWithHook(table, takes) == Fits(table, NamesOf(takes \o TransferHookTakes), 3, HookFields)

LEMMA Aliases ==
  /\ AddressOf("mint") = AddressOf("mint_info")
  /\ AddressOf("mint_account") = AddressOf("mint_info")
  /\ AddressOf("mint_to") = AddressOf("mint_to_account")
  /\ AddressOf("mint_to") = AddressOf("mint_to_info_account")
  /\ AddressOf("mint_account") = AddressOf("mint")
  /\ AddressOf("mint_from") = AddressOf("mint_from_account")
  /\ AddressOf("destination") = AddressOf("destination_account")
  /\ AddressOf("destination") = AddressOf("destination_account_info")
  /\ AddressOf("permanent_delegate") = AddressOf("permanent_delegate_authority")
  /\ AddressOf("rate_account") = AddressOf("rate_account_info")
  /\ AddressOf("authority") = AddressOf("mint_authority_account")
  /\ AddressOf("payer") = AddressOf("creator_info")
  /\ AddressOf("system_program") = AddressOf("system_program_info")
  /\ AddressOf("token_program") = AddressOf("token_program_info")
  /\ AddressOf("rent_sysvar") = AddressOf("rent_info")
BY DEF AddressOf

LEMMA HandlerTables ==
  ASSUME NEW external
  PROVE
    /\ FitsAlone(InitializeMintAccounts, InitializeMintTakes, 0, {})
    /\ FitsAlone(UpdateMetadataAccounts, UpdateMetadataTakes, 3, {})
    /\ FitsAlone(InitializeVerificationConfigAccounts, InitializeVerificationConfigTakes, 3,
                 HookFields)
    /\ FitsWithHook(InitializeVerificationConfigAccounts, InitializeVerificationConfigTakes)
    /\ FitsAlone(UpdateVerificationConfigAccounts, UpdateVerificationConfigTakes, 3, HookFields)
    /\ FitsWithHook(UpdateVerificationConfigAccounts, UpdateVerificationConfigTakes)
    /\ FitsAlone(TrimVerificationConfigAccounts, TrimVerificationConfigTakes, 3, HookFields)
    /\ FitsWithHook(TrimVerificationConfigAccounts, TrimVerificationConfigTakes)
    /\ FitsAlone(MintAccounts, ExecuteMintTakes, 3, {})
    /\ FitsAlone(BurnAccounts, ExecuteBurnTakes, 3, {})
    /\ FitsAlone(PauseAccounts, ExecutePauseTakes, 3, {})
    /\ FitsAlone(ResumeAccounts, ExecuteResumeTakes, 3, {})
    /\ FitsAlone(FreezeAccounts, ExecuteFreezeTakes, 3, {})
    /\ FitsAlone(ThawAccounts, ExecuteThawTakes, 3, {})
    /\ FitsAlone(TransferAccounts, ExecuteTransferTakes, 3, {})
    /\ FitsAlone(CreateRateAccountAccounts, CreateRateAccountTakes, 3, {})
    /\ FitsAlone(UpdateRateAccountAccounts, UpdateRateAccountTakes, 3, {})
    /\ FitsAlone(CloseRateAccountAccounts, CloseRateAccountTakes, 3, {})
    /\ FitsAlone(SplitAccounts, ExecuteSplitTakes, 3, {})
    /\ FitsAlone(ConvertAccounts, ExecuteConvertTakes, 3, {})
    /\ FitsAlone(CreateProofAccountAccounts, CreateProofAccountTakes, 3, {})
    /\ FitsAlone(UpdateProofAccountAccounts, UpdateProofAccountTakes, 3, {})
    /\ FitsAlone(CreateDistributionEscrowAccounts, CreateDistributionEscrowTakes, 3, {})
    /\ FitsAlone(ClaimDistributionAccounts, ClaimDistributionTakes(external), 3,
                 {"escrow_token_account", "proof_account"})
    /\ FitsAlone(CloseActionReceiptAccountAccounts, CloseActionReceiptTakes, 3, {})
    /\ FitsAlone(CloseClaimReceiptAccountAccounts, CloseClaimReceiptTakes, 3, {"proof_account"})
    /\ FitsAlone(UpdateDefaultAccountStateAccounts, UpdateDefaultAccountStateTakes, 3, {})
<1> USE Aliases DEF FitsAlone, FitsWithHook, Fits, Sized, Either, HookFields, NamesOf,
          ProgramsOverhead, EitherOverhead, Take, TakeWritable, TakeSigner, Field, Readonly,
          Writable, WritableSigner, OptionalReadonly, OptionalWritable
<1>1. FitsAlone(InitializeMintAccounts, InitializeMintTakes, 0, {})
  BY DEF InitializeMintAccounts, InitializeMintTakes
<1>2. FitsAlone(UpdateMetadataAccounts, UpdateMetadataTakes, 3, {})
  BY DEF UpdateMetadataAccounts, UpdateMetadataTakes
<1>3. FitsAlone(InitializeVerificationConfigAccounts, InitializeVerificationConfigTakes, 3,
                HookFields)
  BY DEF InitializeVerificationConfigAccounts, InitializeVerificationConfigTakes
<1>4. FitsWithHook(InitializeVerificationConfigAccounts, InitializeVerificationConfigTakes)
  BY DEF InitializeVerificationConfigAccounts, InitializeVerificationConfigTakes, TransferHookTakes
<1>5. FitsAlone(UpdateVerificationConfigAccounts, UpdateVerificationConfigTakes, 3, HookFields)
  BY DEF UpdateVerificationConfigAccounts, UpdateVerificationConfigTakes
<1>6. FitsWithHook(UpdateVerificationConfigAccounts, UpdateVerificationConfigTakes)
  BY DEF UpdateVerificationConfigAccounts, UpdateVerificationConfigTakes, TransferHookTakes
<1>7. FitsAlone(TrimVerificationConfigAccounts, TrimVerificationConfigTakes, 3, HookFields)
  BY DEF TrimVerificationConfigAccounts, TrimVerificationConfigTakes
<1>8. FitsWithHook(TrimVerificationConfigAccounts, TrimVerificationConfigTakes)
  BY DEF TrimVerificationConfigAccounts, TrimVerificationConfigTakes, TransferHookTakes
<1>9. FitsAlone(MintAccounts, ExecuteMintTakes, 3, {})
  BY DEF MintAccounts, ExecuteMintTakes
<1>10. FitsAlone(BurnAccounts, ExecuteBurnTakes, 3, {})
  BY DEF BurnAccounts, ExecuteBurnTakes
<1>11. FitsAlone(PauseAccounts, ExecutePauseTakes, 3, {})
  BY DEF PauseAccounts, ExecutePauseTakes
<1>12. FitsAlone(ResumeAccounts, ExecuteResumeTakes, 3, {})
  BY DEF ResumeAccounts, ExecuteResumeTakes
<1>13. FitsAlone(FreezeAccounts, ExecuteFreezeTakes, 3, {})
  BY DEF FreezeAccounts, ExecuteFreezeTakes
<1>14. FitsAlone(ThawAccounts, ExecuteThawTakes, 3, {})
  BY DEF ThawAccounts, ExecuteThawTakes
<1>15. FitsAlone(TransferAccounts, ExecuteTransferTakes, 3, {})
  BY DEF TransferAccounts, ExecuteTransferTakes
<1>16. FitsAlone(CreateRateAccountAccounts, CreateRateAccountTakes, 3, {})
  BY DEF CreateRateAccountAccounts, CreateRateAccountTakes
<1>17. FitsAlone(UpdateRateAccountAccounts, UpdateRateAccountTakes, 3, {})
  BY DEF UpdateRateAccountAccounts, UpdateRateAccountTakes
<1>18. FitsAlone(CloseRateAccountAccounts, CloseRateAccountTakes, 3, {})
  BY DEF CloseRateAccountAccounts, CloseRateAccountTakes
<1>19. FitsAlone(SplitAccounts, ExecuteSplitTakes, 3, {})
  BY DEF SplitAccounts, ExecuteSplitTakes
<1>20. FitsAlone(ConvertAccounts, ExecuteConvertTakes, 3, {})
  BY DEF ConvertAccounts, ExecuteConvertTakes
<1>21. FitsAlone(CreateProofAccountAccounts, CreateProofAccountTakes, 3, {})
  BY DEF CreateProofAccountAccounts, CreateProofAccountTakes
<1>22. FitsAlone(UpdateProofAccountAccounts, UpdateProofAccountTakes, 3, {})
  BY DEF UpdateProofAccountAccounts, UpdateProofAccountTakes
<1>23. FitsAlone(CreateDistributionEscrowAccounts, CreateDistributionEscrowTakes, 3, {})
  BY DEF CreateDistributionEscrowAccounts, CreateDistributionEscrowTakes
<1>24. FitsAlone(ClaimDistributionAccounts, ClaimDistributionTakes(external), 3,
                 {"escrow_token_account", "proof_account"})
  BY DEF ClaimDistributionAccounts, ClaimDistributionTakes
<1>25. FitsAlone(CloseActionReceiptAccountAccounts, CloseActionReceiptTakes, 3, {})
  BY DEF CloseActionReceiptAccountAccounts, CloseActionReceiptTakes
<1>26. FitsAlone(CloseClaimReceiptAccountAccounts, CloseClaimReceiptTakes, 3, {"proof_account"})
  BY DEF CloseClaimReceiptAccountAccounts, CloseClaimReceiptTakes
<1>27. FitsAlone(UpdateDefaultAccountStateAccounts, UpdateDefaultAccountStateTakes, 3, {})
  BY DEF UpdateDefaultAccountStateAccounts, UpdateDefaultAccountStateTakes
<1> HIDE Aliases DEF FitsAlone, FitsWithHook
<1> QED
  BY <1>1, <1>2, <1>3, <1>4, <1>5, <1>6, <1>7, <1>8, <1>9, <1>10, <1>11, <1>12,
     <1>13, <1>14, <1>15, <1>16, <1>17, <1>18, <1>19, <1>20, <1>21, <1>22, <1>23, <1>24,
     <1>25, <1>26, <1>27

LEMMA HandlerFits ==
  ASSUME NEW op \in Ops \ {"Verify"}, NEW accounts
  PROVE  /\ Fits(ClientTable[op], NamesOf(HandlerTakes(op, accounts) \o << >>),
                 Offset(op), OptionalNames(op))
         /\ op \in WritesConfiguration =>
              Fits(ClientTable[op], NamesOf(HandlerTakes(op, accounts) \o TransferHookTakes),
                   Offset(op), OptionalNames(op))
BY HandlerTables
   DEF FitsAlone, FitsWithHook, HandlerTakes, ClientTable, Offset, OptionalNames,
       WritesConfiguration, Ops

(* The verification program takes as many accounts as the handler, and     *)
(* none that may be left out.                                              *)
VerifierReads(table, names, takes, opt) ==
  /\ Fits(table, names, 3, opt)
  /\ Len(names) = Len(takes \o << >>)
  /\ Len(names) <= Len(takes \o TransferHookTakes)
  /\ \A i \in 1 .. Len(names) : names[i] \notin opt

LEMMA VerifierTables ==
  /\ VerifierReads(UpdateMetadataAccounts, VerifyUpdateMetadata, UpdateMetadataTakes, {})
  /\ VerifierReads(InitializeVerificationConfigAccounts, VerifyInitializeVerificationConfig,
         InitializeVerificationConfigTakes, HookFields)
  /\ VerifierReads(UpdateVerificationConfigAccounts, VerifyUpdateVerificationConfig,
         UpdateVerificationConfigTakes, HookFields)
  /\ VerifierReads(TrimVerificationConfigAccounts, VerifyTrimVerificationConfig,
         TrimVerificationConfigTakes, HookFields)
  /\ VerifierReads(MintAccounts, VerifyMint, ExecuteMintTakes, {})
  /\ VerifierReads(BurnAccounts, VerifyBurn, ExecuteBurnTakes, {})
  /\ VerifierReads(PauseAccounts, VerifyPause, ExecutePauseTakes, {})
  /\ VerifierReads(ResumeAccounts, VerifyResume, ExecuteResumeTakes, {})
  /\ VerifierReads(FreezeAccounts, VerifyFreeze, ExecuteFreezeTakes, {})
  /\ VerifierReads(ThawAccounts, VerifyThaw, ExecuteThawTakes, {})
  /\ VerifierReads(TransferAccounts, VerifyTransfer, ExecuteTransferTakes, {})
  /\ VerifierReads(CreateRateAccountAccounts, VerifyCreateRateAccount,
         CreateRateAccountTakes, {})
  /\ VerifierReads(UpdateRateAccountAccounts, VerifyUpdateRateAccount,
         UpdateRateAccountTakes, {})
  /\ VerifierReads(CloseRateAccountAccounts, VerifyCloseRateAccount, CloseRateAccountTakes, {})
  /\ VerifierReads(SplitAccounts, VerifySplit, ExecuteSplitTakes, {})
  /\ VerifierReads(ConvertAccounts, VerifyConvert, ExecuteConvertTakes, {})
<1> USE Aliases DEF VerifierReads, Fits, Sized, Either, HookFields, ProgramsOverhead,
          EitherOverhead, TransferHookTakes, Take, TakeWritable, TakeSigner, Field, Readonly,
          Writable, WritableSigner, OptionalReadonly, OptionalWritable
<1>1. VerifierReads(UpdateMetadataAccounts, VerifyUpdateMetadata, UpdateMetadataTakes, {})
  BY DEF UpdateMetadataAccounts, VerifyUpdateMetadata, UpdateMetadataTakes
<1>2. VerifierReads(InitializeVerificationConfigAccounts, VerifyInitializeVerificationConfig,
          InitializeVerificationConfigTakes, HookFields)
  BY DEF InitializeVerificationConfigAccounts, VerifyInitializeVerificationConfig,
         InitializeVerificationConfigTakes
<1>3. VerifierReads(UpdateVerificationConfigAccounts, VerifyUpdateVerificationConfig,
          UpdateVerificationConfigTakes, HookFields)
  BY DEF UpdateVerificationConfigAccounts, VerifyUpdateVerificationConfig,
         UpdateVerificationConfigTakes
<1>4. VerifierReads(TrimVerificationConfigAccounts, VerifyTrimVerificationConfig,
          TrimVerificationConfigTakes, HookFields)
  BY DEF TrimVerificationConfigAccounts, VerifyTrimVerificationConfig, TrimVerificationConfigTakes
<1>5. VerifierReads(MintAccounts, VerifyMint, ExecuteMintTakes, {})
  BY DEF MintAccounts, VerifyMint, ExecuteMintTakes
<1>6. VerifierReads(BurnAccounts, VerifyBurn, ExecuteBurnTakes, {})
  BY DEF BurnAccounts, VerifyBurn, ExecuteBurnTakes
<1>7. VerifierReads(PauseAccounts, VerifyPause, ExecutePauseTakes, {})
  BY DEF PauseAccounts, VerifyPause, ExecutePauseTakes
<1>8. VerifierReads(ResumeAccounts, VerifyResume, ExecuteResumeTakes, {})
  BY DEF ResumeAccounts, VerifyResume, ExecuteResumeTakes
<1>9. VerifierReads(FreezeAccounts, VerifyFreeze, ExecuteFreezeTakes, {})
  BY DEF FreezeAccounts, VerifyFreeze, ExecuteFreezeTakes
<1>10. VerifierReads(ThawAccounts, VerifyThaw, ExecuteThawTakes, {})
  BY DEF ThawAccounts, VerifyThaw, ExecuteThawTakes
<1>11. VerifierReads(TransferAccounts, VerifyTransfer, ExecuteTransferTakes, {})
  BY DEF TransferAccounts, VerifyTransfer, ExecuteTransferTakes
<1>12. VerifierReads(CreateRateAccountAccounts, VerifyCreateRateAccount,
           CreateRateAccountTakes, {})
  BY DEF CreateRateAccountAccounts, VerifyCreateRateAccount, CreateRateAccountTakes
<1>13. VerifierReads(UpdateRateAccountAccounts, VerifyUpdateRateAccount,
           UpdateRateAccountTakes, {})
  BY DEF UpdateRateAccountAccounts, VerifyUpdateRateAccount, UpdateRateAccountTakes
<1>14. VerifierReads(CloseRateAccountAccounts, VerifyCloseRateAccount,
           CloseRateAccountTakes, {})
  BY DEF CloseRateAccountAccounts, VerifyCloseRateAccount, CloseRateAccountTakes
<1>15. VerifierReads(SplitAccounts, VerifySplit, ExecuteSplitTakes, {})
  BY DEF SplitAccounts, VerifySplit, ExecuteSplitTakes
<1>16. VerifierReads(ConvertAccounts, VerifyConvert, ExecuteConvertTakes, {})
  BY DEF ConvertAccounts, VerifyConvert, ExecuteConvertTakes
<1> HIDE Aliases DEF VerifierReads
<1> QED
  BY <1>1, <1>2, <1>3, <1>4, <1>5, <1>6, <1>7, <1>8, <1>9, <1>10, <1>11, <1>12,
     <1>13, <1>14, <1>15, <1>16

LEMMA VerifierFits ==
  ASSUME NEW op \in DOMAIN VerifierTakes, NEW accounts
  PROVE  /\ op \in Ops \ {"Verify", "InitializeMint"}
         /\ VerifierReads(ClientTable[op], VerifierTakes[op], HandlerTakes(op, accounts),
                          OptionalNames(op))
BY VerifierTables
   DEF VerifierTakes, HandlerTakes, ClientTable, OptionalNames, WritesConfiguration, Ops

(* The defaults of the builders are fixed addresses. *)
Defaults == {"instructions_sysvar", "token_program", "system_program", "rent_sysvar"}

(* Every instruction is built from its table, and so is its CPI; a builder *)
(* knows all of the fixed addresses that its table has a field for.        *)
LEMMA ClientMakes ==
  ASSUME NEW op \in Ops, NEW given, NEW rest
  PROVE  /\ \E defaults \in SUBSET Defaults :
              /\ NamesIn(ClientTable[op]) \cap Defaults \subseteq defaults
              /\ ClientBuilder(op, given, rest) = Built(ClientTable[op], defaults, given, rest)
         /\ ClientCpi(op, given, rest) = Invoked(ClientTable[op], given, rest)
<1> USE DEF ClientBuilder, ClientCpi, ClientCpi, ClientTable, Defaults, NamesIn, ProgramsOverhead,
            EitherOverhead, Field, Readonly, Writable, WritableSigner, OptionalReadonly,
            OptionalWritable
<1>1. CASE op = "InitializeMint"
  BY <1>1 DEF InitializeMintBuilder, InitializeMintCpi, InitializeMintAccounts
<1>2. CASE op = "UpdateMetadata"
  BY <1>2 DEF UpdateMetadataBuilder, UpdateMetadataCpi, UpdateMetadataAccounts
<1>3. CASE op = "InitializeVerificationConfig"
  BY <1>3
     DEF InitializeVerificationConfigBuilder, InitializeVerificationConfigCpi,
         InitializeVerificationConfigAccounts
<1>4. CASE op = "UpdateVerificationConfig"
  BY <1>4
     DEF UpdateVerificationConfigBuilder, UpdateVerificationConfigCpi,
         UpdateVerificationConfigAccounts
<1>5. CASE op = "TrimVerificationConfig"
  BY <1>5
     DEF TrimVerificationConfigBuilder, TrimVerificationConfigCpi,
         TrimVerificationConfigAccounts
<1>6. CASE op = "Verify"
  BY <1>6 DEF VerifyBuilder, VerifyCpi, VerifyAccounts
<1>7. CASE op = "Mint"
  BY <1>7 DEF MintBuilder, MintCpi, MintAccounts
<1>8. CASE op = "Burn"
  BY <1>8 DEF BurnBuilder, BurnCpi, BurnAccounts
<1>9. CASE op = "Pause"
  BY <1>9 DEF PauseBuilder, PauseCpi, PauseAccounts
<1>10. CASE op = "Resume"
  BY <1>10 DEF ResumeBuilder, ResumeCpi, ResumeAccounts
<1>11. CASE op = "Freeze"
  BY <1>11 DEF FreezeBuilder, FreezeCpi, FreezeAccounts
<1>12. CASE op = "Thaw"
  BY <1>12 DEF ThawBuilder, ThawCpi, ThawAccounts
<1>13. CASE op = "Transfer"
  BY <1>13 DEF TransferBuilder, TransferCpi, TransferAccounts
<1>14. CASE op = "CreateRateAccount"
  BY <1>14 DEF CreateRateAccountBuilder, CreateRateAccountCpi, CreateRateAccountAccounts
<1>15. CASE op = "UpdateRateAccount"
  BY <1>15 DEF UpdateRateAccountBuilder, UpdateRateAccountCpi, UpdateRateAccountAccounts
<1>16. CASE op = "CloseRateAccount"
  BY <1>16 DEF CloseRateAccountBuilder, CloseRateAccountCpi, CloseRateAccountAccounts
<1>17. CASE op = "Split"
  BY <1>17 DEF SplitBuilder, SplitCpi, SplitAccounts
<1>18. CASE op = "Convert"
  BY <1>18 DEF ConvertBuilder, ConvertCpi, ConvertAccounts
<1>19. CASE op = "CreateProofAccount"
  BY <1>19 DEF CreateProofAccountBuilder, CreateProofAccountCpi, CreateProofAccountAccounts
<1>20. CASE op = "UpdateProofAccount"
  BY <1>20 DEF UpdateProofAccountBuilder, UpdateProofAccountCpi, UpdateProofAccountAccounts
<1>21. CASE op = "CreateDistributionEscrow"
  BY <1>21
     DEF CreateDistributionEscrowBuilder, CreateDistributionEscrowCpi,
         CreateDistributionEscrowAccounts
<1>22. CASE op = "ClaimDistribution"
  BY <1>22 DEF ClaimDistributionBuilder, ClaimDistributionCpi, ClaimDistributionAccounts
<1>23. CASE op = "CloseActionReceiptAccount"
  BY <1>23
     DEF CloseActionReceiptAccountBuilder, CloseActionReceiptAccountCpi,
         CloseActionReceiptAccountAccounts
<1>24. CASE op = "CloseClaimReceiptAccount"
  BY <1>24
     DEF CloseClaimReceiptAccountBuilder, CloseClaimReceiptAccountCpi,
         CloseClaimReceiptAccountAccounts
<1>25. CASE op = "UpdateDefaultAccountState"
  BY <1>25
     DEF UpdateDefaultAccountStateBuilder, UpdateDefaultAccountStateCpi,
         UpdateDefaultAccountStateAccounts
<1> QED
  BY <1>1, <1>2, <1>3, <1>4, <1>5, <1>6, <1>7, <1>8, <1>9, <1>10, <1>11, <1>12, <1>13, <1>14,
     <1>15, <1>16, <1>17, <1>18, <1>19, <1>20, <1>21, <1>22, <1>23, <1>24, <1>25 DEF Ops

-----------------------------------------------------------------------------
(* A call: only its form matters here, and not who sends it. *)
CallOf(c, op, mode, sent, accounts) ==
  /\ c \in [stage : {"draft", "sent"}, op : {op}, layer : {"builder", "cpi"}, mode : {mode},
            creatorPays : BOOLEAN, forTransfer : BOOLEAN,
            omitted : SUBSET NamesIn(ClientTable[op]), rest : Seq(Addable), sent : {sent},
            accepted : BOOLEAN, accounts : {accounts}]
  /\ c.forTransfer => op \in WritesConfiguration

IsCall(c) ==
  \E op \in Ops : \E mode \in Modes(op) : \E sent, accounts : CallOf(c, op, mode, sent, accounts)

LEMMA CallParts ==
  ASSUME NEW c, IsCall(c)
  PROVE  /\ c.op \in Ops /\ c.layer \in {"builder", "cpi"} /\ c.rest \in Seq(Addable)
         /\ c.mode \in Modes(c.op)
         /\ c.omitted \subseteq NamesIn(ClientTable[c.op])
         /\ c.forTransfer \in BOOLEAN
         /\ c.forTransfer => c.op \in WritesConfiguration
BY DEF IsCall, CallOf

LEMMA MetasFacts ==
  ASSUME NEW table, Sized(table), NEW given, NEW R, NEW rest \in Seq(R)
  PROVE  /\ Sized(Metas(table, given, rest))
         /\ Len(table) <= Len(Metas(table, given, rest))
         /\ \A i \in 1 .. Len(table) : Metas(table, given, rest)[i] = MetaOf(table[i], given)
<1> DEFINE front == [i \in DOMAIN table |-> MetaOf(table[i], given)]
           S == {MetaOf(table[i], given) : i \in DOMAIN table} \cup R
<1>1. /\ front \in [1 .. Len(table) -> S] /\ rest \in Seq(S)
      /\ Len(table) \in Nat /\ Len(rest) \in Nat
  BY DEF Sized
<1>2. \A i \in 1 .. Len(table) : front[i] = MetaOf(table[i], given)
  BY DEF Sized
<1>3. Metas(table, given, rest) = front \o rest
  BY DEF Metas
<1> HIDE DEF front, S
<1>4. front \in Seq(S) /\ Len(front) = Len(table)
  BY <1>1
<1>5. /\ front \o rest \in Seq(S)
      /\ Len(front \o rest) = Len(front) + Len(rest)
      /\ \A i \in 1 .. Len(front) : (front \o rest)[i] = front[i]
  BY <1>1, <1>4
<1>6. Sized(front \o rest)
  BY <1>5 DEF Sized
<1> QED
  BY <1>1, <1>2, <1>3, <1>4, <1>5, <1>6

LEMMA MergedFacts ==
  ASSUME NEW metas, Sized(metas), NEW payer
  PROVE  /\ Sized(Merged(metas, payer))
         /\ Len(Merged(metas, payer)) = Len(metas)
         /\ \A i \in 1 .. Len(metas) : Merged(metas, payer)[i].key = metas[i].key
<1> DEFINE S == {Merged(metas, payer)[i] : i \in 1 .. Len(metas)}
<1>1. DOMAIN Merged(metas, payer) = 1 .. Len(metas) /\ Len(metas) \in Nat
  BY DEF Merged, Sized
<1>2. \A i \in 1 .. Len(metas) : Merged(metas, payer)[i].key = metas[i].key
  BY DEF Merged, Meta, Sized
<1>3. Merged(metas, payer) = [i \in 1 .. Len(metas) |-> Merged(metas, payer)[i]]
  BY <1>1 DEF Merged
<1>4. Merged(metas, payer) \in [1 .. Len(metas) -> S]
  BY <1>3
<1> HIDE DEF S
<1>5. Merged(metas, payer) \in Seq(S) /\ Len(Merged(metas, payer)) = Len(metas)
  BY <1>1, <1>4
<1> QED
  BY <1>1, <1>2, <1>5 DEF Sized

LEMMA NothingMerged ==
  ASSUME NEW payer
  PROVE  Merged(<< >>, payer) = << >>
BY DEF Merged

(* The key that belongs at a field: its account, or the placeholder.        *)
RightKey(c, table, i, key) ==
  key = IF table[i].name \in c.omitted \ Required(table)
          THEN SecurityToken ELSE AddressOf(table[i].name)

(* What fills the fields of a call: the addresses given, and defaults. *)
Fills(c, filled) ==
  \E defaults \in SUBSET Defaults :
    /\ DOMAIN filled = DOMAIN Given(c) \cup defaults
    /\ \A name \in DOMAIN filled :
         filled[name] = IF name \in DOMAIN Given(c) THEN Given(c)[name] ELSE name

LEMMA FilledKeys ==
  ASSUME NEW c, c.op \in Ops \ {"Verify"}, NEW table, table = ClientTable[c.op],
         NEW filled, Fills(c, filled), Required(table) \subseteq DOMAIN filled,
         NEW i \in 1 .. Len(table), table[i].name \notin Either
  PROVE  RightKey(c, table, i, MetaOf(table[i], filled).key)
<1> DEFINE name == table[i].name
<1>1. PICK defaults \in SUBSET Defaults :
        /\ DOMAIN filled = DOMAIN Given(c) \cup defaults
        /\ \A n \in DOMAIN filled :
             filled[n] = IF n \in DOMAIN Given(c) THEN Given(c)[n] ELSE n
  BY DEF Fills
<1>2. /\ Sized(table)
      /\ table[i].optional <=> name \in OptionalNames(c.op)
  BY HandlerFits DEF Fits
<1>3. name \in NamesIn(table) /\ (~table[i].optional => name \in Required(table))
  BY <1>2 DEF Sized, NamesIn, Required
<1>4. /\ DOMAIN Given(c) = NamesIn(table) \ c.omitted
      /\ name \in DOMAIN Given(c) => Given(c)[name] = AddressOf(name)
  BY DEF Given, Address, Either
<1>5. CASE name \notin c.omitted
  <2>1. name \in DOMAIN filled /\ filled[name] = AddressOf(name)
    BY <1>1, <1>3, <1>4, <1>5
  <2> QED
    BY <1>5, <2>1 DEF RightKey, MetaOf, Meta
<1>6. CASE name \in c.omitted /\ name \in Required(table)
  <2>1. name \in DOMAIN filled /\ name \in defaults /\ filled[name] = name
    BY <1>1, <1>4, <1>6
  <2>2. AddressOf(name) = name
    BY <1>1, <2>1 DEF Defaults, AddressOf
  <2> QED
    BY <1>6, <2>1, <2>2 DEF RightKey, MetaOf, Meta
<1>7. CASE name \in c.omitted /\ name \notin Required(table)
  <2>1. name \in OptionalNames(c.op)
    BY <1>2, <1>3, <1>7
  <2>2. name \notin Defaults
    BY <2>1 DEF OptionalNames, Defaults, HookFields
  <2>3. name \notin DOMAIN filled
    BY <1>1, <1>4, <1>7, <2>2
  <2> QED
    BY <1>7, <2>3 DEF RightKey, MetaOf, Meta
<1> QED
  BY <1>5, <1>6, <1>7

(* What is delivered to the program has at the place of each field its key. *)
AllKeys(c, table, metas) ==
  /\ Sized(metas) /\ Len(table) <= Len(metas)
  /\ \A i \in 1 .. Len(table) :
       table[i].name \notin Either => RightKey(c, table, i, metas[i].key)

LEMMA MadeKeys ==
  ASSUME NEW c, c.op \in Ops \ {"Verify"}, NEW table, table = ClientTable[c.op],
         NEW filled, Fills(c, filled), Required(table) \subseteq DOMAIN filled,
         NEW R, NEW rest \in Seq(R)
  PROVE  AllKeys(c, table, Metas(table, filled, rest))
<1>1. Sized(table)
  BY HandlerFits DEF Fits
<1>2. /\ Sized(Metas(table, filled, rest))
      /\ Len(table) <= Len(Metas(table, filled, rest))
      /\ \A i \in 1 .. Len(table) : Metas(table, filled, rest)[i] = MetaOf(table[i], filled)
  BY <1>1, MetasFacts
<1>3. \A i \in 1 .. Len(table) :
        table[i].name \notin Either => RightKey(c, table, i, MetaOf(table[i], filled).key)
  BY FilledKeys
<1> QED
  BY <1>2, <1>3 DEF AllKeys

LEMMA MergedKeys ==
  ASSUME NEW c, NEW table, Sized(table), NEW metas, AllKeys(c, table, metas), NEW payer
  PROVE  AllKeys(c, table, Merged(metas, payer))
<1>1. /\ Sized(metas) /\ Len(table) <= Len(metas)
      /\ \A i \in 1 .. Len(table) :
           table[i].name \notin Either => RightKey(c, table, i, metas[i].key)
  BY DEF AllKeys
<1>2. /\ Sized(Merged(metas, payer))
      /\ Len(Merged(metas, payer)) = Len(metas)
      /\ \A i \in 1 .. Len(metas) : Merged(metas, payer)[i].key = metas[i].key
  BY <1>1, MergedFacts
<1>3. \A i \in 1 .. Len(table) : i \in 1 .. Len(metas)
  BY <1>1 DEF Sized
<1> QED
  BY <1>1, <1>2, <1>3 DEF AllKeys

LEMMA BuilderKeys ==
  ASSUME NEW c, IsCall(c), c.op # "Verify", ClientBuilder(c.op, Given(c), c.rest) # << >>
  PROVE  AllKeys(c, ClientTable[c.op], ClientBuilder(c.op, Given(c), c.rest))
<1> DEFINE table == ClientTable[c.op]
           given == Given(c)
<1>1. c.op \in Ops \ {"Verify"} /\ c.rest \in Seq(Addable)
  BY CallParts
<1>2. PICK defaults \in SUBSET Defaults :
        ClientBuilder(c.op, given, c.rest) = Built(table, defaults, given, c.rest)
  BY <1>1, ClientMakes
<1> DEFINE filled == [name \in DOMAIN given \cup defaults |->
                        IF name \in DOMAIN given THEN given[name] ELSE name]
<1>3. /\ Required(table) \subseteq DOMAIN filled
      /\ ClientBuilder(c.op, given, c.rest) = Metas(table, filled, c.rest)
  BY <1>2 DEF Built, Panic
<1>4. Fills(c, filled)
  BY DEF Fills
<1> HIDE DEF filled
<1> QED
  BY <1>1, <1>3, <1>4, MadeKeys

LEMMA CpiKeys ==
  ASSUME NEW c, IsCall(c), c.op # "Verify", CpiBuilder(c.op, Given(c), c.rest).metas # << >>
  PROVE  AllKeys(c, ClientTable[c.op], CpiBuilder(c.op, Given(c), c.rest).metas)
<1> DEFINE table == ClientTable[c.op]
           given == Given(c)
           tuples == [i \in DOMAIN c.rest |-> Tuple(c.rest[i])]
           rest == [i \in DOMAIN tuples |-> Remaining(tuples[i])]
           R == {Remaining(Tuple(a)) : a \in Addable}
<1>1. c.op \in Ops \ {"Verify"} /\ c.rest \in Seq(Addable)
  BY CallParts
<1>2. Required(table) \subseteq DOMAIN given
  BY DEF CpiBuilder, Uninvoked, Panic
<1>3. CpiBuilder(c.op, given, c.rest) = Invoked(table, given, tuples)
  BY <1>1, <1>2, ClientMakes DEF CpiBuilder
<1>4. CpiBuilder(c.op, given, c.rest).metas = Metas(table, given, rest)
  BY <1>3 DEF Invoked
<1>5. rest \in Seq(R)
  <2>1. rest = [i \in 1 .. Len(c.rest) |-> Remaining(Tuple(c.rest[i]))]
    BY <1>1
  <2>2. \A i \in 1 .. Len(c.rest) : c.rest[i] \in Addable
    BY <1>1
  <2>3. rest \in [1 .. Len(c.rest) -> R]
    BY <2>1, <2>2
  <2>4. Len(c.rest) \in Nat
    BY <1>1
  <2> HIDE DEF rest, R
  <2> QED
    BY <2>3, <2>4
<1>6. Fills(c, given)
  <2>1. \A name \in DOMAIN given :
          given[name] = IF name \in DOMAIN Given(c) THEN Given(c)[name] ELSE name
    OBVIOUS
  <2>2. {} \in SUBSET Defaults /\ DOMAIN given = DOMAIN Given(c) \cup {}
    OBVIOUS
  <2> QED
    BY <2>1, <2>2 DEF Fills
<1> HIDE DEF rest, R
<1> QED
  BY <1>1, <1>2, <1>4, <1>5, <1>6, MadeKeys

LEMMA DeliveredKeys ==
  ASSUME NEW c, IsCall(c), c.op # "Verify", Delivered(c) # << >>
  PROVE  AllKeys(c, ClientTable[c.op], Delivered(c))
<1>1. c.layer \in {"builder", "cpi"} /\ Sized(ClientTable[c.op])
  BY CallParts, HandlerFits DEF Fits
<1>2. CASE c.layer = "builder"
  <2> DEFINE metas == ClientBuilder(c.op, Given(c), c.rest)
  <2>1. Delivered(c) = Merged(metas, "payer")
    BY <1>2 DEF Delivered
  <2>2. metas # << >>
    BY <2>1, NothingMerged
  <2> QED
    BY <1>1, <2>1, <2>2, BuilderKeys, MergedKeys
<1>3. CASE c.layer = "cpi"
  <2> DEFINE metas == CpiBuilder(c.op, Given(c), c.rest).metas
  <2>1. Delivered(c) = Merged(metas, "nobody")
    BY <1>3 DEF Delivered
  <2>2. metas # << >>
    BY <2>1, NothingMerged
  <2> QED
    BY <1>1, <2>1, <2>2, CpiKeys, MergedKeys
<1> QED
  BY <1>1, <1>2, <1>3

-----------------------------------------------------------------------------
(* t is s from the k-th to the n-th member. *)
Cut(t, s, k, n) ==
  /\ Sized(t)
  /\ Len(t) = IF k <= n THEN n - k + 1 ELSE 0
  /\ \A i \in 1 .. Len(t) : t[i] = s[k + i - 1]

LEMMA CutOut ==
  ASSUME NEW s, NEW k \in Int, NEW n \in Int
  PROVE  Cut(SubSeq(s, k, n), s, k, n)
<1> DEFINE S == {s[i] : i \in k .. n}
<1>1. \A i \in k .. n : s[i] \in S
  OBVIOUS
<1> HIDE DEF S
<1>2. /\ SubSeq(s, k, n) \in Seq(S)
      /\ Len(SubSeq(s, k, n)) = IF k <= n THEN n - k + 1 ELSE 0
      /\ \A i \in 1 .. n - k + 1 : SubSeq(s, k, n)[i] = s[k + i - 1]
  BY <1>1, SubSeqProperties
<1>3. \A i \in 1 .. Len(SubSeq(s, k, n)) : i \in 1 .. n - k + 1
  BY <1>2
<1> QED
  BY <1>2, <1>3 DEF Cut, Sized

(* What verification leaves to the handler is a stretch of what came. *)
Stretch(op, cleaned, accounts) ==
  /\ Sized(cleaned)
  /\ Len(cleaned) + Offset(op) <= Len(accounts)
  /\ \A i \in 1 .. Len(cleaned) : cleaned[i] = accounts[Offset(op) + i]

LEMMA InstructionStretch ==
  ASSUME NEW op, op # "InitializeMint", NEW accounts, Sized(accounts), Len(accounts) >= 3
  PROVE  /\ Stretch(op, InstructionAccounts(accounts), accounts)
         /\ Stretch(op, TargetAccounts(accounts), accounts)
<1> DEFINE own == InstructionAccounts(accounts)
           n == Len(accounts) - 3 - Len(Configured)
<1>1. Len(accounts) \in Nat /\ 3 \in Nat /\ Offset(op) = 3 /\ Len(Configured) \in Nat
  BY CallsAssumption DEF Sized, Offset
<1>2. Cut(own, accounts, 4, Len(accounts))
  BY <1>1, CutOut DEF InstructionAccounts
<1>3. Cut(TargetAccounts(accounts), own, 1, n)
  <2>1. TargetAccounts(accounts) = SubSeq(own, 1, n)
    BY DEF TargetAccounts
  <2>2. n \in Int
    BY <1>1
  <2> HIDE DEF own, n
  <2> QED
    BY <2>1, <2>2, CutOut
<1> HIDE DEF own
<1>4. Stretch(op, own, accounts)
  BY <1>1, <1>2 DEF Cut, Stretch
<1>5. /\ Sized(TargetAccounts(accounts)) /\ Len(TargetAccounts(accounts)) <= Len(own)
      /\ \A i \in 1 .. Len(TargetAccounts(accounts)) :
           i \in 1 .. Len(own) /\ TargetAccounts(accounts)[i] = own[i]
  <2>1. n \in Int /\ n <= Len(own) /\ Len(own) \in Nat
    BY <1>1, <1>2 DEF Cut
  <2> DEFINE target == TargetAccounts(accounts)
  <2>2. /\ Sized(target) /\ Len(target) = IF 1 <= n THEN n - 1 + 1 ELSE 0
        /\ \A i \in 1 .. Len(target) : target[i] = own[1 + i - 1]
    BY <1>3 DEF Cut
  <2> HIDE DEF n, target
  <2>3. Len(target) \in Nat /\ Len(target) <= Len(own)
    BY <2>1, <2>2
  <2>4. \A i \in 1 .. Len(target) : i \in 1 .. Len(own) /\ 1 + i - 1 = i
    BY <2>1, <2>3
  <2> QED
    BY <2>2, <2>3, <2>4 DEF target
<1>6. Stretch(op, TargetAccounts(accounts), accounts)
  BY <1>1, <1>4, <1>5 DEF Stretch, Sized
<1> QED
  BY <1>4, <1>6 DEF own

LEMMA VerifiedStretch ==
  ASSUME NEW c, c.op # "Verify", NEW accounts, Sized(accounts), Offset(c.op) <= Len(accounts),
         NEW cleaned \in Verified(c, accounts)
  PROVE  Stretch(c.op, cleaned, accounts)
<1>1. CASE c.op = "InitializeMint"
  <2>1. c.op \in Unverified /\ c.op \notin ProgramsOnly
    BY <1>1 DEF Unverified, ProgramsOnly
  <2>2. cleaned = accounts
    BY <2>1 DEF Verified
  <2>3. Offset(c.op) = 0 /\ Len(accounts) \in Nat /\ \A i \in 1 .. Len(accounts) : 0 + i = i
    BY <1>1 DEF Offset, Sized
  <2> QED
    BY <2>2, <2>3 DEF Stretch
<1>2. CASE c.op # "InitializeMint"
  <2>1. cleaned \in VerifyByPrograms(c, accounts) \cup VerifyByMintAuthority(c, accounts)
    BY <1>2 DEF Verified, VerifyByStrategy, Unverified
  <2>2. cleaned \in {InstructionAccounts(accounts), TargetAccounts(accounts)}
    BY <2>1 DEF VerifyByPrograms, VerifyByMintAuthority
  <2>3. Len(accounts) >= 3
    BY <1>2 DEF Offset
  <2> QED
    BY <1>2, <2>2, <2>3, InstructionStretch
<1> QED
  BY <1>1, <1>2

(* The handler has enough accounts for the positions it takes. *)
LEMMA TakenFits ==
  ASSUME NEW c, IsCall(c), c.op # "Verify", NEW accounts, Sized(accounts),
         HandlerAccepts(c, accounts)
  PROVE  LET takes == Takes(c, accounts)
         IN  /\ Fits(ClientTable[c.op], NamesOf(takes), Offset(c.op), OptionalNames(c.op))
             /\ DOMAIN takes = 1 .. Len(NamesOf(takes))
             /\ Len(NamesOf(takes)) <= Len(accounts)
<1> DEFINE takes == Takes(c, accounts)
<1>1. c.op \in Ops \ {"Verify"} /\ c.forTransfer \in BOOLEAN
      /\ (c.forTransfer => c.op \in WritesConfiguration)
  BY CallParts
<1>2. Fits(ClientTable[c.op], NamesOf(takes), Offset(c.op), OptionalNames(c.op))
  <2>1. CASE c.forTransfer
    <3>1. takes = HandlerTakes(c.op, accounts) \o TransferHookTakes
      BY <2>1 DEF Takes
    <3> QED
      BY <1>1, <2>1, <3>1, HandlerFits
  <2>2. CASE ~c.forTransfer
    <3>1. takes = HandlerTakes(c.op, accounts) \o << >>
      BY <2>2 DEF Takes
    <3> QED
      BY <1>1, <3>1, HandlerFits
  <2> QED
    BY <2>1, <2>2
<1>3. DOMAIN takes = DOMAIN NamesOf(takes) /\ DOMAIN NamesOf(takes) = 1 .. Len(NamesOf(takes))
      /\ Len(NamesOf(takes)) \in Nat
  BY <1>2 DEF Fits, Sized, NamesOf
<1>4. Len(takes) <= Len(accounts)
  BY DEF HandlerAccepts, Sized
<1>5. Len(takes) = Len(NamesOf(takes))
  BY <1>3
<1> QED
  BY <1>2, <1>3, <1>4, <1>5

(* What may be left out is what a table says is optional. *)
LEMMA OmittedOptional ==
  ASSUME NEW c, IsCall(c), c.op # "Verify", NEW n \in c.omitted \ Required(ClientTable[c.op])
  PROVE  n \in OptionalNames(c.op)
<1> DEFINE table == ClientTable[c.op]
<1>1. PICK j \in DOMAIN table : table[j].name = n
  BY CallParts DEF NamesIn
<1>2. table[j].optional
  BY <1>1 DEF Required
<1>3. /\ Sized(table)
      /\ \A i \in 1 .. Len(table) : table[i].optional <=> table[i].name \in OptionalNames(c.op)
  BY CallParts, HandlerFits DEF Fits
<1> QED
  BY <1>1, <1>2, <1>3 DEF Sized

(* The account at a position of the handler. *)
LEMMA PlacedKey ==
  ASSUME NEW c, IsCall(c), c.op # "Verify", Delivered(c) # << >>,
         NEW cleaned, Stretch(c.op, cleaned, Delivered(c)),
         NEW names, Fits(ClientTable[c.op], names, Offset(c.op), OptionalNames(c.op)),
         Len(names) <= Len(cleaned), NEW i \in 1 .. Len(names)
  PROVE  cleaned[i].key =
           IF names[i] \in c.omitted \ Required(ClientTable[c.op])
             THEN SecurityToken ELSE AddressOf(names[i])
<1> DEFINE table == ClientTable[c.op]
           opt == OptionalNames(c.op)
           field == table[Offset(c.op) + i]
           omittable == c.omitted \ Required(table)
<1>1. /\ Sized(table) /\ Sized(names) /\ Offset(c.op) \in Nat
      /\ Offset(c.op) + Len(names) <= Len(table)
      /\ \A j \in 1 .. Len(table) : table[j].optional <=> table[j].name \in opt
      /\ AddressOf(field.name) = AddressOf(names[i])
      /\ field.name \notin Either
      /\ field.name \in opt \/ names[i] \in opt => field.name = names[i]
  BY DEF Fits, Offset
<1>2. AllKeys(c, table, Delivered(c))
  BY DeliveredKeys
<1>3. /\ Offset(c.op) + i \in 1 .. Len(table)
      /\ i \in 1 .. Len(cleaned)
  BY <1>1 DEF Sized, Stretch
<1>4. RightKey(c, table, Offset(c.op) + i, cleaned[i].key)
  BY <1>1, <1>2, <1>3 DEF AllKeys, Stretch
<1>5. \A n \in omittable : n \in opt
  BY OmittedOptional, CallParts
<1>6. field.name \in omittable <=> names[i] \in omittable
  BY <1>1, <1>5
<1> QED
  BY <1>1, <1>4, <1>6 DEF RightKey

LEMMA ProcessedAsMeant ==
  ASSUME NEW c, IsCall(c), c.op # "Verify", Delivered(c) # << >>,
         NEW accounts \in Process(c, Delivered(c))
  PROVE  /\ \A i \in DOMAIN Takes(c, accounts) :
              accounts[i].key =
                IF Takes(c, accounts)[i].name \in c.omitted \ Required(ClientTable[c.op])
                  THEN SecurityToken ELSE AddressOf(Takes(c, accounts)[i].name)
         /\ c.op \in DOMAIN VerifierTakes =>
              /\ VerifierAccepts(c.op, accounts)
              /\ \A i \in DOMAIN VerifierTakes[c.op] :
                   accounts[i].key = AddressOf(VerifierTakes[c.op][i])
<1> DEFINE takes == Takes(c, accounts)
           names == NamesOf(takes)
           table == ClientTable[c.op]
<1>1. accounts \in Verified(c, Delivered(c)) /\ HandlerAccepts(c, accounts)
  BY DEF Process
<1>2. /\ AllKeys(c, table, Delivered(c))
      /\ Sized(Delivered(c)) /\ Len(table) <= Len(Delivered(c))
  BY DeliveredKeys DEF AllKeys
<1>3. Stretch(c.op, accounts, Delivered(c)) /\ Sized(accounts)
  <2>1. Offset(c.op) <= Len(table) /\ Sized(table)
    BY CallParts, HandlerFits DEF Fits, Sized, Offset
  <2>2. Offset(c.op) <= Len(Delivered(c))
    BY <1>2, <2>1 DEF Sized, Offset
  <2> QED
    BY <1>1, <1>2, <2>2, VerifiedStretch DEF Stretch
<1>4. /\ Fits(table, names, Offset(c.op), OptionalNames(c.op))
      /\ DOMAIN takes = 1 .. Len(names)
      /\ Len(names) <= Len(accounts)
  BY <1>1, <1>3, TakenFits
<1>5. ASSUME NEW i \in DOMAIN takes
      PROVE  accounts[i].key =
               IF takes[i].name \in c.omitted \ Required(table)
                 THEN SecurityToken ELSE AddressOf(takes[i].name)
  <2>1. names[i] = takes[i].name
    BY DEF NamesOf
  <2> QED
    BY <1>3, <1>4, <2>1, PlacedKey
<1>6. ASSUME c.op \in DOMAIN VerifierTakes
      PROVE  /\ VerifierAccepts(c.op, accounts)
             /\ \A i \in DOMAIN VerifierTakes[c.op] :
                  accounts[i].key = AddressOf(VerifierTakes[c.op][i])
  <2> DEFINE read == VerifierTakes[c.op]
             opt == OptionalNames(c.op)
  <2>1. /\ c.op # "InitializeMint"
        /\ Fits(table, read, 3, opt)
        /\ Len(read) = Len(HandlerTakes(c.op, accounts) \o << >>)
        /\ Len(read) <= Len(HandlerTakes(c.op, accounts) \o TransferHookTakes)
        /\ \A i \in 1 .. Len(read) : read[i] \notin opt
    BY <1>6, VerifierFits DEF VerifierReads
  <2>2. Offset(c.op) = 3 /\ Sized(read)
    BY <2>1 DEF Offset, Fits
  <2>3. /\ Len(read) <= Len(accounts)
        /\ c.op \notin WritesConfiguration => Len(accounts) = Len(read)
    <3>1. Len(read) <= Len(takes) /\ (c.op \notin WritesConfiguration => Len(takes) = Len(read))
      <4>1. CASE c.forTransfer
        <5>1. takes = HandlerTakes(c.op, accounts) \o TransferHookTakes
          BY <4>1 DEF Takes
        <5> QED
          BY <2>1, <4>1, <5>1, CallParts
      <4>2. CASE ~c.forTransfer
        <5>1. takes = HandlerTakes(c.op, accounts) \o << >>
          BY <4>2 DEF Takes
        <5> QED
          BY <2>1, <2>2, <5>1 DEF Sized
      <4> QED
        BY <4>1, <4>2
    <3>2. Len(takes) <= Len(accounts)
          /\ (c.op \notin WritesConfiguration => Len(accounts) = Len(takes))
      BY <1>1, <1>3 DEF HandlerAccepts, Sized
    <3> QED
      BY <1>3, <2>2, <3>1, <3>2 DEF Sized
  <2>4. VerifierAccepts(c.op, accounts)
    BY <2>3 DEF VerifierAccepts
  <2>5. ASSUME NEW i \in DOMAIN read
        PROVE  accounts[i].key = AddressOf(read[i])
    <3>1. i \in 1 .. Len(read)
      BY <2>2 DEF Sized
    <3>2. accounts[i].key =
            IF read[i] \in c.omitted \ Required(table) THEN SecurityToken ELSE AddressOf(read[i])
      BY <1>3, <2>1, <2>2, <2>3, <3>1, PlacedKey
    <3>3. read[i] \notin c.omitted \ Required(table)
      BY <2>1, <3>1, OmittedOptional
    <3> QED
      BY <3>2, <3>3
  <2> QED
    BY <2>4, <2>5
<1> QED
  BY <1>5, <1>6

-----------------------------------------------------------------------------
(* A call is prepared, sent once, and then only looked at. *)
CallInv ==
  /\ IsCall(call)
  /\ AccountsAsMeant
  /\ VerifierReadsSameAccounts

LEMMA CallInit == InitCall => CallInv
<1> SUFFICES ASSUME InitCall PROVE CallInv
  OBVIOUS
<1>1. PICK op \in Ops, layer \in {"builder", "cpi"} :
        \E mode \in Modes(op) :
          \E creatorPays \in IF mode = "creator" THEN BOOLEAN ELSE {FALSE},
             forTransfer \in IF op \in WritesConfiguration THEN BOOLEAN ELSE {FALSE} :
            call = Draft(op, layer, mode, creatorPays, forTransfer)
  BY DEF InitCall
<1> DEFINE May(condition) == IF condition THEN BOOLEAN ELSE {FALSE}
<1>2. PICK mode \in Modes(op) :
        \E creatorPays \in May(mode = "creator"), forTransfer \in May(op \in WritesConfiguration) :
          call = Draft(op, layer, mode, creatorPays, forTransfer)
  BY <1>1
<1>3. PICK creatorPays \in May(mode = "creator"), forTransfer \in May(op \in WritesConfiguration) :
        call = Draft(op, layer, mode, creatorPays, forTransfer)
  BY <1>2
<1>4. /\ creatorPays \in BOOLEAN /\ forTransfer \in BOOLEAN
      /\ call = Draft(op, layer, mode, creatorPays, forTransfer)
      /\ forTransfer => op \in WritesConfiguration
  BY <1>3
<1>5. /\ call = [stage |-> "draft", op |-> op, layer |-> layer, mode |-> mode,
                 creatorPays |-> creatorPays, forTransfer |-> forTransfer, omitted |-> {},
                 rest |-> << >>, sent |-> << >>, accepted |-> FALSE, accounts |-> << >>]
      /\ << >> \in Seq(Addable)
  BY <1>4 DEF Draft
<1>6. IsCall(call)
  BY <1>4, <1>5 DEF IsCall, CallOf
<1> QED
  BY <1>5, <1>6 DEF CallInv, AccountsAsMeant, VerifierReadsSameAccounts

LEMMA DraftStep ==
  ASSUME IsCall(call), call.stage = "draft",
         \/ \E op \in Ops : \E name \in NamesIn(ClientTable[op]) : Omit(name)
         \/ \E account \in Addable : AddRemainingAccount(account)
  PROVE  CallInv' /\ call'.stage = "draft"
<1>1. call.op \in Ops /\ call.rest \in Seq(Addable)
      /\ call.omitted \subseteq NamesIn(ClientTable[call.op])
  BY CallParts
<1>2. PICK omitted, rest :
        /\ call' = [call EXCEPT !.omitted = omitted, !.rest = rest]
        /\ omitted \subseteq NamesIn(ClientTable[call.op]) /\ rest \in Seq(Addable)
  <2>1. CASE \E op \in Ops : \E name \in NamesIn(ClientTable[op]) : Omit(name)
    <3>1. PICK name : Omit(name)
      BY <2>1
    <3> DEFINE o == call.omitted \cup {name}
    <3>2. call' = [call EXCEPT !.omitted = o, !.rest = call.rest]
      BY <3>1 DEF Omit, IsCall, CallOf
    <3>3. o \subseteq NamesIn(ClientTable[call.op])
      BY <1>1, <3>1 DEF Omit
    <3> HIDE DEF o
    <3> QED
      BY <1>1, <3>2, <3>3
  <2>2. CASE \E account \in Addable : AddRemainingAccount(account)
    <3>1. PICK account \in Addable : AddRemainingAccount(account)
      BY <2>2
    <3> DEFINE r == Append(call.rest, account)
    <3>2. call' = [call EXCEPT !.omitted = call.omitted, !.rest = r]
      BY <3>1 DEF AddRemainingAccount, IsCall, CallOf
    <3>3. r \in Seq(Addable)
      BY <1>1
    <3> HIDE DEF r
    <3> QED
      BY <1>1, <3>2, <3>3
  <2> QED
    BY <2>1, <2>2
<1>3. IsCall(call)' /\ call'.stage = "draft"
  BY <1>2 DEF IsCall, CallOf
<1> QED
  BY <1>3 DEF CallInv, AccountsAsMeant, VerifierReadsSameAccounts

LEMMA SendStep ==
  ASSUME IsCall(call), Send
  PROVE  CallInv'
<1> DEFINE delivered == Delivered(call)
           results == IF delivered = << >> THEN {} ELSE Process(call, delivered)
           accounts == IF results = {} THEN << >> ELSE CHOOSE a \in results : TRUE
<1>1. call' = [call EXCEPT !.stage = "sent", !.sent = Sent(call), !.accepted = (results # {}),
                           !.accounts = accounts]
  BY DEF Send
<1> HIDE DEF accounts
<1>2. /\ IsCall(call)'
      /\ call'.accepted <=> results # {}
      /\ call'.accounts = accounts
      /\ call'.op = call.op /\ call'.forTransfer = call.forTransfer
      /\ call'.omitted = call.omitted
  <2> DEFINE new == Sent(call)
             accepted == results # {}
  <2>1. call' = [call EXCEPT !.stage = "sent", !.sent = new, !.accepted = accepted,
                             !.accounts = accounts]
        /\ accepted \in BOOLEAN
    BY <1>1
  <2> HIDE DEF results, new, accepted
  <2>2. PICK op \in Ops : \E mode \in Modes(op) : \E sent, before :
                             CallOf(call, op, mode, sent, before)
    BY DEF IsCall
  <2>3. PICK mode \in Modes(op) : \E sent, before : CallOf(call, op, mode, sent, before)
    BY <2>2
  <2>4. PICK sent, before : CallOf(call, op, mode, sent, before)
    BY <2>3
  <2>5. /\ CallOf(call', op, mode, new, accounts)
        /\ call'.accepted = accepted /\ call'.accounts = accounts
        /\ call'.op = call.op /\ call'.forTransfer = call.forTransfer
        /\ call'.omitted = call.omitted
    BY <2>1, <2>4 DEF CallOf
  <2>6. IsCall(call)'
    BY <2>5 DEF IsCall
  <2> QED
    BY <2>5, <2>6 DEF accepted
<1>3. results # {} => accounts \in Process(call, delivered) /\ delivered # << >>
  BY DEF accounts
<1> HIDE DEF results, delivered
<1>4. Takes(call', accounts) = Takes(call, accounts)
  BY <1>2 DEF Takes
<1>5. results # {} /\ call.op # "Verify" =>
        /\ \A i \in DOMAIN Takes(call, accounts) :
             accounts[i].key =
               IF Takes(call, accounts)[i].name \in call.omitted \ Required(ClientTable[call.op])
                 THEN SecurityToken ELSE AddressOf(Takes(call, accounts)[i].name)
        /\ call.op \in DOMAIN VerifierTakes =>
             /\ VerifierAccepts(call.op, accounts)
             /\ \A i \in DOMAIN VerifierTakes[call.op] :
                  accounts[i].key = AddressOf(VerifierTakes[call.op][i])
  BY <1>3, ProcessedAsMeant DEF delivered
<1>6. AccountsAsMeant'
  BY <1>2, <1>4, <1>5 DEF AccountsAsMeant
<1>7. VerifierReadsSameAccounts'
  <2>1. "Verify" \notin DOMAIN VerifierTakes
    BY DEF VerifierTakes
  <2> QED
    BY <1>2, <1>5, <2>1 DEF VerifierReadsSameAccounts
<1> QED
  BY <1>2, <1>6, <1>7 DEF CallInv

LEMMA CallStep == CallInv /\ [NextCall]_call => CallInv'
<1> SUFFICES ASSUME CallInv, [NextCall]_call PROVE CallInv'
  OBVIOUS
<1>1. CASE Send
  BY <1>1, SendStep DEF CallInv
<1>2. CASE \/ \E op \in Ops : \E name \in NamesIn(ClientTable[op]) : Omit(name)
           \/ \E account \in Addable : AddRemainingAccount(account)
  <2>1. call.stage = "draft"
    BY <1>2 DEF Omit, AddRemainingAccount
  <2> QED
    BY <1>2, <2>1, DraftStep DEF CallInv
<1>3. CASE UNCHANGED call
  BY <1>3 DEF CallInv, AccountsAsMeant, VerifierReadsSameAccounts
<1> QED
  BY <1>1, <1>2, <1>3 DEF NextCall

(* However many remaining accounts a caller adds, and whichever verification *)
(* programs are configured: a handler that runs has in each of its variables *)
(* the account that the caller set under the corresponding field (the slice  *)
(* patterns of operations.rs and verification.rs, the generated client, and  *)
(* what Processor::verify strips).                                           *)
THEOREM AccountsAlwaysAsMeant == CallSpec => []AccountsAsMeant
<1>1. CallInv => AccountsAsMeant
  BY DEF CallInv
<1> QED
  BY <1>1, CallInit, CallStep, PTL DEF CallSpec

(* And the verification program of the examples, given what verification     *)
(* leaves, reads the same accounts as the handler.                           *)
THEOREM VerifierAlwaysReadsSame == CallSpec => []VerifierReadsSameAccounts
<1>1. CallInv => VerifierReadsSameAccounts
  BY DEF CallInv
<1> QED
  BY <1>1, CallInit, CallStep, PTL DEF CallSpec

-----------------------------------------------------------------------------
(* A table of the client gives what the handler asks of its accounts: their *)
(* number, the flags, and at the two places that verification looks at the  *)
(* fields that belong there.                                                *)
Flagged(table, signers) ==
  /\ Sized(table)
  /\ \A i \in 1 .. Len(table) :
       /\ table[i].signer <=> table[i].name \in signers
       /\ table[i].signer => ~table[i].optional

Headed(table, second, third) ==
  /\ 3 <= Len(table)
  /\ table[2].name = second /\ table[3].name = third
  /\ ~table[2].optional /\ ~table[3].optional

HeadedByPrograms(table) == Headed(table, "verification_config", "instructions_sysvar")
HeadedByEither(table) ==
  Headed(table, "verification_config_or_mint_authority", "instructions_sysvar_or_creator")

Grants(table, takes, off, more) ==
  /\ Sized(takes)
  /\ Len(table) = off + Len(takes) + more
  /\ \A i \in 1 .. Len(takes) :
       /\ takes[i].writable => table[off + i].writable
       /\ takes[i].signer => table[off + i].signer

(* Beside the escrow of a claim nothing that may be left out has to be      *)
(* writable or to sign.                                                     *)
Lenient(table, takes, off, external) ==
  \A i \in 1 .. Len(takes) :
    table[off + i].optional => ~takes[i].signer /\ (takes[i].writable => i = 5 /\ ~external)

Insistent(table, takes) == \A i \in 1 .. Len(takes) : ~table[3 + i].optional

(* The three ways in which a handler is served by its table: alone, after   *)
(* what verification strips, and with the accounts of the hook.             *)
Serves(table, takes, off, external) ==
  LET own == takes \o << >>
  IN  Grants(table, own, off, 0) /\ Lenient(table, own, off, external)

ServesByPrograms(table, takes, external) ==
  Flagged(table, {"payer"}) /\ HeadedByPrograms(table) /\ Serves(table, takes, 3, external)

ServesByEither(table, takes, external) ==
  Flagged(table, {"payer"}) /\ HeadedByEither(table) /\ Serves(table, takes, 3, external)

ServesConfiguration(table, takes) ==
  /\ Flagged(table, {"payer"}) /\ HeadedByEither(table)
  /\ Grants(table, takes \o << >>, 3, 3) /\ Insistent(table, takes \o << >>)
  /\ Grants(table, takes \o TransferHookTakes, 3, 0)

LEMMA GrantTables ==
  ASSUME NEW external
  PROVE
    /\ Flagged(InitializeMintAccounts, {"payer", "mint"})
    /\ Serves(InitializeMintAccounts, InitializeMintTakes, 0, external)
    /\ ServesByEither(UpdateMetadataAccounts, UpdateMetadataTakes, external)
    /\ ServesConfiguration(InitializeVerificationConfigAccounts, InitializeVerificationConfigTakes)
    /\ ServesConfiguration(UpdateVerificationConfigAccounts, UpdateVerificationConfigTakes)
    /\ ServesConfiguration(TrimVerificationConfigAccounts, TrimVerificationConfigTakes)
    /\ ServesByPrograms(MintAccounts, ExecuteMintTakes, external)
    /\ ServesByPrograms(BurnAccounts, ExecuteBurnTakes, external)
    /\ ServesByPrograms(PauseAccounts, ExecutePauseTakes, external)
    /\ ServesByPrograms(ResumeAccounts, ExecuteResumeTakes, external)
    /\ ServesByPrograms(FreezeAccounts, ExecuteFreezeTakes, external)
    /\ ServesByPrograms(ThawAccounts, ExecuteThawTakes, external)
    /\ ServesByPrograms(TransferAccounts, ExecuteTransferTakes, external)
    /\ ServesByEither(CreateRateAccountAccounts, CreateRateAccountTakes, external)
    /\ ServesByEither(UpdateRateAccountAccounts, UpdateRateAccountTakes, external)
    /\ ServesByEither(CloseRateAccountAccounts, CloseRateAccountTakes, external)
    /\ ServesByPrograms(SplitAccounts, ExecuteSplitTakes, external)
    /\ ServesByPrograms(ConvertAccounts, ExecuteConvertTakes, external)
    /\ ServesByPrograms(CreateProofAccountAccounts, CreateProofAccountTakes, external)
    /\ ServesByPrograms(UpdateProofAccountAccounts, UpdateProofAccountTakes, external)
    /\ ServesByEither(CreateDistributionEscrowAccounts, CreateDistributionEscrowTakes, external)
    /\ ServesByPrograms(ClaimDistributionAccounts, ClaimDistributionTakes(external), external)
    /\ ServesByEither(CloseActionReceiptAccountAccounts, CloseActionReceiptTakes, external)
    /\ ServesByEither(CloseClaimReceiptAccountAccounts, CloseClaimReceiptTakes, external)
    /\ ServesByEither(UpdateDefaultAccountStateAccounts, UpdateDefaultAccountStateTakes, external)
<1> USE DEF Flagged, Headed, HeadedByPrograms, HeadedByEither, Grants, Lenient, Insistent, Sized,
            Serves, ServesByPrograms, ServesByEither, ServesConfiguration,
            ProgramsOverhead, EitherOverhead, Take, TakeWritable, TakeSigner, Field, Readonly,
            Writable, WritableSigner, OptionalReadonly, OptionalWritable
<1>1. /\ Flagged(InitializeMintAccounts, {"payer", "mint"})
      /\ Serves(InitializeMintAccounts, InitializeMintTakes, 0, external)
  BY DEF InitializeMintAccounts, InitializeMintTakes
<1>2. ServesByEither(UpdateMetadataAccounts, UpdateMetadataTakes, external)
  BY DEF UpdateMetadataAccounts, UpdateMetadataTakes
<1>3. ServesConfiguration(InitializeVerificationConfigAccounts, InitializeVerificationConfigTakes)
  BY DEF InitializeVerificationConfigAccounts, InitializeVerificationConfigTakes, TransferHookTakes
<1>4. ServesConfiguration(UpdateVerificationConfigAccounts, UpdateVerificationConfigTakes)
  BY DEF UpdateVerificationConfigAccounts, UpdateVerificationConfigTakes, TransferHookTakes
<1>5. ServesConfiguration(TrimVerificationConfigAccounts, TrimVerificationConfigTakes)
  BY DEF TrimVerificationConfigAccounts, TrimVerificationConfigTakes, TransferHookTakes
<1>6. ServesByPrograms(MintAccounts, ExecuteMintTakes, external)
  BY DEF MintAccounts, ExecuteMintTakes
<1>7. ServesByPrograms(BurnAccounts, ExecuteBurnTakes, external)
  BY DEF BurnAccounts, ExecuteBurnTakes
<1>8. ServesByPrograms(PauseAccounts, ExecutePauseTakes, external)
  BY DEF PauseAccounts, ExecutePauseTakes
<1>9. ServesByPrograms(ResumeAccounts, ExecuteResumeTakes, external)
  BY DEF ResumeAccounts, ExecuteResumeTakes
<1>10. ServesByPrograms(FreezeAccounts, ExecuteFreezeTakes, external)
  BY DEF FreezeAccounts, ExecuteFreezeTakes
<1>11. ServesByPrograms(ThawAccounts, ExecuteThawTakes, external)
  BY DEF ThawAccounts, ExecuteThawTakes
<1>12. ServesByPrograms(TransferAccounts, ExecuteTransferTakes, external)
  BY DEF TransferAccounts, ExecuteTransferTakes
<1>13. ServesByEither(CreateRateAccountAccounts, CreateRateAccountTakes, external)
  BY DEF CreateRateAccountAccounts, CreateRateAccountTakes
<1>14. ServesByEither(UpdateRateAccountAccounts, UpdateRateAccountTakes, external)
  BY DEF UpdateRateAccountAccounts, UpdateRateAccountTakes
<1>15. ServesByEither(CloseRateAccountAccounts, CloseRateAccountTakes, external)
  BY DEF CloseRateAccountAccounts, CloseRateAccountTakes
<1>16. ServesByPrograms(SplitAccounts, ExecuteSplitTakes, external)
  <2>1. Flagged(SplitAccounts, {"payer"}) /\ HeadedByPrograms(SplitAccounts)
    BY DEF SplitAccounts, ExecuteSplitTakes
  <2>2. Grants(SplitAccounts, ExecuteSplitTakes \o << >>, 3, 0)
    BY DEF SplitAccounts, ExecuteSplitTakes
  <2>3. Lenient(SplitAccounts, ExecuteSplitTakes \o << >>, 3, external)
    BY DEF SplitAccounts, ExecuteSplitTakes
  <2> HIDE DEF Flagged, HeadedByPrograms, Grants, Lenient
  <2> QED
    BY <2>1, <2>2, <2>3
<1>17. ServesByPrograms(ConvertAccounts, ExecuteConvertTakes, external)
  <2>1. Flagged(ConvertAccounts, {"payer"}) /\ HeadedByPrograms(ConvertAccounts)
    BY DEF ConvertAccounts, ExecuteConvertTakes
  <2>2. Grants(ConvertAccounts, ExecuteConvertTakes \o << >>, 3, 0)
    BY DEF ConvertAccounts, ExecuteConvertTakes
  <2>3. Lenient(ConvertAccounts, ExecuteConvertTakes \o << >>, 3, external)
    BY DEF ConvertAccounts, ExecuteConvertTakes
  <2> HIDE DEF Flagged, HeadedByPrograms, Grants, Lenient
  <2> QED
    BY <2>1, <2>2, <2>3
<1>18. ServesByPrograms(CreateProofAccountAccounts, CreateProofAccountTakes, external)
  BY DEF CreateProofAccountAccounts, CreateProofAccountTakes
<1>19. ServesByPrograms(UpdateProofAccountAccounts, UpdateProofAccountTakes, external)
  BY DEF UpdateProofAccountAccounts, UpdateProofAccountTakes
<1>20. ServesByEither(CreateDistributionEscrowAccounts, CreateDistributionEscrowTakes, external)
  BY DEF CreateDistributionEscrowAccounts, CreateDistributionEscrowTakes
<1>21. ServesByPrograms(ClaimDistributionAccounts, ClaimDistributionTakes(external), external)
  <2>1. Flagged(ClaimDistributionAccounts, {"payer"}) /\ HeadedByPrograms(ClaimDistributionAccounts)
    BY DEF ClaimDistributionAccounts, ClaimDistributionTakes
  <2>2. Grants(ClaimDistributionAccounts, ClaimDistributionTakes(external) \o << >>, 3, 0)
    BY DEF ClaimDistributionAccounts, ClaimDistributionTakes
  <2>3. Lenient(ClaimDistributionAccounts, ClaimDistributionTakes(external) \o << >>, 3, external)
    BY DEF ClaimDistributionAccounts, ClaimDistributionTakes
  <2> HIDE DEF Flagged, HeadedByPrograms, Grants, Lenient
  <2> QED
    BY <2>1, <2>2, <2>3
<1>22. ServesByEither(CloseActionReceiptAccountAccounts, CloseActionReceiptTakes, external)
  BY DEF CloseActionReceiptAccountAccounts, CloseActionReceiptTakes
<1>23. ServesByEither(CloseClaimReceiptAccountAccounts, CloseClaimReceiptTakes, external)
  BY DEF CloseClaimReceiptAccountAccounts, CloseClaimReceiptTakes
<1>24. ServesByEither(UpdateDefaultAccountStateAccounts, UpdateDefaultAccountStateTakes, external)
  BY DEF UpdateDefaultAccountStateAccounts, UpdateDefaultAccountStateTakes
<1> HIDE DEF Flagged, Serves, ServesByPrograms, ServesByEither, ServesConfiguration
<1> QED
  BY <1>1, <1>2, <1>3, <1>4, <1>5, <1>6, <1>7, <1>8, <1>9, <1>10, <1>11, <1>12, <1>13, <1>14,
     <1>15, <1>16, <1>17, <1>18, <1>19, <1>20, <1>21, <1>22, <1>23, <1>24

LEMMA VerifyTable ==
  /\ Flagged(VerifyAccounts, {"payer"}) /\ HeadedByPrograms(VerifyAccounts)
  /\ Len(VerifyAccounts) = 3 /\ \A i \in 1 .. 3 : ~VerifyAccounts[i].optional
BY DEF Flagged, HeadedByPrograms, Headed, Sized, VerifyAccounts, ProgramsOverhead, Readonly, Field

LEMMA Granted ==
  ASSUME NEW op \in Ops \ {"Verify"}, NEW accounts
  PROVE  LET table == ClientTable[op]
             takes == HandlerTakes(op, accounts) \o << >>
             external == IsExternalSettlement(accounts)
         IN  /\ Flagged(table, Signers(op))
             /\ op \in ProgramsOnly => HeadedByPrograms(table)
             /\ op \notin ProgramsOnly /\ op # "InitializeMint" => HeadedByEither(table)
             /\ op \in WritesConfiguration =>
                  /\ Grants(table, takes, 3, 3) /\ Insistent(table, takes)
                  /\ Grants(table, HandlerTakes(op, accounts) \o TransferHookTakes, 3, 0)
             /\ op \notin WritesConfiguration =>
                  Grants(table, takes, Offset(op), 0) /\ Lenient(table, takes, Offset(op), external)
BY GrantTables
   DEF Serves, ServesByPrograms, ServesByEither, ServesConfiguration, HandlerTakes, ClientTable,
       Offset, WritesConfiguration, ProgramsOnly, Signers, Ops

-----------------------------------------------------------------------------
(* What a call asks for: a meta for each field, in order, and one without   *)
(* privileges for each remaining account.                                   *)
LeftOut(c, field) == field.optional /\ field.name \in c.omitted

FieldMeta(c, field) ==
  IF LeftOut(c, field) THEN Meta(SecurityToken, FALSE, FALSE)
                       ELSE Meta(Address(c, field.name), field.writable, field.signer)

Made(c, table, metas) ==
  /\ Sized(metas) /\ Len(metas) = Len(table) + Len(c.rest)
  /\ \A i \in 1 .. Len(table) : metas[i] = FieldMeta(c, table[i])
  /\ \A i \in 1 .. Len(c.rest) : metas[Len(table) + i] = Meta(c.rest[i].key, FALSE, FALSE)

(* Every required field is set, or known to the builder. *)
AllSet(c) ==
  c.omitted \cap Required(ClientTable[c.op]) \subseteq
    IF c.layer = "builder" THEN Defaults ELSE {}

Plain(rest, c) ==
  Len(c.rest) \in Nat /\ rest = [i \in 1 .. Len(c.rest) |-> Meta(c.rest[i].key, FALSE, FALSE)]

LEMMA AnyTable ==
  ASSUME NEW op \in Ops
  PROVE  /\ Sized(ClientTable[op]) /\ 0 < Len(ClientTable[op])
         /\ Flagged(ClientTable[op], Signers(op))
         /\ \A i \in 1 .. Len(ClientTable[op]) :
              ClientTable[op][i].optional => ClientTable[op][i].name \notin Defaults
<1>1. CASE op = "Verify"
  <2>1. ClientTable[op] = VerifyAccounts /\ Signers(op) = {"payer"}
    BY <1>1 DEF ClientTable, Signers
  <2> QED
    BY <2>1, VerifyTable DEF Flagged
<1>2. CASE op # "Verify"
  <2>1. Flagged(ClientTable[op], Signers(op))
    BY <1>2, Granted
  <2>2. /\ Sized(ClientTable[op])
        /\ \A i \in 1 .. Len(ClientTable[op]) :
             ClientTable[op][i].optional <=> ClientTable[op][i].name \in OptionalNames(op)
    BY <1>2, HandlerFits DEF Fits
  <2>3. \A name \in OptionalNames(op) : name \notin Defaults
    BY DEF OptionalNames, Defaults, HookFields
  <2>4. 0 < Len(ClientTable[op])
    <3>1. CASE op = "InitializeMint"
      BY <3>1 DEF ClientTable, InitializeMintAccounts
    <3>2. CASE op # "InitializeMint"
      BY <1>2, <2>2, <3>2, Granted DEF HeadedByPrograms, HeadedByEither, Headed, Sized
    <3> QED
      BY <3>1, <3>2
  <2> QED
    BY <2>1, <2>2, <2>3, <2>4
<1> QED
  BY <1>1, <1>2

TableOf(c, table) == c.op \in Ops /\ table = ClientTable[c.op]

LEMMA TableFacts ==
  ASSUME NEW c, NEW table, TableOf(c, table)
  PROVE  /\ Sized(table) /\ Len(table) \in Nat /\ 0 < Len(table)
         /\ Flagged(table, Signers(c.op))
         /\ \A i \in 1 .. Len(table) : table[i].optional => table[i].name \notin Defaults
BY AnyTable DEF TableOf, Sized

LEMMA FilledFields ==
  ASSUME NEW c, NEW table, TableOf(c, table),
         NEW filled, Fills(c, filled), Required(table) \subseteq DOMAIN filled,
         NEW i \in 1 .. Len(table)
  PROVE  MetaOf(table[i], filled) = FieldMeta(c, table[i])
<1> DEFINE name == table[i].name
<1>1. PICK defaults \in SUBSET Defaults :
        /\ DOMAIN filled = DOMAIN Given(c) \cup defaults
        /\ \A n \in DOMAIN filled :
             filled[n] = IF n \in DOMAIN Given(c) THEN Given(c)[n] ELSE n
  BY DEF Fills
<1>2. Sized(table) /\ (table[i].optional => name \notin Defaults)
  BY TableFacts
<1>3. name \in NamesIn(table) /\ (~table[i].optional => name \in Required(table))
  BY <1>2 DEF Sized, NamesIn, Required
<1>4. /\ DOMAIN Given(c) = NamesIn(table) \ c.omitted
      /\ name \in DOMAIN Given(c) => Given(c)[name] = Address(c, name)
  BY DEF Given, TableOf
<1>5. CASE name \notin c.omitted
  <2>1. name \in DOMAIN filled /\ filled[name] = Address(c, name)
    BY <1>1, <1>3, <1>4, <1>5
  <2> QED
    BY <1>5, <2>1 DEF FieldMeta, LeftOut, MetaOf
<1>6. CASE name \in c.omitted /\ ~table[i].optional
  <2>1. name \in DOMAIN filled /\ name \in defaults /\ filled[name] = name
    BY <1>1, <1>3, <1>4, <1>6
  <2>2. Address(c, name) = name
    BY <1>1, <2>1 DEF Defaults, Address, AddressOf
  <2> QED
    BY <1>6, <2>1, <2>2 DEF FieldMeta, LeftOut, MetaOf
<1>7. CASE name \in c.omitted /\ table[i].optional
  <2>1. name \notin DOMAIN filled
    BY <1>1, <1>2, <1>4, <1>7
  <2> QED
    BY <1>7, <2>1 DEF FieldMeta, LeftOut, MetaOf
<1> QED
  BY <1>5, <1>6, <1>7

LEMMA Beyond ==
  ASSUME NEW n \in Nat, NEW m \in Nat, NEW i \in 1 .. n + m, i \notin 1 .. n
  PROVE  \E k \in 1 .. m : i = n + k
<1>1. i - n \in 1 .. m /\ i = n + (i - n)
  OBVIOUS
<1> QED
  BY <1>1

LEMMA Places ==
  ASSUME NEW n \in Nat, NEW m \in Nat, NEW all, all = n + m
  PROVE  /\ \A i \in 1 .. n : i \in 1 .. all
         /\ \A i \in 1 .. m : n + i \in 1 .. all
OBVIOUS

LEMMA Joined ==
  ASSUME NEW S, NEW s \in Seq(S), NEW t \in Seq(S)
  PROVE  /\ Sized(s \o t) /\ Len(s \o t) = Len(s) + Len(t)
         /\ \A i \in 1 .. Len(s) : (s \o t)[i] = s[i]
         /\ \A i \in 1 .. Len(t) : (s \o t)[Len(s) + i] = t[i]
<1>1. s \o t \in Seq(S)
  OBVIOUS
<1>2. Sized(s \o t)
  BY <1>1 DEF Sized
<1>3. Len(s \o t) = Len(s) + Len(t) /\ Len(s) \in Nat /\ Len(t) \in Nat
  OBVIOUS
<1>4. \A i \in 1 .. Len(s) : (s \o t)[i] = s[i]
  OBVIOUS
<1>5. ASSUME NEW i \in 1 .. Len(t) PROVE (s \o t)[Len(s) + i] = t[i]
  BY <1>3
<1> QED
  BY <1>2, <1>3, <1>4, <1>5

LEMMA MetasMade ==
  ASSUME NEW c, NEW table, TableOf(c, table),
         NEW filled, Fills(c, filled), Required(table) \subseteq DOMAIN filled,
         NEW rest, Plain(rest, c)
  PROVE  Made(c, table, Metas(table, filled, rest))
<1> DEFINE front == [i \in DOMAIN table |-> MetaOf(table[i], filled)]
           plain(i) == Meta(c.rest[i].key, FALSE, FALSE)
           S == {front[i] : i \in 1 .. Len(table)} \cup {plain(i) : i \in 1 .. Len(c.rest)}
<1>1. Sized(table) /\ Len(c.rest) \in Nat
  BY TableFacts DEF Plain
<1>2. front \in Seq(S) /\ Len(front) = Len(table)
      /\ \A i \in 1 .. Len(table) : front[i] = FieldMeta(c, table[i])
  <2>1. \A i \in 1 .. Len(table) : front[i] = FieldMeta(c, table[i])
    BY <1>1, FilledFields DEF Sized
  <2>2. front \in [1 .. Len(table) -> S] /\ Len(table) \in Nat
    BY <1>1 DEF Sized
  <2> HIDE DEF front, S
  <2> QED
    BY <2>1, <2>2
<1>3. rest \in Seq(S) /\ Len(rest) = Len(c.rest)
      /\ \A i \in 1 .. Len(c.rest) : rest[i] = plain(i)
  <2>1. rest = [i \in 1 .. Len(c.rest) |-> plain(i)]
    BY DEF Plain
  <2>2. rest \in [1 .. Len(c.rest) -> S]
    BY <2>1
  <2> HIDE DEF S, plain
  <2> QED
    BY <1>1, <2>1, <2>2
<1>4. Metas(table, filled, rest) = front \o rest
  BY DEF Metas
<1> HIDE DEF front, S, plain
<1>5. /\ Sized(front \o rest) /\ Len(front \o rest) = Len(table) + Len(c.rest)
      /\ \A i \in 1 .. Len(table) : (front \o rest)[i] = front[i]
      /\ \A i \in 1 .. Len(c.rest) : (front \o rest)[Len(table) + i] = rest[i]
  <2>1. /\ Sized(front \o rest) /\ Len(front \o rest) = Len(front) + Len(rest)
        /\ \A i \in 1 .. Len(front) : (front \o rest)[i] = front[i]
        /\ \A i \in 1 .. Len(rest) : (front \o rest)[Len(front) + i] = rest[i]
    <3>1. front \in Seq(S) /\ rest \in Seq(S)
      BY <1>2, <1>3
    <3> QED
      BY <3>1, Joined
  <2> QED
    BY <1>2, <1>3, <2>1
<1> QED
  BY <1>2, <1>3, <1>4, <1>5 DEF Made, plain

(* Remaining accounts ask for no privileges.  (The flags of those that do   *)
(* are exchanged by the CPI client: RemainingAsGiven.)                      *)
PlainRemaining == \A account \in Addable : account = Meta(account.key, FALSE, FALSE)

LEMMA RestPlain ==
  ASSUME PlainRemaining, NEW c, IsCall(c)
  PROVE  /\ Plain(c.rest, c)
         /\ LET tuples == [i \in DOMAIN c.rest |-> Tuple(c.rest[i])]
            IN  Plain([i \in DOMAIN tuples |-> Remaining(tuples[i])], c)
<1>1. /\ Len(c.rest) \in Nat /\ DOMAIN c.rest = 1 .. Len(c.rest)
      /\ c.rest = [i \in 1 .. Len(c.rest) |-> c.rest[i]]
      /\ \A i \in 1 .. Len(c.rest) : c.rest[i] \in Addable
  BY CallParts
<1>2. \A i \in 1 .. Len(c.rest) : c.rest[i] = Meta(c.rest[i].key, FALSE, FALSE)
  BY <1>1 DEF PlainRemaining
<1>3. ASSUME NEW i \in 1 .. Len(c.rest)
      PROVE  Remaining(Tuple(c.rest[i])) = Meta(c.rest[i].key, FALSE, FALSE)
  <2>1. c.rest[i].writable = FALSE /\ c.rest[i].signer = FALSE
    <3>1. \A key : LET meta == Meta(key, FALSE, FALSE)
                   IN  meta.writable = FALSE /\ meta.signer = FALSE
      BY DEF Meta
    <3> QED
      BY <1>2, <3>1
  <2> QED
    BY <2>1 DEF Remaining, Tuple
<1>4. Plain(c.rest, c)
  BY <1>1, <1>2 DEF Plain
<1> DEFINE tuples == [i \in DOMAIN c.rest |-> Tuple(c.rest[i])]
<1>5. [i \in DOMAIN tuples |-> Remaining(tuples[i])]
        = [i \in 1 .. Len(c.rest) |-> Meta(c.rest[i].key, FALSE, FALSE)]
  BY <1>1, <1>3
<1> QED
  BY <1>1, <1>4, <1>5 DEF Plain

LEMMA MadeByBuilder ==
  ASSUME PlainRemaining, NEW c, IsCall(c), c.layer = "builder"
  PROVE  LET metas == ClientBuilder(c.op, Given(c), c.rest)
         IN  IF AllSet(c) THEN Made(c, ClientTable[c.op], metas) ELSE metas = << >>
<1> DEFINE table == ClientTable[c.op]
           given == Given(c)
<1>1. c.op \in Ops /\ c.omitted \subseteq NamesIn(table)
  BY CallParts
<1>2. PICK defaults \in SUBSET Defaults :
        /\ NamesIn(table) \cap Defaults \subseteq defaults
        /\ ClientBuilder(c.op, given, c.rest) = Built(table, defaults, given, c.rest)
  BY <1>1, ClientMakes
<1> DEFINE filled == [name \in DOMAIN given \cup defaults |->
                        IF name \in DOMAIN given THEN given[name] ELSE name]
<1>3. Required(table) \subseteq NamesIn(table) /\ DOMAIN given = NamesIn(table) \ c.omitted
  BY DEF Required, NamesIn, Given
<1>4. Required(table) \subseteq DOMAIN filled <=> AllSet(c)
  BY <1>2, <1>3 DEF AllSet
<1>5. ClientBuilder(c.op, given, c.rest)
        = IF Required(table) \subseteq DOMAIN filled THEN Metas(table, filled, c.rest) ELSE << >>
  BY <1>2 DEF Built, Panic
<1>6. Fills(c, filled)
  BY DEF Fills
<1>7. Plain(c.rest, c)
  BY RestPlain
<1>8. TableOf(c, table)
  BY <1>1 DEF TableOf
<1> HIDE DEF filled
<1> QED
  BY <1>4, <1>5, <1>6, <1>7, <1>8, MetasMade

(* The CPI client has no defaults, and hands over every account it names. *)
LEMMA MadeByCpi ==
  ASSUME PlainRemaining, NEW c, IsCall(c), c.layer = "cpi"
  PROVE  LET invoked == CpiBuilder(c.op, Given(c), c.rest)
         IN  IF AllSet(c)
               THEN /\ Made(c, ClientTable[c.op], invoked.metas)
                    /\ \A i \in DOMAIN invoked.metas : invoked.metas[i].key \in invoked.infos
               ELSE invoked.metas = << >>
<1> DEFINE table == ClientTable[c.op]
           given == Given(c)
           tuples == [i \in DOMAIN c.rest |-> Tuple(c.rest[i])]
           rest == [i \in DOMAIN tuples |-> Remaining(tuples[i])]
           invoked == CpiBuilder(c.op, given, c.rest)
<1>1. c.op \in Ops /\ c.omitted \subseteq NamesIn(table) /\ c.rest \in Seq(Addable)
  BY CallParts
<1>2. Required(table) \subseteq NamesIn(table) /\ DOMAIN given = NamesIn(table) \ c.omitted
  BY DEF Required, NamesIn, Given
<1>3. Required(table) \subseteq DOMAIN given <=> AllSet(c)
  BY <1>2 DEF AllSet
<1>4. CASE ~AllSet(c)
  BY <1>3, <1>4 DEF CpiBuilder, Uninvoked, Panic
<1>5. CASE AllSet(c)
  <2>1. invoked = Invoked(table, given, tuples)
    BY <1>1, <1>3, <1>5, ClientMakes DEF CpiBuilder
  <2>2. /\ invoked.metas = Metas(table, given, rest)
        /\ invoked.infos = {SecurityToken} \cup {given[name] : name \in DOMAIN given}
                             \cup {tuples[i][1] : i \in DOMAIN tuples}
    BY <2>1 DEF Invoked
  <2>3. Fills(c, given)
    <3>1. \A name \in DOMAIN given :
            given[name] = IF name \in DOMAIN Given(c) THEN Given(c)[name] ELSE name
      OBVIOUS
    <3>2. {} \in SUBSET Defaults /\ DOMAIN given = DOMAIN Given(c) \cup {}
      OBVIOUS
    <3> QED
      BY <3>1, <3>2 DEF Fills
  <2>4. Plain(rest, c)
    BY RestPlain
  <2>5. Made(c, table, invoked.metas)
    <3>1. TableOf(c, table)
      BY <1>1 DEF TableOf
    <3> HIDE DEF rest, given, invoked
    <3> QED
      BY <1>3, <1>5, <2>2, <2>3, <2>4, <3>1, MetasMade
  <2>6. /\ \A name \in NamesIn(table) \ c.omitted : Address(c, name) \in invoked.infos
        /\ \A i \in 1 .. Len(c.rest) : c.rest[i].key \in invoked.infos
        /\ SecurityToken \in invoked.infos
    <3>1. \A name \in DOMAIN given : given[name] = Address(c, name)
      BY DEF Given
    <3>2. \A i \in 1 .. Len(c.rest) : i \in DOMAIN tuples /\ tuples[i][1] = c.rest[i].key
      BY <1>1 DEF Tuple
    <3> HIDE DEF invoked, tuples, given
    <3> QED
      BY <1>2, <2>2, <3>1, <3>2 DEF given
  <2>7. ASSUME NEW i \in DOMAIN invoked.metas PROVE invoked.metas[i].key \in invoked.infos
    <3> DEFINE metas == invoked.metas
    <3>1. /\ Sized(metas) /\ Len(metas) = Len(table) + Len(c.rest)
          /\ \A k \in 1 .. Len(table) : metas[k] = FieldMeta(c, table[k])
          /\ \A k \in 1 .. Len(c.rest) : metas[Len(table) + k] = Meta(c.rest[k].key, FALSE, FALSE)
      BY <2>5 DEF Made
    <3>2. Len(table) \in Nat /\ DOMAIN table = 1 .. Len(table) /\ Len(c.rest) \in Nat
      BY <1>1, AnyTable DEF Sized
    <3> HIDE DEF invoked
    <3>3. CASE i \in 1 .. Len(table)
      <4>1. table[i].name \in NamesIn(table)
            /\ (~table[i].optional => table[i].name \in Required(table))
        BY <3>2, <3>3 DEF NamesIn, Required
      <4>2. ~LeftOut(c, table[i]) => table[i].name \notin c.omitted
        BY <1>2, <1>3, <1>5, <4>1 DEF LeftOut
      <4>3. FieldMeta(c, table[i]).key \in invoked.infos
        BY <2>6, <4>1, <4>2 DEF FieldMeta, Meta
      <4> QED
        BY <3>1, <3>3, <4>3
    <3>4. CASE i \notin 1 .. Len(table)
      <4>1. i \in 1 .. Len(table) + Len(c.rest)
        BY <3>1 DEF Sized
      <4>2. PICK k \in 1 .. Len(c.rest) : i = Len(table) + k
        BY <3>2, <3>4, <4>1, Beyond
      <4>3. metas[i] = Meta(c.rest[k].key, FALSE, FALSE)
        BY <3>1, <4>2
      <4>4. metas[i].key = c.rest[k].key
        BY <4>3 DEF Meta
      <4> QED
        BY <2>6, <4>4
    <3> QED
      BY <3>3, <3>4
  <2> QED
    BY <1>5, <2>5, <2>7
<1> QED
  BY <1>4, <1>5

-----------------------------------------------------------------------------
(* What arrives at the program: the accounts in their places, privileged at *)
(* least where the client asks for it; the payer signs if it pays the fees  *)
(* or is asked to, and the creator only as the payer.                       *)
KeyFor(c, field) == IF LeftOut(c, field) THEN SecurityToken ELSE Address(c, field.name)

Arrived(c, table, accounts) ==
  /\ Sized(accounts) /\ Len(accounts) = Len(table) + Len(c.rest)
  /\ \A i \in 1 .. Len(table) :
       /\ accounts[i].key = KeyFor(c, table[i])
       /\ ~LeftOut(c, table[i]) =>
            /\ table[i].writable => accounts[i].writable
            /\ table[i].signer => accounts[i].signer
  /\ \A i \in 1 .. Len(c.rest) : accounts[Len(table) + i].key = c.rest[i].key
  /\ \A i \in 1 .. Len(accounts) :
       c.op # "InitializeMint" /\ accounts[i].key \in {"payer", "creator"} =>
         (accounts[i].signer <=>
            accounts[i].key = "payer" /\ (c.layer = "builder" \/ "payer" \in NamesIn(table)))

FieldParts(c, field) ==
  /\ FieldMeta(c, field).key = KeyFor(c, field)
  /\ ~LeftOut(c, field) => /\ FieldMeta(c, field).writable = field.writable
                           /\ FieldMeta(c, field).signer = field.signer
  /\ LeftOut(c, field) => FieldMeta(c, field).signer = FALSE

LEMMA FieldMetaParts ==
  ASSUME NEW c, NEW field
  PROVE  FieldParts(c, field)
BY DEF FieldParts, FieldMeta, KeyFor, Meta

(* Whoever is asked to sign is a signer of the instruction, and is named.   *)
LEMMA AskedToSign ==
  ASSUME NEW c, NEW table, TableOf(c, table),
         Len(c.rest) \in Nat, NEW metas, Made(c, table, metas),
         NEW i \in 1 .. Len(metas), metas[i].signer
  PROVE  /\ metas[i].key \in Signers(c.op)
         /\ metas[i].key \in NamesIn(table)
<1>1. Sized(table) /\ Flagged(table, Signers(c.op)) /\ Len(table) \in Nat
      /\ Len(metas) = Len(table) + Len(c.rest)
  BY TableFacts DEF Made, Sized
<1>2. i \in 1 .. Len(table)
  <2>1. SUFFICES ASSUME i \notin 1 .. Len(table) PROVE FALSE
    OBVIOUS
  <2>2. PICK k \in 1 .. Len(c.rest) : i = Len(table) + k
    <3>1. i \in 1 .. Len(table) + Len(c.rest)
      BY <1>1
    <3> QED
      BY <1>1, <2>1, <3>1, Beyond
  <2>3. metas[i] = Meta(c.rest[k].key, FALSE, FALSE)
    BY <2>2 DEF Made
  <2> QED
    BY <2>3 DEF Meta
<1>3. metas[i] = FieldMeta(c, table[i])
  BY <1>2 DEF Made
<1>4. ~LeftOut(c, table[i]) /\ table[i].signer /\ metas[i].key = Address(c, table[i].name)
  <2>1. FieldParts(c, table[i])
    BY FieldMetaParts
  <2>2. ~LeftOut(c, table[i]) /\ table[i].signer
    BY <1>3, <2>1 DEF FieldParts
  <2> QED
    BY <1>3, <2>1, <2>2 DEF FieldParts, KeyFor
<1>5. table[i].name \in Signers(c.op) /\ table[i].name \in NamesIn(table)
  BY <1>1, <1>2, <1>4 DEF Flagged, NamesIn, Sized
<1>6. Address(c, table[i].name) = table[i].name
  BY <1>5 DEF Signers, Address, AddressOf
<1> QED
  BY <1>4, <1>5, <1>6

LEMMA PayerAsked ==
  ASSUME NEW c, NEW table, TableOf(c, table),
         NEW metas, Made(c, table, metas), "payer" \in NamesIn(table)
  PROVE  \E i \in 1 .. Len(table) : metas[i].key = "payer" /\ metas[i].signer
<1>1. Sized(table) /\ Flagged(table, Signers(c.op)) /\ "payer" \in Signers(c.op)
  BY TableFacts DEF Signers
<1>2. PICK i \in 1 .. Len(table) : table[i].name = "payer"
  BY <1>1 DEF NamesIn, Sized
<1>3. table[i].signer /\ ~table[i].optional
  BY <1>1, <1>2 DEF Flagged
<1>4. metas[i] = FieldMeta(c, table[i]) /\ ~LeftOut(c, table[i])
  BY <1>3 DEF Made, LeftOut
<1>5. metas[i].key = KeyFor(c, table[i]) /\ metas[i].signer
  <2>1. FieldParts(c, table[i])
    BY FieldMetaParts
  <2> QED
    BY <1>3, <1>4, <2>1 DEF FieldParts
<1>6. KeyFor(c, table[i]) = "payer"
  BY <1>2, <1>4 DEF KeyFor, Address, AddressOf
<1> QED
  BY <1>5, <1>6

LEMMA MergedArrives ==
  ASSUME NEW c, NEW table, TableOf(c, table), Len(c.rest) \in Nat,
         NEW metas, Made(c, table, metas), c.layer \in {"builder", "cpi"}
  PROVE  /\ SignaturesFound(c.op, metas)
         /\ Arrived(c, table, Merged(metas, IF c.layer = "builder" THEN "payer" ELSE "nobody"))
<1> DEFINE payer == IF c.layer = "builder" THEN "payer" ELSE "nobody"
           accounts == Merged(metas, payer)
<1>1. /\ Sized(metas) /\ Len(metas) = Len(table) + Len(c.rest)
      /\ Sized(table)
      /\ \A i \in 1 .. Len(table) : i \in 1 .. Len(metas)
      /\ \A i \in 1 .. Len(c.rest) : Len(table) + i \in 1 .. Len(metas)
  <2>1. Sized(metas) /\ Len(metas) = Len(table) + Len(c.rest) /\ Sized(table)
    BY TableFacts DEF Made
  <2>2. Len(table) \in Nat
    BY <2>1 DEF Sized
  <2> QED
    BY <2>1, <2>2, Places
<1>2. /\ Sized(accounts) /\ Len(accounts) = Len(metas)
      /\ \A i \in 1 .. Len(metas) : accounts[i].key = metas[i].key
  BY <1>1, MergedFacts
<1>3. SignaturesFound(c.op, metas)
  BY <1>1, AskedToSign DEF SignaturesFound, Sized
<1>4. ASSUME NEW i \in 1 .. Len(metas)
      PROVE  /\ accounts[i].writable <=> metas[i].key = payer
                  \/ \E j \in 1 .. Len(metas) : metas[j].key = metas[i].key /\ metas[j].writable
             /\ accounts[i].signer <=> metas[i].key = payer
                  \/ \E j \in 1 .. Len(metas) : metas[j].key = metas[i].key /\ metas[j].signer
  <2>1. DOMAIN metas = 1 .. Len(metas)
    BY <1>1 DEF Sized
  <2> HIDE DEF payer
  <2> QED
    BY <2>1 DEF Merged, Meta
<1> HIDE DEF accounts
<1>5. ASSUME NEW i \in 1 .. Len(table)
      PROVE  /\ accounts[i].key = KeyFor(c, table[i])
             /\ ~LeftOut(c, table[i]) =>
                  /\ table[i].writable => accounts[i].writable
                  /\ table[i].signer => accounts[i].signer
  <2>1. i \in 1 .. Len(metas)
    BY <1>1
  <2>2. metas[i] = FieldMeta(c, table[i])
    BY DEF Made
  <2>3. FieldParts(c, table[i])
    BY FieldMetaParts
  <2>4. (metas[i].writable => accounts[i].writable) /\ (metas[i].signer => accounts[i].signer)
    BY <1>4, <2>1
  <2>5. accounts[i].key = KeyFor(c, table[i])
    BY <1>2, <2>1, <2>2, <2>3 DEF FieldParts
  <2> QED
    BY <2>2, <2>3, <2>4, <2>5 DEF FieldParts
<1>6. ASSUME NEW i \in 1 .. Len(c.rest)
      PROVE  accounts[Len(table) + i].key = c.rest[i].key
  <2>1. Len(table) + i \in 1 .. Len(metas)
    BY <1>1
  <2>2. metas[Len(table) + i] = Meta(c.rest[i].key, FALSE, FALSE)
    BY DEF Made
  <2>3. metas[Len(table) + i].key = c.rest[i].key
    BY <2>2 DEF Meta
  <2> QED
    BY <1>2, <2>1, <2>3
<1>7. ASSUME NEW i \in 1 .. Len(accounts), c.op # "InitializeMint",
             accounts[i].key \in {"payer", "creator"}
      PROVE  accounts[i].signer <=>
               accounts[i].key = "payer" /\ (c.layer = "builder" \/ "payer" \in NamesIn(table))
  <2>1. i \in 1 .. Len(metas) /\ accounts[i].key = metas[i].key
    BY <1>2, <1>7
  <2>2. \A j \in 1 .. Len(metas) :
          metas[j].signer => metas[j].key = "payer" /\ "payer" \in NamesIn(table)
    BY <1>7, AskedToSign DEF Signers
  <2>3. "payer" \in NamesIn(table) =>
          \E j \in 1 .. Len(metas) : metas[j].key = "payer" /\ metas[j].signer
    BY <1>1, PayerAsked
  <2> QED
    BY <1>4, <1>7, <2>1, <2>2, <2>3
<1> QED
  BY <1>1, <1>2, <1>3, <1>5, <1>6, <1>7 DEF Arrived, accounts

LEMMA DeliveredArrives ==
  ASSUME PlainRemaining, NEW c, IsCall(c)
  PROVE  IF AllSet(c) THEN /\ Delivered(c) # << >>
                           /\ Arrived(c, ClientTable[c.op], Delivered(c))
                      ELSE Delivered(c) = << >>
<1> DEFINE table == ClientTable[c.op]
           Goal == IF AllSet(c) THEN Delivered(c) # << >> /\ Arrived(c, table, Delivered(c))
                                ELSE Delivered(c) = << >>
<1>1. TableOf(c, table) /\ c.layer \in {"builder", "cpi"} /\ Len(c.rest) \in Nat
  BY CallParts DEF TableOf
<1> HIDE DEF table
<1>2. ASSUME NEW accounts, Arrived(c, table, accounts) PROVE accounts # << >>
  <2>1. Len(accounts) = Len(table) + Len(c.rest) /\ 0 < Len(table) /\ Len(table) \in Nat
    BY <1>1, <1>2, TableFacts DEF Arrived
  <2>2. Len(accounts) # 0
    BY <1>1, <2>1
  <2> QED
    BY <2>2
<1>3. ASSUME c.layer = "builder" PROVE Goal
  <2> DEFINE metas == ClientBuilder(c.op, Given(c), c.rest)
  <2>1. Delivered(c) = IF SignaturesFound(c.op, metas) THEN Merged(metas, "payer") ELSE << >>
    BY <1>3 DEF Delivered
  <2>2. IF AllSet(c) THEN Made(c, table, metas) ELSE metas = << >>
    BY <1>3, MadeByBuilder DEF table
  <2> HIDE DEF metas
  <2>3. CASE AllSet(c)
    BY <1>1, <1>2, <1>3, <2>1, <2>2, <2>3, MergedArrives
  <2>4. CASE ~AllSet(c)
    BY <2>1, <2>2, <2>4, NothingMerged
  <2> QED
    BY <2>3, <2>4
<1>4. ASSUME c.layer = "cpi" PROVE Goal
  <2> DEFINE invoked == CpiBuilder(c.op, Given(c), c.rest)
             metas == invoked.metas
  <2>1. Delivered(c) = IF /\ SignaturesFound(c.op, metas)
                          /\ \A i \in DOMAIN metas : metas[i].key \in invoked.infos
                         THEN Merged(metas, "nobody") ELSE << >>
    BY <1>4 DEF Delivered
  <2>2. IF AllSet(c)
          THEN /\ Made(c, table, metas)
               /\ \A i \in DOMAIN metas : metas[i].key \in invoked.infos
          ELSE metas = << >>
    BY <1>4, MadeByCpi DEF table
  <2> HIDE DEF metas, invoked
  <2>3. CASE AllSet(c)
    <3>1. SignaturesFound(c.op, metas) /\ Arrived(c, table, Merged(metas, "nobody"))
      BY <1>1, <1>4, <2>2, <2>3, MergedArrives
    <3> QED
      BY <1>2, <2>1, <2>2, <2>3, <3>1
  <2>4. CASE ~AllSet(c)
    BY <2>1, <2>2, <2>4, NothingMerged
  <2> QED
    BY <2>3, <2>4
<1> QED
  BY <1>1, <1>3, <1>4 DEF table

-----------------------------------------------------------------------------
(* What verification makes of the accounts that arrive.  A verification     *)
(* program is an account of its own: none of those the fields are for.      *)
ProgramsApart == \A p \in Range(Configured) : p \notin Addresses \cup {SecurityToken}

(* At the two places verification looks at stands what it looks for; in     *)
(* place of the sysvar the creator, who signs only if they pay.             *)
HeadSeen(c, table, accounts) ==
  /\ Len(accounts) \in Nat /\ 3 <= Len(table) /\ 3 <= Len(accounts)
  /\ c.mode \in {"introspection", "cpi"} =>
       accounts[2].key = "verification_config" /\ accounts[3].key = "instructions_sysvar"
  /\ c.mode = "creator" =>
       /\ c.op \notin ProgramsOnly \cup {"Verify"}
       /\ accounts[2].key = "mint_authority" /\ accounts[3].key = Creator(c)
       /\ accounts[3].signer <=>
            c.creatorPays /\ (c.layer = "builder" \/ "payer" \in NamesIn(table))
  /\ c.mode \in {"introspection", "cpi", "creator"}

LEMMA HeadOf ==
  ASSUME NEW c, IsCall(c), c.op # "InitializeMint"
  PROVE  LET table == ClientTable[c.op]
         IN  \/ HeadedByPrograms(table) /\ c.mode \in {"introspection", "cpi"}
             \/ HeadedByEither(table) /\ c.mode \in {"introspection", "cpi", "creator"}
                  /\ c.op \notin ProgramsOnly \cup {"Verify"}
<1>1. c.op \in Ops /\ c.mode \in Modes(c.op)
  BY CallParts
<1>2. CASE c.op = "Verify"
  <2>1. ClientTable[c.op] = VerifyAccounts /\ c.mode \in {"introspection", "cpi"}
    BY <1>1, <1>2 DEF ClientTable, Modes
  <2> QED
    BY <2>1, VerifyTable
<1>3. CASE c.op \in ProgramsOnly
  <2>1. c.op # "Verify" /\ c.mode \in {"introspection", "cpi"}
    BY <1>1, <1>3 DEF ProgramsOnly, Modes
  <2> QED
    BY <1>1, <1>3, <2>1, Granted
<1>4. CASE c.op \notin ProgramsOnly \cup {"Verify"}
  <2>1. c.mode \in {"introspection", "cpi", "creator"}
    BY <1>1, <1>4 DEF Modes
  <2> QED
    BY <1>1, <1>4, <2>1, Granted
<1> QED
  BY <1>2, <1>3, <1>4

LEMMA HeadArrives ==
  ASSUME NEW c, IsCall(c), c.op # "InitializeMint", Len(c.rest) \in Nat,
         NEW table, TableOf(c, table), NEW accounts, Arrived(c, table, accounts)
  PROVE  HeadSeen(c, table, accounts)
<1>1. \/ HeadedByPrograms(table) /\ c.mode \in {"introspection", "cpi"}
      \/ HeadedByEither(table) /\ c.mode \in {"introspection", "cpi", "creator"}
           /\ c.op \notin ProgramsOnly \cup {"Verify"}
  BY HeadOf DEF TableOf
<1>2. /\ Len(table) \in Nat /\ 3 <= Len(table)
      /\ ~table[2].optional /\ ~table[3].optional
  BY <1>1, TableFacts DEF HeadedByPrograms, HeadedByEither, Headed
<1>3. Len(accounts) \in Nat /\ 3 <= Len(accounts) /\ 2 \in 1 .. Len(table) /\ 3 \in 1 .. Len(table)
      /\ 3 \in 1 .. Len(accounts)
  <2>1. Len(accounts) = Len(table) + Len(c.rest)
    BY DEF Arrived
  <2> QED
    BY <1>2, <2>1
<1>4. /\ accounts[2].key = Address(c, table[2].name)
      /\ accounts[3].key = Address(c, table[3].name)
  BY <1>2, <1>3 DEF Arrived, KeyFor, LeftOut
<1>5. c.mode \in {"introspection", "cpi"} =>
        accounts[2].key = "verification_config" /\ accounts[3].key = "instructions_sysvar"
  BY <1>1, <1>4 DEF HeadedByPrograms, HeadedByEither, Headed, Address, AddressOf
<1>6. c.mode = "creator" =>
        accounts[2].key = "mint_authority" /\ accounts[3].key = Creator(c)
  BY <1>1, <1>4 DEF HeadedByEither, Headed, Address
<1>7. c.mode = "creator" =>
        (accounts[3].signer <=>
           c.creatorPays /\ (c.layer = "builder" \/ "payer" \in NamesIn(table)))
  BY <1>3, <1>6 DEF Arrived, Creator
<1> QED
  BY <1>1, <1>2, <1>3, <1>5, <1>6, <1>7 DEF HeadSeen

LEMMA FieldKeysKnown ==
  ASSUME NEW c, NEW table, TableOf(c, table), NEW accounts, Arrived(c, table, accounts),
         NEW i \in 1 .. Len(table)
  PROVE  accounts[i].key \in Addresses \cup {SecurityToken}
<1>1. accounts[i].key \in {SecurityToken, Address(c, table[i].name)}
  BY DEF Arrived, KeyFor
<1>2. AddressOf(table[i].name) \in Addresses
  <2>1. Sized(table)
    BY TableFacts
  <2>2. table[i].name \in NamesIn(ClientTable[c.op]) /\ c.op \in DOMAIN ClientTable
    BY <2>1 DEF NamesIn, Sized, TableOf, Ops
  <2> QED
    BY <2>2 DEF Addresses
<1>3. Address(c, table[i].name) \in Addresses
  <2>1. Address(c, table[i].name) \in
          {AddressOf(table[i].name), "verification_config", "mint_authority",
           "instructions_sysvar", "payer", "creator"}
    BY DEF Address, Creator
  <2> QED
    BY <1>2, <2>1 DEF Addresses
<1> QED
  BY <1>1, <1>3

ProgramsAdded(c) == \A p \in Range(Configured) : \E i \in DOMAIN c.rest : c.rest[i].key = p

LEMMA Possible ==
  ASSUME ProgramsApart, NEW c, NEW table, TableOf(c, table), Len(c.rest) \in Nat,
         DOMAIN c.rest = 1 .. Len(c.rest),
         NEW accounts, Arrived(c, table, accounts), 3 <= Len(accounts)
  PROVE  CpiPossible(accounts) <=>
           Len(Configured) <= Len(table) - 3 + Len(c.rest) /\ ProgramsAdded(c)
<1>1. /\ Sized(accounts) /\ Len(accounts) = Len(table) + Len(c.rest) /\ Len(table) \in Nat
      /\ \A i \in 1 .. Len(table) : i \in 1 .. Len(accounts)
      /\ \A i \in 1 .. Len(c.rest) : Len(table) + i \in 1 .. Len(accounts)
  <2>1. Sized(accounts) /\ Len(accounts) = Len(table) + Len(c.rest) /\ Len(table) \in Nat
    BY TableFacts DEF Arrived
  <2> QED
    BY <2>1, Places
<1>2. Len(InstructionAccounts(accounts)) = Len(table) - 3 + Len(c.rest)
  <2>1. Len(accounts) \in Int /\ 4 \in Int
    BY <1>1
  <2>2. Cut(InstructionAccounts(accounts), accounts, 4, Len(accounts))
    BY <2>1, CutOut DEF InstructionAccounts
  <2> QED
    BY <1>1, <2>2 DEF Cut
<1>3. (\A p \in Range(Configured) : \E i \in DOMAIN accounts : accounts[i].key = p)
        <=> ProgramsAdded(c)
  <2>1. ASSUME NEW p \in Range(Configured), NEW i \in DOMAIN accounts, accounts[i].key = p
        PROVE  \E k \in DOMAIN c.rest : c.rest[k].key = p
    <3>1. i \notin 1 .. Len(table)
      BY <2>1, FieldKeysKnown DEF ProgramsApart
    <3>2. i \in 1 .. Len(table) + Len(c.rest)
      BY <1>1, <2>1 DEF Sized
    <3>3. PICK k \in 1 .. Len(c.rest) : i = Len(table) + k
      BY <1>1, <3>1, <3>2, Beyond
    <3> QED
      BY <2>1, <3>3 DEF Arrived
  <2>2. ASSUME NEW k \in DOMAIN c.rest
        PROVE  \E i \in DOMAIN accounts : accounts[i].key = c.rest[k].key
    <3>1. k \in 1 .. Len(c.rest) /\ Len(table) + k \in DOMAIN accounts
      BY <1>1, <2>2 DEF Sized
    <3>2. accounts[Len(table) + k].key = c.rest[k].key
      BY <3>1 DEF Arrived
    <3> QED
      BY <3>1, <3>2
  <2> QED
    BY <2>1, <2>2 DEF ProgramsAdded
<1> QED
  BY <1>2, <1>3 DEF CpiPossible

Slots(c) == IF c.mode = "cpi" THEN Len(Configured) ELSE 0

Passes(c, table) ==
  /\ c.mode \in {"introspection", "cpi"} => Configured # << >>
  /\ c.mode = "cpi" =>
       Len(Configured) <= Len(table) - 3 + Len(c.rest) /\ ProgramsAdded(c)
  /\ c.mode = "creator" =>
       c.creatorPays /\ (c.layer = "builder" \/ "payer" \in NamesIn(table))

(* What is left for the handler, if the call passes. *)
Kept(c, accounts) ==
  IF c.mode = "cpi" THEN TargetAccounts(accounts) ELSE InstructionAccounts(accounts)

LEMMA VerifiedByPrograms ==
  ASSUME ProgramsApart, NEW c, c.mode \in {"introspection", "cpi"}, Len(c.rest) \in Nat,
         DOMAIN c.rest = 1 .. Len(c.rest), NEW table, TableOf(c, table),
         NEW accounts, Arrived(c, table, accounts), HeadSeen(c, table, accounts)
  PROVE  VerifyByPrograms(c, accounts) = IF Passes(c, table) THEN {Kept(c, accounts)} ELSE {}
<1>1. /\ Len(accounts) >= 3
      /\ accounts[2].key = "verification_config" /\ accounts[3].key = "instructions_sysvar"
  BY DEF HeadSeen
<1>2. CpiPossible(accounts) <=>
        Len(Configured) <= Len(table) - 3 + Len(c.rest) /\ ProgramsAdded(c)
  BY <1>1, Possible
<1>3. Passes(c, table) <=> Configured # << >> /\ (c.mode = "cpi" => CpiPossible(accounts))
  BY <1>2 DEF Passes
<1> QED
  BY <1>1, <1>3 DEF VerifyByPrograms, Kept

LEMMA VerifiedKept ==
  ASSUME ProgramsApart, NEW c, c.op \notin Unverified, Len(c.rest) \in Nat,
         DOMAIN c.rest = 1 .. Len(c.rest), NEW table, TableOf(c, table),
         NEW accounts, Arrived(c, table, accounts), HeadSeen(c, table, accounts)
  PROVE  Verified(c, accounts) = IF Passes(c, table) THEN {Kept(c, accounts)} ELSE {}
<1>1. CASE c.mode \in {"introspection", "cpi"}
  <2>1. Verified(c, accounts) = VerifyByPrograms(c, accounts)
    BY <1>1 DEF Verified, VerifyByStrategy, HeadSeen
  <2> QED
    BY <1>1, <2>1, VerifiedByPrograms
<1>2. CASE c.mode = "creator"
  <2>1. /\ c.op \notin ProgramsOnly /\ 3 <= Len(accounts)
        /\ accounts[2].key = "mint_authority" /\ accounts[3].key = Creator(c)
        /\ accounts[3].signer <=> Passes(c, table)
    BY <1>2 DEF HeadSeen, Passes
  <2>2. Verified(c, accounts) = VerifyByMintAuthority(c, accounts)
    BY <2>1 DEF Verified, VerifyByStrategy
  <2>3. Kept(c, accounts) = InstructionAccounts(accounts)
    BY <1>2 DEF Kept
  <2> QED
    BY <2>1, <2>2, <2>3 DEF VerifyByMintAuthority
<1> QED
  BY <1>1, <1>2 DEF HeadSeen

LEMMA KeptStretch ==
  ASSUME NEW c, c.op # "InitializeMint", Len(c.rest) \in Nat, NEW table, TableOf(c, table),
         NEW accounts, Arrived(c, table, accounts), HeadSeen(c, table, accounts),
         Passes(c, table)
  PROVE  /\ Stretch(c.op, Kept(c, accounts), accounts)
         /\ Len(Kept(c, accounts)) = Len(table) - 3 + Len(c.rest) - Slots(c)
<1>1. /\ Sized(accounts) /\ Len(accounts) = Len(table) + Len(c.rest) /\ Len(table) \in Nat
      /\ 3 <= Len(table) /\ 3 <= Len(accounts) /\ Len(accounts) \in Nat
  BY TableFacts DEF Arrived, HeadSeen
<1>2. Stretch(c.op, Kept(c, accounts), accounts)
  BY <1>1, InstructionStretch DEF Kept
<1> DEFINE own == InstructionAccounts(accounts)
           n == Len(accounts) - 3 - Len(Configured)
<1>3. Len(own) = Len(table) - 3 + Len(c.rest)
  <2>1. Cut(own, accounts, 4, Len(accounts))
    BY <1>1, CutOut DEF InstructionAccounts
  <2> QED
    BY <1>1, <2>1 DEF Cut
<1>4. CASE c.mode = "cpi"
  <2>1. Len(Configured) \in Nat
    BY CallsAssumption
  <2>2. n \in Int /\ n = Len(table) - 3 + Len(c.rest) - Len(Configured) /\ 0 <= n
    BY <1>1, <1>4, <2>1 DEF Passes
  <2>3. TargetAccounts(accounts) = SubSeq(own, 1, n)
    BY DEF TargetAccounts
  <2> HIDE DEF own, n
  <2>4. Cut(TargetAccounts(accounts), own, 1, n)
    BY <2>2, <2>3, CutOut
  <2>5. Len(TargetAccounts(accounts)) = n
    BY <2>2, <2>4 DEF Cut
  <2> QED
    BY <1>2, <1>4, <2>2, <2>5 DEF Kept, Slots
<1>5. CASE c.mode # "cpi"
  BY <1>1, <1>2, <1>3, <1>5 DEF Kept, Slots
<1> QED
  BY <1>4, <1>5

-----------------------------------------------------------------------------
(* The fields of a call against what its handler takes from them.           *)
Served(c, table, takes, off, more, external) ==
  /\ Sized(takes) /\ off \in {0, 3} /\ more \in {0, 3} /\ Len(table) = off + Len(takes) + more
  /\ \A i \in 1 .. Len(takes) :
       LET field == table[off + i]
       IN  /\ takes[i].writable => field.writable
           /\ takes[i].signer => field.signer
           /\ AddressOf(field.name) = AddressOf(takes[i].name)
           /\ field.name \notin Either
           /\ field.optional =>
                /\ field.name = takes[i].name
                /\ IF c.forTransfer
                     THEN field.name \in HookFields
                     ELSE /\ field.name \in {"escrow_token_account", "proof_account"}
                          /\ ~takes[i].signer /\ (takes[i].writable => i = 5 /\ ~external)
  /\ c.forTransfer =>
       \A name \in HookFields :
         \E i \in 1 .. Len(takes) : takes[i].name = name /\ table[off + i].optional

Surplus(c) == IF c.op \in WritesConfiguration /\ ~c.forTransfer THEN 3 ELSE 0

LEMMA SameLength ==
  ASSUME NEW n \in Nat, NEW m \in Nat, 1 .. n = 1 .. m
  PROVE  n = m
<1>1. ASSUME n < m PROVE FALSE
  <2>1. m \in 1 .. m /\ m \notin 1 .. n
    BY <1>1
  <2> QED
    BY <2>1
<1>2. ASSUME m < n PROVE FALSE
  <2>1. n \in 1 .. n /\ n \notin 1 .. m
    BY <1>2
  <2> QED
    BY <2>1
<1> QED
  BY <1>1, <1>2

(* The handlers of configurations take the accounts of the hook last.       *)
LEMMA HookTaken ==
  ASSUME NEW own \in {InitializeVerificationConfigTakes, UpdateVerificationConfigTakes,
                      TrimVerificationConfigTakes},
         NEW name \in HookFields
  PROVE  \E i \in 1 .. Len(own \o TransferHookTakes) : (own \o TransferHookTakes)[i].name = name
<1> USE DEF TransferHookTakes, Take, TakeWritable, TakeSigner
<1>1. CASE own = InitializeVerificationConfigTakes
  BY <1>1 DEF InitializeVerificationConfigTakes, HookFields
<1>2. CASE own = UpdateVerificationConfigTakes
  BY <1>2 DEF UpdateVerificationConfigTakes, HookFields
<1>3. CASE own = TrimVerificationConfigTakes
  BY <1>3 DEF TrimVerificationConfigTakes, HookFields
<1> QED
  BY <1>1, <1>2, <1>3

LEMMA HandlerServed ==
  ASSUME NEW c, IsCall(c), c.op # "Verify", NEW table, TableOf(c, table), NEW accounts
  PROVE  Served(c, table, Takes(c, accounts), Offset(c.op), Surplus(c),
                IsExternalSettlement(accounts))
<1> DEFINE takes == Takes(c, accounts)
           off == Offset(c.op)
           opt == OptionalNames(c.op)
           external == IsExternalSettlement(accounts)
           own == HandlerTakes(c.op, accounts)
<1>1. c.op \in Ops \ {"Verify"} /\ c.forTransfer \in BOOLEAN
      /\ (c.forTransfer => c.op \in WritesConfiguration)
  BY CallParts
<1>2. /\ c.forTransfer => takes = own \o TransferHookTakes
      /\ ~c.forTransfer => takes = own \o << >>
  BY DEF Takes
<1>3. /\ Fits(table, NamesOf(own \o << >>), off, opt)
      /\ c.op \in WritesConfiguration => Fits(table, NamesOf(own \o TransferHookTakes), off, opt)
  BY <1>1, HandlerFits DEF TableOf
<1>4. /\ c.op \in WritesConfiguration =>
           /\ off = 3
           /\ Grants(table, own \o << >>, 3, 3) /\ Insistent(table, own \o << >>)
           /\ Grants(table, own \o TransferHookTakes, 3, 0)
      /\ c.op \notin WritesConfiguration =>
           Grants(table, own \o << >>, off, 0) /\ Lenient(table, own \o << >>, off, external)
  <2>1. c.op \in WritesConfiguration => off = 3
    BY DEF WritesConfiguration, Offset
  <2> QED
    BY <1>1, <2>1, Granted DEF TableOf
<1> HIDE DEF own, external
<1>5. /\ Fits(table, NamesOf(takes), off, opt)
      /\ Grants(table, takes, off, Surplus(c))
      /\ c.op \in WritesConfiguration /\ ~c.forTransfer => Insistent(table, takes)
      /\ c.op \notin WritesConfiguration => Lenient(table, takes, off, external)
  BY <1>1, <1>2, <1>3, <1>4 DEF Surplus
<1> HIDE DEF takes
<1>6. /\ Sized(takes) /\ Len(table) = off + Len(takes) + Surplus(c)
      /\ off \in {0, 3} /\ Surplus(c) \in {0, 3}
      /\ Len(NamesOf(takes)) = Len(takes)
      /\ \A i \in 1 .. Len(takes) : NamesOf(takes)[i] = takes[i].name
  <2>1. Sized(takes) /\ Sized(NamesOf(takes)) /\ DOMAIN NamesOf(takes) = DOMAIN takes
    BY <1>5 DEF Grants, Fits, NamesOf
  <2>2. Len(NamesOf(takes)) = Len(takes)
    <3>1. /\ Len(takes) \in Nat /\ Len(NamesOf(takes)) \in Nat
          /\ 1 .. Len(takes) = 1 .. Len(NamesOf(takes))
      BY <2>1 DEF Sized
    <3> QED
      BY <3>1, SameLength
  <2> QED
    BY <1>5, <2>1, <2>2 DEF Grants, Offset, Surplus, NamesOf, Sized
<1>7. ASSUME NEW i \in 1 .. Len(takes)
      PROVE  LET field == table[off + i]
             IN  /\ takes[i].writable => field.writable
                 /\ takes[i].signer => field.signer
                 /\ AddressOf(field.name) = AddressOf(takes[i].name)
                 /\ field.name \notin Either
                 /\ field.optional <=> field.name \in opt
                 /\ field.optional => field.name = takes[i].name
                 /\ takes[i].name \in opt => field.optional
  <2>1. off + i \in 1 .. Len(table)
    BY <1>6 DEF Sized
  <2> QED
    BY <1>5, <1>6, <2>1 DEF Fits, Grants
<1>8. ASSUME NEW i \in 1 .. Len(takes), table[off + i].optional
      PROVE  IF c.forTransfer
               THEN table[off + i].name \in HookFields
               ELSE /\ table[off + i].name \in {"escrow_token_account", "proof_account"}
                    /\ ~takes[i].signer /\ (takes[i].writable => i = 5 /\ ~external)
  <2>1. table[off + i].name \in opt
    BY <1>7, <1>8
  <2>2. CASE c.forTransfer
    <3>1. opt = HookFields
      BY <1>1, <2>2 DEF OptionalNames, WritesConfiguration
    <3> QED
      BY <2>1, <2>2, <3>1
  <2>3. CASE ~c.forTransfer
    <3>1. c.op \notin WritesConfiguration
      BY <1>4, <1>5, <1>8, <2>3 DEF Insistent
    <3>2. table[off + i].name \in {"escrow_token_account", "proof_account"}
      BY <2>1, <3>1 DEF OptionalNames
    <3> QED
      BY <1>5, <1>8, <2>3, <3>1, <3>2 DEF Lenient
  <2> QED
    BY <2>2, <2>3
<1>9. ASSUME c.forTransfer, NEW name \in HookFields
      PROVE  \E i \in 1 .. Len(takes) : takes[i].name = name /\ table[off + i].optional
  <2>1. opt = HookFields
    BY <1>1, <1>9 DEF OptionalNames, WritesConfiguration
  <2>2. \E i \in 1 .. Len(takes) : takes[i].name = name
    <3>1. takes = own \o TransferHookTakes
      BY <1>2, <1>9 DEF takes
    <3>2. own \in {InitializeVerificationConfigTakes, UpdateVerificationConfigTakes,
                   TrimVerificationConfigTakes}
      BY <1>1, <1>9 DEF own, HandlerTakes, WritesConfiguration
    <3> QED
      BY <3>1, <3>2, HookTaken
  <2> QED
    BY <1>7, <2>1, <2>2
<1> QED
  BY <1>6, <1>7, <1>8, <1>9 DEF Served, takes, external

(* A position of the handler: what stands there is what the handler wants,  *)
(* unless an account of the hook was left out that has to be there.         *)
FitsAt(take, account) ==
  /\ take.writable => account.writable
  /\ take.signer => account.signer
  /\ AddressChecked(take.name, account.key)

LEMMA HookAddresses ==
  ASSUME NEW c, c.op \in WritesConfiguration, TableOf(c, ClientTable[c.op]),
         NEW name \in HookFields
  PROVE  ~AddressChecked(name, SecurityToken)
<1>1. AddressOf(name) = name
  BY DEF HookFields, AddressOf
<1>2. name \in NamesIn(ClientTable["InitializeVerificationConfig"])
  BY DEF ClientTable, InitializeVerificationConfigAccounts, EitherOverhead, NamesIn, HookFields,
         Field, Readonly, Writable, WritableSigner, OptionalReadonly, OptionalWritable
<1>3. "InitializeVerificationConfig" \in DOMAIN ClientTable
  BY DEF ClientTable
<1>4. name \in Addresses
  BY <1>1, <1>2, <1>3 DEF Addresses
<1>5. name # SecurityToken
  BY <1>4, CallsAssumption
<1> QED
  BY <1>1, <1>5 DEF AddressChecked, AnyAddress, HookFields

LEMMA PlaceFits ==
  ASSUME NEW c, IsCall(c), c.op # "Verify", NEW table, TableOf(c, table),
         NEW accounts, Arrived(c, table, accounts), NEW kept, Stretch(c.op, kept, accounts),
         NEW takes,
         Served(c, table, takes, Offset(c.op), Surplus(c), IsExternalSettlement(kept)),
         Len(takes) <= Len(kept), NEW i \in 1 .. Len(takes)
  PROVE  FitsAt(takes[i], kept[i]) <=>
           ~(c.forTransfer /\ LeftOut(c, table[Offset(c.op) + i]))
<1> DEFINE off == Offset(c.op)
           field == table[off + i]
           external == IsExternalSettlement(kept)
<1>1. /\ off + i \in 1 .. Len(table) /\ i \in 1 .. Len(kept) /\ kept[i] = accounts[off + i]
      /\ Len(kept) \in Nat /\ Len(takes) \in Nat
  BY DEF Served, Stretch, Sized
<1>2. /\ takes[i].writable => field.writable
      /\ takes[i].signer => field.signer
      /\ AddressOf(field.name) = AddressOf(takes[i].name)
      /\ field.name \notin Either
      /\ field.optional =>
           /\ field.name = takes[i].name
           /\ IF c.forTransfer
                THEN field.name \in HookFields
                ELSE /\ field.name \in {"escrow_token_account", "proof_account"}
                     /\ ~takes[i].signer /\ (takes[i].writable => i = 5 /\ ~external)
  BY DEF Served
<1>3. /\ kept[i].key = KeyFor(c, field)
      /\ ~LeftOut(c, field) =>
           /\ field.writable => kept[i].writable
           /\ field.signer => kept[i].signer
  BY <1>1 DEF Arrived
<1> HIDE DEF field, external, off
<1>4. ASSUME ~LeftOut(c, field) PROVE FitsAt(takes[i], kept[i])
  <2>1. kept[i].key = Address(c, field.name)
    BY <1>3, <1>4 DEF KeyFor
  <2>2. Address(c, field.name) = AddressOf(field.name)
    BY <1>2 DEF Address, Either
  <2>3. AddressChecked(takes[i].name, kept[i].key)
    BY <1>2, <2>1, <2>2 DEF AddressChecked
  <2> QED
    BY <1>2, <1>3, <1>4, <2>3 DEF FitsAt
<1>5. ASSUME LeftOut(c, field), c.forTransfer PROVE ~FitsAt(takes[i], kept[i])
  <2>1. c.op \in WritesConfiguration /\ TableOf(c, ClientTable[c.op])
    BY <1>5, CallParts DEF TableOf
  <2>2. takes[i].name \in HookFields /\ kept[i].key = SecurityToken
    BY <1>2, <1>3, <1>5 DEF KeyFor, LeftOut
  <2> QED
    BY <2>1, <2>2, HookAddresses DEF FitsAt
<1>6. ASSUME LeftOut(c, field), ~c.forTransfer PROVE FitsAt(takes[i], kept[i])
  <2>1. kept[i].key = SecurityToken
    BY <1>3, <1>6 DEF KeyFor
  <2>2. /\ takes[i].name \in {"escrow_token_account", "proof_account"}
        /\ ~takes[i].signer /\ (takes[i].writable => i = 5 /\ ~external)
    BY <1>2, <1>6 DEF LeftOut
  <2>3. ~takes[i].writable
    <3>1. SUFFICES ASSUME i = 5 PROVE external
      BY <2>2
    <3>2. 5 <= Len(kept) /\ kept[5].key = SecurityToken
      BY <1>1, <2>1, <3>1
    <3> QED
      BY <1>1, <3>2 DEF external, IsExternalSettlement
  <2> QED
    BY <2>1, <2>2, <2>3 DEF FitsAt, AddressChecked
<1> QED
  BY <1>4, <1>5, <1>6 DEF field, off

LEMMA KeptFits ==
  ASSUME NEW c, IsCall(c), c.op # "Verify", NEW table, TableOf(c, table),
         NEW accounts, Arrived(c, table, accounts), NEW kept, Stretch(c.op, kept, accounts),
         NEW takes,
         Served(c, table, takes, Offset(c.op), Surplus(c), IsExternalSettlement(kept)),
         Len(takes) <= Len(kept)
  PROVE  FitsHandler(takes, kept) <=> (c.forTransfer => c.omitted \cap HookFields = {})
<1> DEFINE off == Offset(c.op)
           external == IsExternalSettlement(kept)
<1>1. DOMAIN takes = 1 .. Len(takes)
  BY DEF Served, Sized
<1>2. FitsHandler(takes, kept) <=> \A i \in 1 .. Len(takes) : FitsAt(takes[i], kept[i])
  BY <1>1 DEF FitsHandler, FitsAt
<1>3. \A i \in 1 .. Len(takes) :
        FitsAt(takes[i], kept[i]) <=> ~(c.forTransfer /\ LeftOut(c, table[off + i]))
  BY PlaceFits
<1>4. ASSUME c.forTransfer
      PROVE  (\E i \in 1 .. Len(takes) : LeftOut(c, table[off + i]))
               <=> c.omitted \cap HookFields # {}
  <2>1. ASSUME NEW i \in 1 .. Len(takes), LeftOut(c, table[off + i])
        PROVE  c.omitted \cap HookFields # {}
    <3>1. table[off + i].name \in c.omitted /\ table[off + i].optional
      BY <2>1 DEF LeftOut
    <3>2. table[off + i].name \in HookFields
      BY <1>4, <3>1 DEF Served
    <3> QED
      BY <3>1, <3>2
  <2>2. ASSUME NEW name \in c.omitted \cap HookFields
        PROVE  \E i \in 1 .. Len(takes) : LeftOut(c, table[off + i])
    <3>1. PICK i \in 1 .. Len(takes) : takes[i].name = name /\ table[off + i].optional
      BY <1>4, <2>2 DEF Served
    <3>2. table[off + i].name = name
      BY <3>1 DEF Served
    <3> QED
      BY <2>2, <3>1, <3>2 DEF LeftOut
  <2> QED
    BY <2>1, <2>2
<1> QED
  BY <1>2, <1>3, <1>4

(* As many accounts as verification strips, and, where the handler takes    *)
(* whatever follows, the fields of the hook in their stead.                 *)
Room(c) ==
  CASE c.op = "Verify" -> Len(c.rest) >= Slots(c)
    [] c.op \in WritesConfiguration /\ ~c.forTransfer ->
         Len(c.rest) + Len(TransferHookTakes) >= Slots(c)
    [] OTHER -> Len(c.rest) = Slots(c)

Demanded(c, table) ==
  /\ c.mode \in {"introspection", "cpi"} => Configured # << >>
  /\ c.mode = "cpi" => ProgramsAdded(c)
  /\ Room(c)
  /\ c.forTransfer => c.omitted \cap HookFields = {}
  /\ c.mode = "creator" =>
       c.creatorPays /\ (c.layer = "builder" \/ "payer" \in NamesIn(table))

LEMMA CompleteMeans ==
  ASSUME NEW c
  PROVE  Complete(c) <=> AllSet(c) /\ Demanded(c, ClientTable[c.op])
BY DEF Complete, AllSet, Demanded, Defaults, Room, Slots, ProgramsAdded

LEMMA RoomMeans ==
  ASSUME NEW c, Len(c.rest) \in Nat
  PROVE  /\ Slots(c) \in Nat
         /\ c.op = "Verify" => (Room(c) <=> Len(c.rest) >= Slots(c))
         /\ c.op # "Verify" =>
              (Room(c) <=> IF Surplus(c) = 3 THEN Len(c.rest) + 3 >= Slots(c)
                                             ELSE Len(c.rest) = Slots(c))
         /\ c.op # "Verify" => (Surplus(c) = 3 <=> c.op \in WritesConfiguration /\ ~c.forTransfer)
         /\ Surplus(c) \in {0, 3}
<1>1. Len(TransferHookTakes) = 3
  BY DEF TransferHookTakes
<1>2. Slots(c) \in Nat
  BY CallsAssumption DEF Slots
<1>3. "Verify" \notin WritesConfiguration
  BY DEF WritesConfiguration
<1> QED
  BY <1>1, <1>2, <1>3 DEF Room, Surplus

LEMMA HandlerDecides ==
  ASSUME NEW c, IsCall(c), c.op # "Verify", Len(c.rest) \in Nat,
         NEW table, TableOf(c, table),
         NEW accounts, Arrived(c, table, accounts), NEW kept, Stretch(c.op, kept, accounts),
         Len(kept) = Len(table) - Offset(c.op) + Len(c.rest) - Slots(c)
  PROVE  HandlerAccepts(c, kept) <=>
           Room(c) /\ (c.forTransfer => c.omitted \cap HookFields = {})
<1> DEFINE takes == Takes(c, kept)
           Long == IF c.op \in WritesConfiguration /\ ~c.forTransfer
                     THEN Len(kept) >= Len(takes) ELSE Len(kept) = Len(takes)
<1>1. HandlerAccepts(c, kept) <=> Long /\ FitsHandler(takes, kept)
  BY DEF HandlerAccepts
<1>2. Served(c, table, takes, Offset(c.op), Surplus(c), IsExternalSettlement(kept))
  BY HandlerServed
<1> HIDE DEF takes
<1>3. /\ Len(table) = Offset(c.op) + Len(takes) + Surplus(c)
      /\ Len(takes) \in Nat /\ Offset(c.op) \in Nat /\ Len(kept) \in Nat
  BY <1>2 DEF Served, Sized, Stretch, Offset
<1>4. /\ Long <=> Room(c)
      /\ Long => Len(takes) <= Len(kept)
  <2>1. /\ Slots(c) \in Nat /\ Surplus(c) \in {0, 3}
        /\ Surplus(c) = 3 <=> c.op \in WritesConfiguration /\ ~c.forTransfer
        /\ Room(c) <=> IF Surplus(c) = 3 THEN Len(c.rest) + 3 >= Slots(c)
                                         ELSE Len(c.rest) = Slots(c)
    BY RoomMeans
  <2>2. Len(kept) = Len(takes) + Surplus(c) + Len(c.rest) - Slots(c)
    BY <1>3, <2>1
  <2> QED
    BY <1>3, <2>1, <2>2
<1>5. Long => (FitsHandler(takes, kept) <=> (c.forTransfer => c.omitted \cap HookFields = {}))
  BY <1>2, <1>4, KeptFits
<1> QED
  BY <1>1, <1>4, <1>5

LEMMA ProcessDecides ==
  ASSUME ProgramsApart, NEW c, IsCall(c),
         Len(c.rest) \in Nat, DOMAIN c.rest = 1 .. Len(c.rest),
         NEW table, TableOf(c, table), NEW accounts, Arrived(c, table, accounts)
  PROVE  Process(c, accounts) # {} <=> Demanded(c, table)
<1>1. IsCall(c) /\ c.op \in Ops /\ c.mode \in Modes(c.op)
      /\ (c.forTransfer => c.op \in WritesConfiguration)
  BY CallParts
<1>2. Len(table) \in Nat /\ Slots(c) \in Nat /\ Len(Configured) \in Nat
  BY TableFacts, RoomMeans, CallsAssumption
<1>3. CASE c.op = "InitializeMint"
  <2>1. c.mode = "none" /\ Slots(c) = 0 /\ Offset(c.op) = 0
    BY <1>1, <1>3 DEF Modes, ProgramsOnly, Slots, Offset
  <2>2. /\ Sized(accounts) /\ Len(accounts) = Len(table) + Len(c.rest)
        /\ Stretch(c.op, accounts, accounts)
    <3>1. Sized(accounts) /\ Len(accounts) = Len(table) + Len(c.rest)
      BY DEF Arrived
    <3>2. Len(accounts) \in Nat /\ \A i \in 1 .. Len(accounts) : 0 + i = i
      BY <3>1 DEF Sized
    <3> QED
      BY <2>1, <3>1, <3>2 DEF Stretch
  <2>3. Verified(c, accounts) = {accounts}
    BY <1>3 DEF Verified, Unverified, ProgramsOnly
  <2>4. Process(c, accounts) # {} <=> HandlerAccepts(c, accounts)
    BY <1>3, <2>3 DEF Process
  <2>5. Len(accounts) = Len(table) - Offset(c.op) + Len(c.rest) - Slots(c)
    BY <1>2, <2>1, <2>2
  <2>6. HandlerAccepts(c, accounts) <=>
          Room(c) /\ (c.forTransfer => c.omitted \cap HookFields = {})
    BY <1>1, <1>3, <2>2, <2>5, HandlerDecides
  <2> QED
    BY <2>1, <2>4, <2>6 DEF Demanded
<1>4. CASE c.op = "Verify"
  <2>1. HeadSeen(c, table, accounts)
    BY <1>4, HeadArrives
  <2>2. c.mode \in {"introspection", "cpi"} /\ ~c.forTransfer /\ Len(table) = 3
    <3>1. table = VerifyAccounts
      BY <1>4 DEF TableOf, ClientTable
    <3>2. Len(table) = 3
      BY <3>1, VerifyTable
    <3>3. "Verify" \notin WritesConfiguration
      BY DEF WritesConfiguration
    <3> QED
      BY <1>1, <1>4, <3>2, <3>3 DEF Modes
  <2>3. Verified(c, accounts) = {accounts}
    BY <1>4 DEF Verified, Unverified, ProgramsOnly
  <2>4. Process(c, accounts) # {} <=> VerifyByPrograms(c, accounts) # {}
    BY <1>4, <2>3 DEF Process, VerifyInstruction
  <2>5. VerifyByPrograms(c, accounts) # {} <=> Passes(c, table)
    <3>1. VerifyByPrograms(c, accounts) = IF Passes(c, table) THEN {Kept(c, accounts)} ELSE {}
      BY <2>1, <2>2, VerifiedByPrograms
    <3> QED
      BY <3>1
  <2>6. Room(c) <=> Len(c.rest) >= Slots(c)
    BY <1>4, RoomMeans
  <2>7. Room(c) <=> (c.mode = "cpi" => Len(Configured) <= Len(table) - 3 + Len(c.rest))
    BY <1>2, <2>2, <2>6 DEF Slots
  <2> QED
    BY <2>2, <2>4, <2>5, <2>7 DEF Passes, Demanded
<1>5. CASE c.op \notin Unverified
  <2>1. c.op # "InitializeMint" /\ c.op # "Verify" /\ Offset(c.op) = 3
    BY <1>5 DEF Unverified, Offset
  <2>2. HeadSeen(c, table, accounts)
    BY <2>1, HeadArrives
  <2>3. Verified(c, accounts) = IF Passes(c, table) THEN {Kept(c, accounts)} ELSE {}
    BY <1>5, <2>2, VerifiedKept
  <2>4. Process(c, accounts) # {} <=>
          Passes(c, table) /\ HandlerAccepts(c, Kept(c, accounts))
    BY <2>1, <2>3 DEF Process
  <2>5. Passes(c, table) =>
          (HandlerAccepts(c, Kept(c, accounts)) <=>
             Room(c) /\ (c.forTransfer => c.omitted \cap HookFields = {}))
    BY <1>1, <2>1, <2>2, KeptStretch, HandlerDecides
  <2>6. Room(c) /\ c.mode = "cpi" => Len(Configured) <= Len(table) - 3 + Len(c.rest)
    <3>1. 3 <= Len(table)
      BY <2>2 DEF HeadSeen
    <3>2. Surplus(c) = 3 => 6 <= Len(table)
      <4>1. Served(c, table, Takes(c, accounts), Offset(c.op), Surplus(c),
                   IsExternalSettlement(accounts))
        BY <1>1, <2>1, HandlerServed
      <4> HIDE DEF Surplus
      <4>2. Len(Takes(c, accounts)) \in Nat
            /\ Len(table) = Offset(c.op) + Len(Takes(c, accounts)) + Surplus(c)
        BY <4>1 DEF Served, Sized
      <4> QED
        BY <2>1, <4>2
    <3>3. Room(c) <=> IF Surplus(c) = 3 THEN Len(c.rest) + 3 >= Slots(c)
                                        ELSE Len(c.rest) = Slots(c)
      BY <2>1, RoomMeans
    <3>4. c.mode = "cpi" => Slots(c) = Len(Configured)
      BY DEF Slots
    <3> QED
      BY <1>2, <3>1, <3>2, <3>3, <3>4
  <2> QED
    BY <2>4, <2>5, <2>6 DEF Passes, Demanded
<1> QED
  BY <1>3, <1>4, <1>5 DEF Unverified

(* What the program makes of a call, whoever sends it. *)
LEMMA AcceptedIfComplete ==
  ASSUME PlainRemaining, ProgramsApart, NEW c, IsCall(c)
  PROVE  (IF Delivered(c) = << >> THEN {} ELSE Process(c, Delivered(c))) # {} <=> Complete(c)
<1> DEFINE table == ClientTable[c.op]
           delivered == Delivered(c)
<1>1. IsCall(c) /\ TableOf(c, table) /\ Len(c.rest) \in Nat /\ DOMAIN c.rest = 1 .. Len(c.rest)
  BY CallParts DEF TableOf
<1>2. Complete(c) <=> AllSet(c) /\ Demanded(c, table)
  BY CompleteMeans
<1>3. IF AllSet(c) THEN delivered # << >> /\ Arrived(c, table, delivered) ELSE delivered = << >>
  BY <1>1, DeliveredArrives
<1> HIDE DEF table, delivered
<1>4. CASE AllSet(c)
  <2>1. Process(c, delivered) # {} <=> Demanded(c, table)
    BY <1>1, <1>3, <1>4, ProcessDecides
  <2> QED
    BY <1>2, <1>3, <1>4, <2>1 DEF delivered
<1>5. CASE ~AllSet(c)
  BY <1>2, <1>3, <1>5 DEF delivered
<1> QED
  BY <1>4, <1>5

LEMMA SentStep ==
  ASSUME PlainRemaining, ProgramsApart, CallInv, AcceptedExactlyWhenComplete, [NextCall]_call
  PROVE  AcceptedExactlyWhenComplete'
<1>1. IsCall(call)
  BY DEF CallInv
<1>2. CASE Send
  <2> DEFINE delivered == Delivered(call)
             results == IF delivered = << >> THEN {} ELSE Process(call, delivered)
             accounts == IF results = {} THEN << >> ELSE CHOOSE a \in results : TRUE
             new == Sent(call)
             accepted == results # {}
  <2>1. call' = [call EXCEPT !.stage = "sent", !.sent = new, !.accepted = accepted,
                             !.accounts = accounts]
        /\ accepted \in BOOLEAN
    BY <1>2 DEF Send
  <2>2. accepted <=> Complete(call)
    BY <1>1, AcceptedIfComplete
  <2> HIDE DEF accepted, new, accounts
  <2>3. /\ call'.accepted = accepted /\ call'.op = call.op /\ call'.mode = call.mode
        /\ call'.layer = call.layer /\ call'.omitted = call.omitted /\ call'.rest = call.rest
        /\ call'.forTransfer = call.forTransfer /\ call'.creatorPays = call.creatorPays
    BY <1>1, <2>1 DEF IsCall, CallOf
  <2>4. Complete(call') <=> Complete(call)
    BY <2>3 DEF Complete
  <2>5. AcceptedExactlyWhenComplete'
    BY <2>2, <2>3, <2>4 DEF AcceptedExactlyWhenComplete
  <2> QED
    BY <2>5
<1>3. CASE \/ \E op \in Ops : \E name \in NamesIn(ClientTable[op]) : Omit(name)
           \/ \E account \in Addable : AddRemainingAccount(account)
  <2>1. call.stage = "draft"
    BY <1>3 DEF Omit, AddRemainingAccount
  <2>2. call'.stage = "draft"
    BY <1>1, <1>3, <2>1, DraftStep
  <2> QED
    BY <2>2 DEF AcceptedExactlyWhenComplete
<1>4. CASE UNCHANGED call
  BY <1>4 DEF AcceptedExactlyWhenComplete
<1> QED
  BY <1>2, <1>3, <1>4 DEF NextCall

(* For any number of remaining accounts, and any list of verification        *)
(* programs, repeated ones included: a call goes through exactly when it is  *)
(* complete.  No client type, builder or CPI struct drops, moves or          *)
(* under-privileges an account that a handler insists on, and nothing that   *)
(* is asked of the caller could be spared (the generated client, what        *)
(* Processor::verify strips, the slice patterns and verify_writable and      *)
(* verify_signer of the handlers).  Remaining accounts ask for no            *)
(* privileges, as verification programs do not; with the flags that the CPI  *)
(* client exchanges see RemainingAsGiven.                                    *)
THEOREM AcceptedAlwaysExactly ==
  ASSUME PlainRemaining, ProgramsApart
  PROVE  CallSpec => []AcceptedExactlyWhenComplete
<1> DEFINE Inv == CallInv /\ AcceptedExactlyWhenComplete
<1>1. InitCall => Inv
  <2>1. InitCall => call.stage = "draft"
    BY DEF InitCall, Draft
  <2> QED
    BY <2>1, CallInit DEF AcceptedExactlyWhenComplete
<1>2. Inv /\ [NextCall]_call => Inv'
  BY CallStep, SentStep
<1> QED
  BY <1>1, <1>2, PTL DEF CallSpec

-----------------------------------------------------------------------------
(***************************************************************************)
(* Options hold plain fields, and descriptions fields of any kind: what is *)
(* said of reading and writing fields in turn is said of both, the deep    *)
(* ones being those that may have options among them.                      *)
(***************************************************************************)
ReadAt(deep, kind, data) == IF deep THEN ReadKind(kind, data) ELSE ReadPlain(kind, data)

FieldsAt(deep, fields, data) ==
  IF deep THEN ReadFields(fields, data) ELSE FieldsInTurn(ReadPlain, fields, data)

(* One field more after each of before *)
OneMore(deep, fields, n, befores) ==
  UNION {{Result(With(before.value, fields[n][1], next.value), next.rest) :
            next \in ReadAt(deep, fields[n][2], before.rest)} : before \in befores}

TurnsEquation(up, deep, fields, data) ==
  up = [n \in 0..Len(fields) |->
          IF n = 0 THEN {Result(<< >>, data)} ELSE OneMore(deep, fields, n, up[n - 1])]

LEMMA TurnsSolvable ==
  ASSUME NEW deep \in BOOLEAN, NEW fields, Len(fields) \in Nat, NEW data
  PROVE  \E up : TurnsEquation(up, deep, fields, data)
<1> DEFINE Next(g, i) ==
             IF i = 0 THEN {Result(<< >>, data)} ELSE OneMore(deep, fields, i, g[i - 1])
           Upto == {n \in Nat : \E g : \A i \in 0 .. n : g[i] = Next(g, i)}
<1>1. 0 \in Upto
  <2> DEFINE g == [j \in 0 .. 0 |-> {Result(<< >>, data)}]
  <2>1. \A i \in 0 .. 0 : g[i] = Next(g, i)
    OBVIOUS
  <2> QED
    BY <2>1
<1>2. ASSUME NEW n \in Nat, n \in Upto
      PROVE  n + 1 \in Upto
  <2>1. PICK g : \A i \in 0 .. n : g[i] = Next(g, i)
    BY <1>2
  <2> DEFINE h == [i \in 0 .. n + 1 |-> IF i <= n THEN g[i] ELSE Next(g, i)]
  <2>2. ASSUME NEW i \in 0 .. n + 1
        PROVE  h[i] = Next(h, i)
    <3>1. h[i] = Next(g, i)
      <4> HIDE DEF Next
      <4> QED
        BY <2>1
    <3>2. CASE i = 0
      BY <3>1, <3>2
    <3>3. CASE i # 0
      <4>1. i - 1 \in 0 .. n + 1 /\ i - 1 <= n
        BY <3>3
      <4>2. h[i - 1] = g[i - 1]
        BY <4>1
      <4> HIDE DEF h
      <4> QED
        BY <3>1, <3>3, <4>2
    <3> QED
      BY <3>2, <3>3
  <2> HIDE DEF h, Next
  <2> QED
    BY <2>2
<1>3. Len(fields) \in Upto
  <2> HIDE DEF Upto
  <2> QED
    BY <1>1, <1>2, NatSetInduction
<1>4. PICK g : \A i \in 0 .. Len(fields) : g[i] = Next(g, i)
  BY <1>3
<1> DEFINE up == [i \in 0 .. Len(fields) |-> g[i]]
<1>5. up = [i \in 0 .. Len(fields) |-> Next(up, i)]
  <2>1. ASSUME NEW i \in 0 .. Len(fields)
        PROVE  Next(g, i) = Next(up, i)
    <3>1. CASE i = 0
      BY <3>1
    <3>2. CASE i # 0
      <4>1. i - 1 \in 0 .. Len(fields)
        BY <3>2
      <4>2. up[i - 1] = g[i - 1]
        BY <4>1
      <4> HIDE DEF up
      <4> QED
        BY <3>2, <4>2
    <3> QED
      BY <3>1, <3>2
  <2>2. \A i \in 0 .. Len(fields) : g[i] = Next(up, i)
    <3> HIDE DEF up, Next
    <3> QED
      BY <1>4, <2>1
  <2> HIDE DEF Next
  <2> QED
    BY <2>2
<1> HIDE DEF up
<1> QED
  BY <1>5 DEF TurnsEquation

(* What reading fields returns after each of them *)
UpTo(up, deep, fields, data) ==
  /\ up[0] = {Result(<< >>, data)}
  /\ \A n \in 1..Len(fields) : up[n] = OneMore(deep, fields, n, up[n - 1])

LEMMA TurnsSteps ==
  ASSUME NEW deep \in BOOLEAN, NEW fields, Len(fields) \in Nat, NEW data
  PROVE  \E up : /\ UpTo(up, deep, fields, data)
                 /\ FieldsAt(deep, fields, data) = up[Len(fields)]
<1> DEFINE body(up) == [n \in 0..Len(fields) |->
          IF n = 0 THEN {Result(<< >>, data)} ELSE OneMore(deep, fields, n, up[n - 1])]
           upTo == CHOOSE up : TurnsEquation(up, deep, fields, data)
<1>1. PICK g : TurnsEquation(g, deep, fields, data)
  BY TurnsSolvable
<1>2. TurnsEquation(upTo, deep, fields, data)
  BY <1>1
<1>3. FieldsAt(deep, fields, data) = upTo[Len(fields)]
  <2>1. CASE deep
    BY <2>1 DEF FieldsAt, ReadFields, FieldsInTurn, TurnsEquation, OneMore, ReadAt
  <2>2. CASE ~deep
    BY <2>2 DEF FieldsAt, FieldsInTurn, TurnsEquation, OneMore, ReadAt
  <2> QED
    BY <2>1, <2>2
<1> HIDE DEF upTo
<1>4. upTo = body(upTo)
  BY <1>2 DEF TurnsEquation
<1>5. /\ body(upTo)[0] = {Result(<< >>, data)}
      /\ \A n \in 1..Len(fields) : body(upTo)[n] = OneMore(deep, fields, n, upTo[n - 1])
  OBVIOUS
<1> HIDE DEF body
<1>6. UpTo(upTo, deep, fields, data)
  BY <1>4, <1>5 DEF UpTo
<1> QED
  BY <1>3, <1>6

-----------------------------------------------------------------------------
(* A description that accepts no less, apart from the flag that stands for a *)
(* boolean.                                                                  *)
Accepts(l, k) ==
  \/ /\ k.is = "cell" /\ l.is = "cell"
     /\ k.allowed \subseteq l.allowed /\ l.allowed \subseteq Cells
  \/ /\ k.is = "list" /\ l.is = "list"
     /\ k.lengths \subseteq l.lengths /\ l.lengths \subseteq Cells
     /\ k.allowed \subseteq l.allowed /\ l.allowed \subseteq Cells
  \/ k.is = "flag" /\ l.is = "cell" /\ l.allowed = {0, 1}

(* Fields are a list, whatever they are.                                     *)
AreFields(f) == Len(f) \in Nat /\ DOMAIN f = 1..Len(f)
ApartIn(f) == \A i, j \in 1..Len(f) : f[i][1] = f[j][1] => i = j

AcceptsAll(g, f) ==
  /\ AreFields(f) /\ AreFields(g) /\ Len(g) = Len(f) /\ ApartIn(f)
  /\ \A n \in 1..Len(f) : f[n][1] = g[n][1] /\ Accepts(g[n][2], f[n][2])

AcceptsKind(l, k) ==
  \/ Accepts(l, k)
  \/ k.is = "option" /\ l.is = "option" /\ l.strict /\ AcceptsAll(l.fields, k.fields)

AcceptsFields(g, f) ==
  /\ AreFields(f) /\ AreFields(g) /\ Len(g) = Len(f) /\ ApartIn(f)
  /\ \A n \in 1..Len(f) : f[n][1] = g[n][1] /\ AcceptsKind(g[n][2], f[n][2])

-----------------------------------------------------------------------------
(* If no two descriptions of a field read different things, then neither do  *)
(* the descriptions of a list of fields.                                     *)
NoTwoMeanings(deep, k, l) ==
  \A data : \A r \in ReadAt(deep, k, data), q \in ReadAt(deep, l, data) : r = q

LEMMA FieldsMeanOne ==
  ASSUME NEW deep \in BOOLEAN, NEW f, NEW g, Len(f) \in Nat, Len(g) = Len(f),
         \A n \in 1..Len(f) : f[n][1] = g[n][1] /\ NoTwoMeanings(deep, f[n][2], g[n][2]),
         NEW data, NEW r \in FieldsAt(deep, f, data), NEW q \in FieldsAt(deep, g, data)
  PROVE  r = q
<1>1. PICK upF : UpTo(upF, deep, f, data) /\ FieldsAt(deep, f, data) = upF[Len(f)]
  BY TurnsSteps
<1>2. PICK upG : UpTo(upG, deep, g, data) /\ FieldsAt(deep, g, data) = upG[Len(f)]
  BY TurnsSteps
<1> DEFINE Same == {n \in Nat : n <= Len(f) => \A s \in upF[n], t \in upG[n] : s = t}
<1>3. 0 \in Same
  BY <1>1, <1>2 DEF UpTo
<1>4. ASSUME NEW n \in Nat, n \in Same, n + 1 <= Len(f), NEW s \in upF[n + 1], NEW t \in upG[n + 1]
      PROVE  s = t
  <2>1. n + 1 \in 1..Len(f) /\ n + 1 \in 1..Len(g) /\ (n + 1) - 1 = n
    BY <1>4
  <2>2. upF[n + 1] = OneMore(deep, f, n + 1, upF[n]) /\ upG[n + 1] = OneMore(deep, g, n + 1, upG[n])
    BY <1>1, <1>2, <2>1 DEF UpTo
  <2>3. PICK b \in upF[n] : \E next \in ReadAt(deep, f[n + 1][2], b.rest) :
                s = Result(With(b.value, f[n + 1][1], next.value), next.rest)
    BY <1>4, <2>2 DEF OneMore
  <2>4. PICK c \in upG[n] : \E next \in ReadAt(deep, g[n + 1][2], c.rest) :
                t = Result(With(c.value, g[n + 1][1], next.value), next.rest)
    BY <1>4, <2>2 DEF OneMore
  <2>5. b = c
    BY <1>4, <2>3, <2>4
  <2>6. /\ f[n + 1][1] = g[n + 1][1]
        /\ \A x \in ReadAt(deep, f[n + 1][2], b.rest) :
             \A y \in ReadAt(deep, g[n + 1][2], b.rest) : x = y
    BY <2>1 DEF NoTwoMeanings
  <2> QED
    BY <2>3, <2>4, <2>5, <2>6
<1>5. \A n \in Nat : n \in Same => n + 1 \in Same
  BY <1>4
<1>6. Len(f) \in Same
  <2> HIDE DEF Same
  <2> QED
    BY <1>3, <1>5, NatSetInduction
<1> QED
  BY <1>1, <1>2, <1>6

LEMMA ListsMeanOne ==
  ASSUME NEW k, NEW l, NEW data, NEW r \in ReadList(k, data), NEW q \in ReadList(l, data)
  PROVE  r = q
BY DEF ReadList

LEMMA PlainsMeanOne ==
  ASSUME NEW k, NEW l, Accepts(l, k)
  PROVE  NoTwoMeanings(FALSE, k, l)
<1> SUFFICES ASSUME NEW data, NEW r \in ReadPlain(k, data), NEW q \in ReadPlain(l, data)
             PROVE  r = q
  BY DEF NoTwoMeanings, ReadAt
<1>1. data # << >>
  BY DEF ReadPlain
<1>2. CASE k.is = "list" /\ l.is = "list"
  BY <1>1, <1>2, ListsMeanOne DEF ReadPlain
<1>3. CASE k.is = "cell" /\ l.is = "cell"
  BY <1>1, <1>3 DEF ReadPlain
<1>4. CASE k.is = "flag" /\ l.is = "cell" /\ l.allowed = {0, 1}
  BY <1>1, <1>4 DEF ReadPlain
<1> QED
  BY <1>2, <1>3, <1>4 DEF Accepts

LEMMA KindsMeanOne ==
  ASSUME NEW k, NEW l, AcceptsKind(l, k)
  PROVE  NoTwoMeanings(TRUE, k, l)
<1> SUFFICES ASSUME NEW data, NEW r \in ReadKind(k, data), NEW q \in ReadKind(l, data)
             PROVE  r = q
  BY DEF NoTwoMeanings, ReadAt
<1>1. CASE Accepts(l, k)
  <2>1. k.is # "option" /\ l.is # "option"
    BY <1>1 DEF Accepts
  <2> QED
    BY <1>1, <2>1, PlainsMeanOne DEF NoTwoMeanings, ReadAt, ReadKind
<1>2. CASE k.is = "option" /\ l.is = "option" /\ l.strict /\ AcceptsAll(l.fields, k.fields)
  <2>1. r \in ReadOption(k, data) /\ q \in ReadOption(l, data)
    BY <1>2 DEF ReadKind
  <2>2. data # << >>
    BY <1>2, <2>1 DEF ReadOption
  <2>3. CASE Head(data) = 1
    <3>1. PICK s \in FieldsInTurn(ReadPlain, k.fields, Tail(data)) : r = Result(<<s.value>>, s.rest)
      BY <2>1, <2>2, <2>3 DEF ReadOption
    <3>2. PICK t \in FieldsInTurn(ReadPlain, l.fields, Tail(data)) : q = Result(<<t.value>>, t.rest)
      BY <2>1, <2>2, <2>3 DEF ReadOption
    <3> DEFINE f == k.fields
               g == l.fields
    <3>3. /\ Len(f) \in Nat /\ Len(g) = Len(f)
          /\ \A n \in 1..Len(f) : f[n][1] = g[n][1] /\ NoTwoMeanings(FALSE, f[n][2], g[n][2])
      BY <1>2, PlainsMeanOne DEF AcceptsAll, AreFields
    <3>4. s \in FieldsAt(FALSE, f, Tail(data)) /\ t \in FieldsAt(FALSE, g, Tail(data))
      BY <3>1, <3>2 DEF FieldsAt
    <3> HIDE DEF f, g
    <3>5. s = t
      BY <3>3, <3>4, FieldsMeanOne
    <3> QED
      BY <3>1, <3>2, <3>5
  <2>4. CASE Head(data) # 1
    BY <1>2, <2>1, <2>2, <2>4 DEF ReadOption
  <2> QED
    BY <2>3, <2>4
<1> QED
  BY <1>1, <1>2 DEF AcceptsKind

LEMMA DescriptionsMeanOne ==
  ASSUME NEW d, NEW e, AcceptsFields(e.fields, d.fields),
         NEW data, NEW v \in Read(d, data), NEW w \in Read(e, data)
  PROVE  v = w
<1> DEFINE f == d.fields
           g == e.fields
<1>1. PICK r \in ReadFields(f, data) : v = r.value
  BY DEF Read
<1>2. PICK q \in ReadFields(g, data) : w = q.value
  BY DEF Read
<1>3. /\ Len(f) \in Nat /\ Len(g) = Len(f)
      /\ \A n \in 1..Len(f) : f[n][1] = g[n][1] /\ NoTwoMeanings(TRUE, f[n][2], g[n][2])
  BY KindsMeanOne DEF AcceptsFields, AreFields
<1>4. r \in FieldsAt(TRUE, f, data) /\ q \in FieldsAt(TRUE, g, data)
  BY <1>1, <1>2 DEF FieldsAt
<1> HIDE DEF f, g
<1>5. r = q
  BY <1>3, <1>4, FieldsMeanOne
<1> QED
  BY <1>1, <1>2, <1>5

-----------------------------------------------------------------------------
(* What Concatenated returns *)
LEMMA ConcatenatedSteps ==
  ASSUME NEW S, NEW N \in Nat, NEW parts \in [1..N -> Seq(S)]
  PROVE  \E last : /\ last \in [0..N -> Seq(S)]
                   /\ last[0] = << >>
                   /\ \A n \in 1..N : last[n] = parts[N - n + 1] \o last[n - 1]
                   /\ Concatenated(parts) = last[N]
<1> DEFINE T == Seq(S)
           step == [p \in (1..N) \X T |-> parts[N - p[1] + 1] \o p[2]]
           more(n, s) == parts[N - n + 1] \o s
           body(g) == [n \in 0..N |-> IF n = 0 THEN << >> ELSE more(n, g[n - 1])]
           last == CHOOSE g : g = body(g)
<1>1. step \in [(1..N) \X T -> T]
  <2>1. ASSUME NEW p \in (1..N) \X T
        PROVE  parts[N - p[1] + 1] \o p[2] \in T
    <3>1. N - p[1] + 1 \in 1..N /\ p[2] \in Seq(S)
      OBVIOUS
    <3>2. parts[N - p[1] + 1] \in Seq(S)
      BY <3>1
    <3> QED
      BY <3>1, <3>2, ConcatProperties
  <2> HIDE DEF T
  <2> QED
    BY <2>1
<1>2. << >> \in T
  OBVIOUS
<1>3. PICK g : Iterates(g, T, << >>, N, step)
  <2> HIDE DEF T, step
  <2> QED
    BY <1>1, <1>2, IterationExists
<1>4. g \in [0..N -> T] /\ g[0] = << >> /\ \A n \in 1..N : g[n] = parts[N - n + 1] \o g[n - 1]
  <2>1. g \in [0..N -> T] /\ g[0] = << >> /\ \A n \in 1..N : g[n] = step[<<n, g[n - 1]>>]
    <3> HIDE DEF T, step
    <3> QED
      BY <1>3 DEF Iterates
  <2>2. ASSUME NEW n \in 1..N
        PROVE  g[n] = parts[N - n + 1] \o g[n - 1]
    <3>1. g[n - 1] \in T
      BY <2>1
    <3> HIDE DEF T
    <3> QED
      BY <2>1, <3>1
  <2> QED
    BY <2>1, <2>2
<1>5. g = body(g)
  <2>1. g = [n \in 0..N |-> g[n]] /\ g[0] = << >> /\ \A n \in 1..N : g[n] = more(n, g[n - 1])
    BY <1>4
  <2> HIDE DEF T, more
  <2>2. ASSUME NEW n \in 0..N
        PROVE  g[n] = IF n = 0 THEN << >> ELSE more(n, g[n - 1])
    <3>1. n = 0 \/ (n \in 1..N /\ n # 0)
      OBVIOUS
    <3> HIDE DEF body, step
    <3> QED
      BY <2>1, <3>1
  <2> QED
    BY <2>1, <2>2
<1>6. last = body(last)
  <2> HIDE DEF body
  <2> QED
    BY <1>5
<1>7. Len(parts) = N
  OBVIOUS
<1>8. Concatenated(parts) = last[N]
  BY <1>7 DEF Concatenated
<1> HIDE DEF last
<1>9. last[0] = << >> /\ \A n \in 1..N : last[n] = parts[N - n + 1] \o last[n - 1]
  <2>1. /\ body(last)[0] = << >>
        /\ \A n \in 1..N : body(last)[n] = more(n, last[n - 1])
    <3> HIDE DEF more
    <3> QED
      OBVIOUS
  <2> HIDE DEF body
  <2> QED
    BY <1>6, <2>1
<1>10. \A n \in 0..N : last[n] = g[n]
  <2> DEFINE Same == {n \in Nat : n <= N => last[n] = g[n]}
  <2>1. 0 \in Same
    BY <1>4, <1>9
  <2>2. ASSUME NEW n \in Nat, n \in Same, n + 1 <= N
        PROVE  last[n + 1] = g[n + 1]
    <3>1. n + 1 \in 1..N /\ (n + 1) - 1 = n /\ last[n] = g[n]
      BY <2>2
    <3> QED
      BY <1>4, <1>9, <3>1
  <2>3. \A n \in Nat : n \in Same => n + 1 \in Same
    BY <2>2
  <2>4. Nat \subseteq Same
    <3> HIDE DEF Same
    <3> QED
      BY <2>1, <2>3, NatSetInduction
  <2> QED
    BY <2>4
<1>11. last \in [0..N -> T]
  <2>1. last = [n \in 0..N |-> last[n]]
    BY <1>6
  <2> HIDE DEF T, body
  <2> QED
    BY <1>4, <1>10, <2>1
<1> QED
  BY <1>8, <1>9, <1>11

-----------------------------------------------------------------------------
(* A description of a field reads what another one writes *)
WriteAt(deep, kind, value) == IF deep THEN WriteKind(kind, value) ELSE WritePlain(kind, value)

WriteFieldsAt(deep, fields, value) ==
  Concatenated([i \in DOMAIN fields |-> WriteAt(deep, fields[i][2], value[fields[i][1]])])

ReadsBack(deep, r, w, v) ==
  /\ WriteAt(deep, w, v) \in Seq(Cells)
  /\ \A tail \in Seq(Cells) : ReadAt(deep, r, WriteAt(deep, w, v) \o tail) = {Result(v, tail)}

NamesUpTo(f, k) == {f[i][1] : i \in 1..k}

FirstFields(v, f, k) == [name \in NamesUpTo(f, k) |-> v[name]]

LEMMA FirstFieldsStart ==
  ASSUME NEW v, NEW f
  PROVE  FirstFields(v, f, 0) = << >>
<1>1. NamesUpTo(f, 0) = {}
  BY DEF NamesUpTo
<1> QED
  BY <1>1 DEF FirstFields

LEMMA FirstFieldsGrow ==
  ASSUME NEW v, NEW f, NEW k \in Nat
  PROVE  With(FirstFields(v, f, k), f[k + 1][1], v[f[k + 1][1]]) = FirstFields(v, f, k + 1)
<1> DEFINE last == f[k + 1][1]
<1>1. NamesUpTo(f, k + 1) = NamesUpTo(f, k) \cup {last}
  <2>1. 1..k + 1 = 1..k \cup {k + 1}
    OBVIOUS
  <2> QED
    BY <2>1 DEF NamesUpTo
<1> HIDE DEF last
<1>2. /\ DOMAIN FirstFields(v, f, k) = NamesUpTo(f, k)
      /\ \A n \in NamesUpTo(f, k) : FirstFields(v, f, k)[n] = v[n]
  BY DEF FirstFields
<1>3. With(FirstFields(v, f, k), last, v[last])
        = [n \in NamesUpTo(f, k) \cup {last} |->
             IF n = last THEN v[last] ELSE FirstFields(v, f, k)[n]]
  BY <1>2 DEF With
<1>4. \A n \in NamesUpTo(f, k) \cup {last} :
        (IF n = last THEN v[last] ELSE FirstFields(v, f, k)[n]) = v[n]
  BY <1>2
<1>5. With(FirstFields(v, f, k), last, v[last]) = [n \in NamesUpTo(f, k) \cup {last} |-> v[n]]
  BY <1>3, <1>4
<1>6. With(FirstFields(v, f, k), last, v[last]) = FirstFields(v, f, k + 1)
  BY <1>1, <1>5 DEF FirstFields
<1> QED
  BY <1>6 DEF last

EachReadsBack(deep, f, g, v) ==
  /\ AreFields(f) /\ AreFields(g) /\ Len(g) = Len(f) /\ v = FirstFields(v, f, Len(f))
  /\ \A n \in 1..Len(f) : f[n][1] = g[n][1] /\ ReadsBack(deep, f[n][2], g[n][2], v[f[n][1]])

AllReadBack(deep, f, g, v) ==
  /\ WriteFieldsAt(deep, g, v) \in Seq(Cells)
  /\ \A tail \in Seq(Cells) :
       FieldsAt(deep, f, WriteFieldsAt(deep, g, v) \o tail) = {Result(v, tail)}

LEMMA FieldsReadBack ==
  ASSUME NEW deep \in BOOLEAN, NEW f, NEW g, NEW v, EachReadsBack(deep, f, g, v)
  PROVE  AllReadBack(deep, f, g, v)
<1>0. /\ AreFields(f) /\ AreFields(g) /\ Len(g) = Len(f) /\ v = FirstFields(v, f, Len(f))
      /\ \A n \in 1..Len(f) : /\ f[n][1] = g[n][1]
                              /\ ReadsBack(deep, f[n][2], g[n][2], v[f[n][1]])
  BY DEF EachReadsBack
<1> DEFINE N == Len(f)
           parts == [i \in 1..N |-> WriteAt(deep, g[i][2], v[g[i][1]])]
<1>1. N \in Nat /\ DOMAIN g = 1..N
  BY <1>0 DEF AreFields
<1>2. /\ parts \in [1..N -> Seq(Cells)]
      /\ \A i \in 1..N : parts[i] = WriteAt(deep, g[i][2], v[f[i][1]])
  <2>1. ASSUME NEW i \in 1..N
        PROVE  /\ WriteAt(deep, g[i][2], v[g[i][1]]) \in Seq(Cells)
               /\ WriteAt(deep, g[i][2], v[g[i][1]]) = WriteAt(deep, g[i][2], v[f[i][1]])
    BY <1>0 DEF ReadsBack
  <2> QED
    BY <2>1
<1>3. WriteFieldsAt(deep, g, v) = Concatenated(parts)
  BY <1>1 DEF WriteFieldsAt
<1> HIDE DEF parts
<1>4. PICK last : /\ last \in [0..N -> Seq(Cells)]
                  /\ last[0] = << >>
                  /\ \A n \in 1..N : last[n] = parts[N - n + 1] \o last[n - 1]
                  /\ Concatenated(parts) = last[N]
  <2> HIDE DEF N
  <2> QED
    BY <1>1, <1>2, ConcatenatedSteps
<1>5. WriteFieldsAt(deep, g, v) = last[N] /\ last[N] \in Seq(Cells)
  BY <1>1, <1>3, <1>4
<1>6. ASSUME NEW tail \in Seq(Cells)
      PROVE  FieldsAt(deep, f, last[N] \o tail) = {Result(v, tail)}
  <2>1. PICK up : UpTo(up, deep, f, last[N] \o tail) /\ FieldsAt(deep, f, last[N] \o tail) = up[N]
    BY <1>1, TurnsSteps
  <2> DEFINE after(k) == {Result(FirstFields(v, f, k), last[N - k] \o tail)}
             ReadTo(k) == k <= N => up[k] = after(k)
             Done == {k \in Nat : ReadTo(k)}
  <2>2. 0 \in Done
    <3>1. up[0] = {Result(<< >>, last[N] \o tail)} /\ N - 0 = N
      BY <1>1, <2>1 DEF UpTo
    <3> QED
      BY <3>1, FirstFieldsStart
  <2>3. ASSUME NEW k \in Nat, k \in Done, k + 1 <= N
        PROVE  up[k + 1] = after(k + 1)
    <3> DEFINE here == parts[k + 1]
               rest == last[N - (k + 1)] \o tail
               name == f[k + 1][1]
    <3>1. k + 1 \in 1..N /\ (k + 1) - 1 = k /\ k <= N
      BY <2>3
    <3>2. up[k + 1] = OneMore(deep, f, k + 1, up[k])
      <4>1. up[k + 1] = OneMore(deep, f, k + 1, up[(k + 1) - 1])
        BY <2>1, <3>1 DEF UpTo
      <4> QED
        BY <3>1, <4>1
    <3>3. up[k] = after(k)
      BY <2>3, <3>1
    <3>4. rest \in Seq(Cells) /\ last[N - k] \o tail = here \o rest
      <4>1. /\ N - k \in 1..N /\ N - (N - k) + 1 = k + 1 /\ (N - k) - 1 = N - (k + 1)
            /\ N - (k + 1) \in 0..N
        BY <1>1, <3>1
      <4>2. last[N - k] = here \o last[N - (k + 1)]
        BY <1>4, <4>1
      <4> DEFINE others == last[N - (k + 1)]
      <4>3. here \in Seq(Cells) /\ others \in Seq(Cells)
        BY <1>2, <1>4, <3>1, <4>1
      <4> HIDE DEF here, others
      <4>4. (here \o others) \o tail = here \o (others \o tail)
        BY <4>3, ConcatAssociative
      <4>5. others \o tail \in Seq(Cells)
        BY <4>3, ConcatProperties
      <4> QED
        BY <4>2, <4>4, <4>5 DEF others
    <3>5. here = WriteAt(deep, g[k + 1][2], v[name])
      BY <1>2, <3>1
    <3>6. ReadAt(deep, f[k + 1][2], here \o rest) = {Result(v[name], rest)}
      <4>1. ReadsBack(deep, f[k + 1][2], g[k + 1][2], v[name])
        BY <1>0, <3>1
      <4> HIDE DEF here, rest, name
      <4> QED
        BY <3>4, <3>5, <4>1 DEF ReadsBack
    <3>7. up[k] = {Result(FirstFields(v, f, k), here \o rest)}
      BY <3>3, <3>4
    <3>8. With(FirstFields(v, f, k), name, v[name]) = FirstFields(v, f, k + 1)
      BY FirstFieldsGrow
    <3> HIDE DEF here, rest
    <3>9. up[k + 1] = {Result(With(FirstFields(v, f, k), name, v[name]), rest)}
      <4> DEFINE before == Result(FirstFields(v, f, k), here \o rest)
                 next == Result(v[name], rest)
      <4>1. before.value = FirstFields(v, f, k) /\ before.rest = here \o rest
        BY DEF Result
      <4>2. next.value = v[name] /\ next.rest = rest
        BY DEF Result
      <4> HIDE DEF before, next
      <4>3. up[k] = {before} /\ ReadAt(deep, f[k + 1][2], before.rest) = {next}
        BY <3>6, <3>7, <4>1 DEF before, next
      <4>4. OneMore(deep, f, k + 1, {before})
              = {Result(With(before.value, name, next.value), next.rest)}
        BY <4>3 DEF OneMore
      <4> QED
        BY <3>2, <4>1, <4>2, <4>3, <4>4
    <3> QED
      BY <3>8, <3>9 DEF rest
  <2>4. \A k \in Nat : k \in Done => k + 1 \in Done
    BY <2>3
  <2>5. N \in Done
    <3> HIDE DEF Done, N
    <3> QED
      BY <1>1, <2>2, <2>4, NatSetInduction
  <2>6. last[N - N] \o tail = tail
    BY <1>1, <1>4, ConcatEmptySeq
  <2>7. up[N] = {Result(FirstFields(v, f, N), last[N - N] \o tail)}
    BY <1>1, <2>5
  <2>8. FirstFields(v, f, N) = v
    BY <1>0
  <2> HIDE DEF Done, N
  <2> QED
    BY <2>1, <2>6, <2>7, <2>8
<1> QED
  BY <1>5, <1>6 DEF AllReadBack

LEMMA CellThenRest ==
  ASSUME NEW S, NEW c \in S, NEW rest \in Seq(S)
  PROVE  LET d == <<c>> \o rest
         IN  /\ d \in Seq(S) /\ d # << >> /\ d[1] = c /\ Head(d) = c /\ Tail(d) = rest
             /\ Len(d) = Len(rest) + 1 /\ \A i \in 1..Len(rest) : d[i + 1] = rest[i]
<1> DEFINE one == <<c>>
           d == one \o rest
<1>1. one \in Seq(S) /\ Len(one) = 1 /\ one[1] = c /\ Len(rest) \in Nat
  OBVIOUS
<1> HIDE DEF one
<1>2. /\ d \in Seq(S) /\ Len(d) = Len(one) + Len(rest)
      /\ \A i \in 1..Len(one) + Len(rest) :
           d[i] = IF i <= Len(one) THEN one[i] ELSE rest[i - Len(one)]
  BY <1>1, ConcatProperties
<1>3. Len(d) = Len(rest) + 1
  BY <1>1, <1>2
<1>4. d[1] = c
  <2>1. 1 \in 1..Len(one) + Len(rest) /\ 1 <= Len(one)
    BY <1>1
  <2>2. d[1] = one[1]
    BY <1>2, <2>1
  <2> QED
    BY <1>1, <2>2
<1>5. ASSUME NEW i \in 1..Len(rest)
      PROVE  d[i + 1] = rest[i]
  <2>1. i + 1 \in 1..Len(one) + Len(rest) /\ ~(i + 1 <= Len(one)) /\ (i + 1) - Len(one) = i
    BY <1>1
  <2> QED
    BY <1>2, <2>1
<1> HIDE DEF d
<1>6. d # << >>
  BY <1>1, <1>3
<1>7. /\ Head(d) = d[1] /\ Tail(d) \in Seq(S) /\ Len(Tail(d)) = Len(d) - 1
      /\ \A i \in 1..Len(Tail(d)) : Tail(d)[i] = d[i + 1]
  <2>1. Head(d) = d[1]
    OBVIOUS
  <2> QED
    BY <1>2, <1>6, <2>1, HeadTailProperties
<1>8. Tail(d) = rest
  <2>1. Len(Tail(d)) = Len(rest) /\ \A i \in 1..Len(rest) : Tail(d)[i] = rest[i]
    BY <1>1, <1>3, <1>5, <1>7
  <2> QED
    BY <1>7, <2>1, SeqEqual
<1>9. d = <<c>> \o rest
  BY DEF d, one
<1> QED
  BY <1>2, <1>3, <1>4, <1>5, <1>6, <1>7, <1>8, <1>9

(* A list that is written with its length in front is found by that length.  *)
LEMMA ListThenRest ==
  ASSUME NEW S, NEW list \in Seq(S), Len(list) \in S, NEW rest \in Seq(S)
  PROVE  LET d == (<<Len(list)>> \o list) \o rest
         IN  /\ d \in Seq(S) /\ d # << >> /\ d[1] = Len(list) /\ Len(list) < Len(d)
             /\ \A i \in 1..Len(list) : d[i + 1] = list[i]
             /\ SubSeq(d, 2, Len(list) + 1) = list
             /\ SubSeq(d, Len(list) + 2, Len(d)) = rest
<1> DEFINE n == Len(list)
           both == list \o rest
           d == <<n>> \o both
<1>1. /\ n \in Nat /\ Len(rest) \in Nat /\ both \in Seq(S) /\ Len(both) = n + Len(rest)
      /\ \A i \in 1..n + Len(rest) : both[i] = IF i <= n THEN list[i] ELSE rest[i - n]
  BY ConcatProperties
<1>2. (<<n>> \o list) \o rest = d
  <2> DEFINE one == <<n>>
  <2>1. one \in Seq(S)
    OBVIOUS
  <2> HIDE DEF one
  <2>2. (one \o list) \o rest = one \o (list \o rest)
    BY <2>1, ConcatAssociative
  <2> QED
    BY <2>2 DEF one
<1> HIDE DEF both
<1>3. /\ d \in Seq(S) /\ d # << >> /\ d[1] = n /\ Len(d) = Len(both) + 1
      /\ \A i \in 1..Len(both) : d[i + 1] = both[i]
  <2>1. n \in S /\ both \in Seq(S)
    BY <1>1
  <2> HIDE DEF n
  <2> QED
    BY <2>1, CellThenRest
<1> HIDE DEF d, n
<1>4. Len(d) = n + Len(rest) + 1 /\ n < Len(d)
  BY <1>1, <1>3
<1>5. ASSUME NEW i \in 1..n
      PROVE  d[i + 1] = list[i]
  <2>1. i \in 1..n + Len(rest) /\ i <= n
    BY <1>1
  <2> QED
    BY <1>1, <1>3, <2>1
<1>6. ASSUME NEW i \in 1..Len(rest)
      PROVE  d[n + i + 1] = rest[i]
  <2>1. n + i \in 1..n + Len(rest) /\ ~(n + i <= n) /\ (n + i) - n = i
    BY <1>1
  <2>2. both[n + i] = rest[i]
    BY <1>1, <2>1
  <2> QED
    BY <1>1, <1>3, <2>1, <2>2
<1>7. list \in Seq(S) /\ Len(list) = n /\ \A i \in 1..n : list[i] \in S
  BY ElementOfSeq DEF n
<1>8. SubSeq(d, 2, n + 1) = list
  <2> DEFINE cut == SubSeq(d, 2, n + 1)
  <2>1. \A i \in 2..n + 1 : d[i] \in S
    <3>1. ASSUME NEW i \in 2..n + 1
          PROVE  d[i] \in S
      <4>1. i - 1 \in 1..n /\ (i - 1) + 1 = i
        BY <1>1
      <4>2. d[(i - 1) + 1] = list[i - 1]
        BY <1>5, <4>1
      <4> QED
        BY <1>7, <4>1, <4>2
    <3> QED
      BY <3>1
  <2>2. 2 \in Int /\ n + 1 \in Int
    BY <1>1
  <2>3. /\ cut \in Seq(S) /\ Len(cut) = (IF 2 <= n + 1 THEN (n + 1) - 2 + 1 ELSE 0)
        /\ \A i \in 1..(n + 1) - 2 + 1 : cut[i] = d[2 + i - 1]
    BY <2>1, <2>2, SubSeqProperties
  <2> HIDE DEF cut
  <2>4. Len(cut) = n
    BY <1>1, <2>3
  <2>5. ASSUME NEW i \in 1..n
        PROVE  cut[i] = list[i]
    <3>1. i \in 1..(n + 1) - 2 + 1 /\ 2 + i - 1 = i + 1
      BY <1>1
    <3> QED
      BY <1>5, <2>3, <3>1
  <2>6. cut = list
    BY <1>7, <2>3, <2>4, <2>5, SeqEqual
  <2> QED
    BY <2>6 DEF cut
<1>9. SubSeq(d, n + 2, Len(d)) = rest
  <2> DEFINE m == Len(rest)
             cut == SubSeq(d, n + 2, n + m + 1)
  <2>1. \A i \in n + 2..n + m + 1 : d[i] \in S
    BY <1>1, <1>3, <1>4, ElementOfSeq
  <2>2. n + 2 \in Int /\ n + m + 1 \in Int /\ m \in Nat
    BY <1>1
  <2>3. /\ cut \in Seq(S)
        /\ Len(cut) = (IF n + 2 <= n + m + 1 THEN (n + m + 1) - (n + 2) + 1 ELSE 0)
        /\ \A i \in 1..(n + m + 1) - (n + 2) + 1 : cut[i] = d[n + 2 + i - 1]
    BY <2>1, <2>2, SubSeqProperties
  <2> HIDE DEF cut
  <2>4. Len(cut) = m
    BY <1>1, <2>2, <2>3
  <2>5. ASSUME NEW i \in 1..m
        PROVE  cut[i] = rest[i]
    <3>1. i \in 1..(n + m + 1) - (n + 2) + 1 /\ n + 2 + i - 1 = n + i + 1
      BY <1>1
    <3> QED
      BY <1>6, <2>3, <3>1
  <2>6. cut = rest
    BY <2>3, <2>4, <2>5, SeqEqual
  <2> QED
    BY <1>4, <2>6 DEF cut
<1>10. (<<Len(list)>> \o list) \o rest = d
  BY <1>2 DEF n
<1> QED
  BY <1>3, <1>4, <1>5, <1>8, <1>9, <1>10 DEF n

-----------------------------------------------------------------------------
LEMMA ValueAccepted ==
  ASSUME NEW k, NEW l, Accepts(l, k), NEW v, PlainValue(k, v), NEW r \in {k, l}
  PROVE  PlainValue(r, v)
<1>1. CASE k.is = "list" /\ l.is = "list"
  <2>1. v \in Seq(k.allowed) /\ k.allowed \subseteq l.allowed /\ Len(v) \in l.lengths
    BY <1>1 DEF Accepts, PlainValue
  <2>2. v \in Seq(l.allowed)
    BY <2>1, SeqMonotonic
  <2> QED
    BY <1>1, <2>1, <2>2 DEF PlainValue
<1>2. CASE k.is = "cell" /\ l.is = "cell"
  BY <1>2 DEF Accepts, PlainValue
<1>3. CASE k.is = "flag" /\ l.is = "cell" /\ l.allowed = {0, 1}
  BY <1>3 DEF Accepts, PlainValue
<1> QED
  BY <1>1, <1>2, <1>3 DEF Accepts

LEMMA PlainReadsBack ==
  ASSUME NEW k, NEW l, Accepts(l, k), NEW v, PlainValue(k, v), NEW r \in {k, l}, NEW w \in {k, l}
  PROVE  ReadsBack(FALSE, r, w, v)
<1>1. PlainValue(r, v)
  BY ValueAccepted
<1>2. CASE k.is = "list" /\ l.is = "list"
  <2>1. /\ v \in Seq(r.allowed) /\ Len(v) \in r.lengths /\ r.is = "list" /\ w.is = "list"
        /\ r.allowed \subseteq Cells /\ r.lengths \subseteq Cells /\ Cells \subseteq Nat
    BY <1>1, <1>2, CellsAssumption DEF Accepts, PlainValue
  <2>2. v \in Seq(Cells) /\ Len(v) \in Cells /\ Len(v) \in Nat
    BY <2>1, SeqMonotonic
  <2>3. WritePlain(w, v) = <<Len(v)>> \o v
    BY <2>1 DEF WritePlain
  <2> DEFINE written == <<Len(v)>> \o v
  <2>4. written \in Seq(Cells)
    BY <2>2, CellThenRest
  <2>5. ASSUME NEW tail \in Seq(Cells)
        PROVE  ReadPlain(r, written \o tail) = {Result(v, tail)}
    <3> DEFINE d == written \o tail
               n == Len(v)
    <3>1. /\ d # << >> /\ d[1] = n /\ n < Len(d) /\ \A i \in 1..n : d[i + 1] = v[i]
          /\ SubSeq(d, 2, n + 1) = v /\ SubSeq(d, n + 2, Len(d)) = tail
      BY <2>2, ListThenRest
    <3> HIDE DEF d, n
    <3>2. n \in Nat /\ n \in r.lengths
      BY <2>1, <2>2 DEF n
    <3>3. \A i \in 2..n + 1 : d[i] \in r.allowed
      <4>1. ASSUME NEW i \in 2..n + 1
            PROVE  d[i] \in r.allowed
        <5>1. i - 1 \in 1..n /\ (i - 1) + 1 = i
          BY <3>2
        <5>2. d[(i - 1) + 1] = v[i - 1]
          BY <3>1, <5>1
        <5>3. v[i - 1] \in r.allowed
          BY <2>1, <5>1, ElementOfSeq DEF n
        <5> QED
          BY <5>1, <5>2, <5>3
      <4> QED
        BY <4>1
    <3> DEFINE found == {m \in r.lengths : /\ d[1] = m /\ m < Len(d)
                                          /\ \A i \in 2..m+1 : d[i] \in r.allowed}
    <3>4. found = {n}
      BY <3>1, <3>2, <3>3
    <3>5. ReadList(r, d) = {Result(SubSeq(d, 2, m + 1), SubSeq(d, m + 2, Len(d))) : m \in found}
      BY DEF ReadList
    <3> HIDE DEF found
    <3>6. ReadList(r, d) = {Result(v, tail)}
      BY <3>1, <3>4, <3>5
    <3>7. ReadPlain(r, d) = ReadList(r, d)
      BY <2>1, <3>1 DEF ReadPlain
    <3> QED
      BY <3>6, <3>7 DEF d
  <2> HIDE DEF written
  <2> QED
    BY <2>3, <2>4, <2>5 DEF ReadsBack, WriteAt, ReadAt, written
<1>3. CASE k.is \in {"cell", "flag"} /\ l.is = "cell"
  <2>1. WritePlain(w, v) = <<v>>
    BY <1>3 DEF WritePlain
  <2>2. v \in Cells
    <3>1. v \in l.allowed
      BY <1>3, ValueAccepted DEF PlainValue
    <3>2. 0 \in Cells /\ 1 \in Cells
      BY CellsAssumption
    <3>3. l.allowed \subseteq Cells
      BY <1>3, <3>2 DEF Accepts
    <3> QED
      BY <3>1, <3>3
  <2>3. <<v>> \in Seq(Cells)
    BY <2>2
  <2>4. ASSUME NEW tail \in Seq(Cells)
        PROVE  ReadPlain(r, <<v>> \o tail) = {Result(v, tail)}
    <3> DEFINE d == <<v>> \o tail
    <3>1. d # << >> /\ d[1] = v /\ Tail(d) = tail
      BY <2>2, CellThenRest
    <3> HIDE DEF d
    <3>2. CASE r.is = "cell"
      <4>1. {d[1]} \cap r.allowed = {v}
        BY <1>1, <3>1, <3>2 DEF PlainValue
      <4>2. ReadPlain(r, d) = {Result(c, Tail(d)) : c \in {d[1]} \cap r.allowed}
        BY <3>1, <3>2 DEF ReadPlain
      <4> QED
        BY <3>1, <4>1, <4>2 DEF d
    <3>3. CASE r.is = "flag"
      <4>1. v \in {0, 1}
        BY <1>1, <3>3 DEF PlainValue
      <4>2. ReadPlain(r, d) = {Result(IF d[1] = 0 THEN 0 ELSE 1, Tail(d))}
        BY <3>1, <3>3 DEF ReadPlain
      <4> QED
        BY <3>1, <4>1, <4>2 DEF d
    <3> QED
      BY <1>3, <3>2, <3>3
  <2> QED
    BY <2>1, <2>3, <2>4 DEF ReadsBack, WriteAt, ReadAt
<1> QED
  BY <1>2, <1>3 DEF Accepts

LEMMA KindReadsBack ==
  ASSUME NEW k, NEW l, AcceptsKind(l, k), NEW v, KindValue(k, v), NEW r \in {k, l}, NEW w \in {k, l}
  PROVE  ReadsBack(TRUE, r, w, v)
<1>1. CASE Accepts(l, k)
  <2>1. k.is # "option" /\ l.is # "option"
    BY <1>1 DEF Accepts
  <2>2. r.is # "option" /\ w.is # "option" /\ PlainValue(k, v)
    BY <2>1 DEF KindValue
  <2>3. ReadsBack(FALSE, r, w, v)
    BY <1>1, <2>2, PlainReadsBack
  <2> QED
    BY <2>2, <2>3 DEF ReadsBack, WriteAt, ReadAt, WriteKind, ReadKind
<1>2. CASE k.is = "option" /\ l.is = "option" /\ l.strict /\ AcceptsAll(l.fields, k.fields)
  <2>1. r.is = "option" /\ w.is = "option"
    BY <1>2
  <2>2. 0 \in Cells /\ 1 \in Cells
    BY CellsAssumption
  <2>3. CASE v = << >>
    <3>1. WriteKind(w, v) = <<0>> /\ <<0>> \in Seq(Cells)
      BY <2>1, <2>2, <2>3 DEF WriteKind
    <3>2. ASSUME NEW tail \in Seq(Cells)
          PROVE  ReadKind(r, <<0>> \o tail) = {Result(v, tail)}
      <4> DEFINE d == <<0>> \o tail
      <4>1. d # << >> /\ Head(d) = 0 /\ Tail(d) = tail
        BY <2>2, CellThenRest
      <4> HIDE DEF d
      <4>2. ReadOption(r, d) = {Result(<< >>, Tail(d))}
        BY <4>1 DEF ReadOption
      <4> QED
        BY <2>1, <2>3, <4>1, <4>2 DEF ReadKind, d
    <3> QED
      BY <3>1, <3>2 DEF ReadsBack, WriteAt, ReadAt
  <2>4. CASE v # << >>
    <3> DEFINE x == v[1]
               f == r.fields
               g == w.fields
    <3>1. v = <<x>> /\ FieldValues(PlainValue, k.fields, x)
      BY <1>2, <2>4 DEF KindValue
    <3>2. /\ AreFields(f) /\ AreFields(g) /\ Len(g) = Len(f) /\ Len(f) = Len(k.fields)
          /\ \A n \in 1..Len(f) : /\ f[n][1] = g[n][1] /\ f[n][1] = k.fields[n][1]
                                  /\ ReadsBack(FALSE, f[n][2], g[n][2], x[f[n][1]])
      <4>1. /\ AreFields(f) /\ AreFields(g) /\ Len(g) = Len(f) /\ Len(f) = Len(k.fields)
        BY <1>2 DEF AcceptsAll
      <4>2. ASSUME NEW n \in 1..Len(f)
            PROVE  /\ f[n][1] = g[n][1] /\ f[n][1] = k.fields[n][1]
                   /\ ReadsBack(FALSE, f[n][2], g[n][2], x[f[n][1]])
        <5>1. /\ k.fields[n][1] = l.fields[n][1] /\ Accepts(l.fields[n][2], k.fields[n][2])
              /\ DOMAIN k.fields = 1..Len(f)
          BY <1>2, <4>1 DEF AcceptsAll, AreFields
        <5>2. PlainValue(k.fields[n][2], x[k.fields[n][1]])
          BY <3>1, <5>1 DEF FieldValues
        <5>3. f[n][1] = k.fields[n][1] /\ g[n][1] = k.fields[n][1]
          BY <5>1
        <5>4. /\ f[n][2] \in {k.fields[n][2], l.fields[n][2]}
              /\ g[n][2] \in {k.fields[n][2], l.fields[n][2]}
          OBVIOUS
        <5> HIDE DEF f, g, x
        <5>5. ReadsBack(FALSE, f[n][2], g[n][2], x[k.fields[n][1]])
          BY <5>1, <5>2, <5>4, PlainReadsBack
        <5> QED
          BY <5>3, <5>5
      <4> QED
        BY <4>1, <4>2
    <3>3. x = FirstFields(x, f, Len(f))
      <4>1. DOMAIN k.fields = 1..Len(f)
        BY <1>2, <3>2 DEF AcceptsAll, AreFields
      <4>2. {k.fields[i][1] : i \in DOMAIN k.fields} = {f[i][1] : i \in 1..Len(f)}
        BY <3>2, <4>1
      <4> QED
        BY <3>1, <4>2 DEF FieldValues, FirstFields, NamesUpTo
    <3> DEFINE W == WriteFieldsAt(FALSE, g, x)
    <3>4. W = WritePlains(g, x)
      BY DEF WriteFieldsAt, WritePlains, WriteAt
    <3> HIDE DEF x, f, g
    <3>5. /\ W \in Seq(Cells)
          /\ \A tail \in Seq(Cells) : FieldsAt(FALSE, f, W \o tail) = {Result(x, tail)}
      <4>1. EachReadsBack(FALSE, f, g, x)
        BY <3>2, <3>3 DEF EachReadsBack
      <4>2. AllReadBack(FALSE, f, g, x)
        BY <4>1, FieldsReadBack
      <4> QED
        BY <4>2 DEF AllReadBack
    <3> HIDE DEF W
    <3>6. WriteKind(w, v) = <<1>> \o W
      BY <2>1, <2>4, <3>4 DEF WriteKind, x, g
    <3>7. <<1>> \o W \in Seq(Cells)
      BY <2>2, <3>5, CellThenRest
    <3>8. ASSUME NEW tail \in Seq(Cells)
          PROVE  ReadKind(r, (<<1>> \o W) \o tail) = {Result(v, tail)}
      <4> DEFINE d == <<1>> \o (W \o tail)
      <4>1. (<<1>> \o W) \o tail = d
        <5> DEFINE one == <<1>>
        <5>1. one \in Seq(Cells)
          BY <2>2
        <5> HIDE DEF one
        <5>2. (one \o W) \o tail = one \o (W \o tail)
          BY <3>5, <5>1, ConcatAssociative
        <5> QED
          BY <5>2 DEF one
      <4>2. W \o tail \in Seq(Cells)
        BY <3>5, ConcatProperties
      <4>3. d # << >> /\ Head(d) = 1 /\ Tail(d) = W \o tail
        BY <2>2, <4>2, CellThenRest
      <4> HIDE DEF d
      <4>4. ReadOption(r, d)
              = {Result(<<some.value>>, some.rest) : some \in FieldsAt(FALSE, f, Tail(d))}
        BY <4>3 DEF ReadOption, FieldsAt, f
      <4>5. FieldsAt(FALSE, f, Tail(d)) = {Result(x, tail)}
        BY <3>5, <4>3
      <4>6. ReadOption(r, d) = {Result(<<x>>, tail)}
        <5> DEFINE got == Result(x, tail)
        <5>1. got.value = x /\ got.rest = tail
          BY DEF Result
        <5> HIDE DEF got
        <5>2. FieldsAt(FALSE, f, Tail(d)) = {got}
          BY <4>5 DEF got
        <5> QED
          BY <4>4, <5>1, <5>2
      <4> QED
        BY <2>1, <3>1, <4>1, <4>6 DEF ReadKind, x
    <3> QED
      BY <3>6, <3>7, <3>8 DEF ReadsBack, WriteAt, ReadAt
  <2> QED
    BY <2>3, <2>4
<1> QED
  BY <1>1, <1>2 DEF AcceptsKind

(* What is written of values of a description is read as what was written,   *)
(* whichever of the two descriptions wrote it and whichever reads it.        *)
Exchanged(d, e, v) ==
  \A r, w \in {d, e} : Write(w.fields, v) \in Seq(Cells) /\ Read(r, Write(w.fields, v)) = {v}

LEMMA DescriptionReadsBack ==
  ASSUME NEW d, NEW e, AcceptsFields(e.fields, d.fields), NEW v, IsValueOf(d.fields, v)
  PROVE  Exchanged(d, e, v)
<1> SUFFICES ASSUME NEW r \in {d, e}, NEW w \in {d, e}
             PROVE  Write(w.fields, v) \in Seq(Cells) /\ Read(r, Write(w.fields, v)) = {v}
  BY DEF Exchanged
<1> DEFINE f == r.fields
           g == w.fields
           k == d.fields
           l == e.fields
<1>1. /\ AreFields(f) /\ AreFields(g) /\ Len(g) = Len(f) /\ Len(f) = Len(k)
      /\ AreFields(k) /\ Len(l) = Len(k)
  BY DEF AcceptsFields
<1>2. DOMAIN k = 1..Len(f)
  BY <1>1 DEF AreFields
<1>3. ASSUME NEW n \in 1..Len(f)
      PROVE  f[n][1] = g[n][1] /\ f[n][1] = k[n][1] /\ ReadsBack(TRUE, f[n][2], g[n][2], v[f[n][1]])
  <2>1. k[n][1] = l[n][1] /\ AcceptsKind(l[n][2], k[n][2])
    BY <1>1 DEF AcceptsFields
  <2>2. KindValue(k[n][2], v[k[n][1]])
    BY <1>2 DEF IsValueOf, FieldValues
  <2>3. f[n][1] = k[n][1] /\ g[n][1] = k[n][1]
    BY <2>1
  <2>4. f[n][2] \in {k[n][2], l[n][2]} /\ g[n][2] \in {k[n][2], l[n][2]}
    OBVIOUS
  <2> HIDE DEF f, g, k, l
  <2>5. ReadsBack(TRUE, f[n][2], g[n][2], v[k[n][1]])
    BY <2>1, <2>2, <2>4, KindReadsBack
  <2> QED
    BY <2>3, <2>5
<1>4. v = FirstFields(v, f, Len(f))
  <2>1. {k[i][1] : i \in DOMAIN k} = {f[i][1] : i \in 1..Len(f)}
    BY <1>2, <1>3
  <2> QED
    BY <2>1 DEF IsValueOf, FieldValues, FirstFields, NamesUpTo
<1> DEFINE W == WriteFieldsAt(TRUE, g, v)
<1>5. W = Write(g, v)
  BY DEF WriteFieldsAt, Write, WriteAt
<1> HIDE DEF f, g, k, l
<1>6. EachReadsBack(TRUE, f, g, v)
  BY <1>1, <1>3, <1>4 DEF EachReadsBack
<1>7. AllReadBack(TRUE, f, g, v)
  BY <1>6, FieldsReadBack
<1>8. W \in Seq(Cells) /\ \A tail \in Seq(Cells) : FieldsAt(TRUE, f, W \o tail) = {Result(v, tail)}
  BY <1>7 DEF AllReadBack
<1> HIDE DEF W
<1>9. ReadFields(f, W) = {Result(v, << >>)}
  <2>1. << >> \in Seq(Cells) /\ W \o << >> = W
    BY <1>8, ConcatEmptySeq
  <2>2. FieldsAt(TRUE, f, W \o << >>) = {Result(v, << >>)}
    BY <1>8, <2>1
  <2> QED
    BY <2>1, <2>2 DEF FieldsAt
<1>10. Read(r, W) = {v}
  <2> DEFINE got == Result(v, << >>)
  <2>1. got.value = v /\ got.rest = << >>
    BY DEF Result
  <2> HIDE DEF got
  <2>2. ReadFields(f, W) = {got}
    BY <1>9 DEF got
  <2> QED
    BY <2>1, <2>2 DEF Read, f
<1> QED
  BY <1>5, <1>8, <1>10 DEF g

-----------------------------------------------------------------------------
(* What is read of cells is a value of the kind, and leaves cells.           *)
ReadsValues(deep, k) ==
  \A data \in Seq(Cells) : \A r \in ReadAt(deep, k, data) :
    r.rest \in Seq(Cells) /\ (IF deep THEN KindValue(k, r.value) ELSE PlainValue(k, r.value))

LEMMA PlainReadsValues ==
  ASSUME NEW k, NEW l, Accepts(l, k)
  PROVE  ReadsValues(FALSE, k)
<1> SUFFICES ASSUME NEW data \in Seq(Cells), NEW r \in ReadPlain(k, data)
             PROVE  r.rest \in Seq(Cells) /\ PlainValue(k, r.value)
  BY DEF ReadsValues, ReadAt
<1>1. data # << >>
  BY DEF ReadPlain
<1>2. Tail(data) \in Seq(Cells) /\ Len(data) \in Nat
  BY <1>1, HeadTailProperties
<1>3. CASE k.is = "list"
  <2>1. PICK n \in k.lengths : /\ data[1] = n /\ n < Len(data)
                               /\ \A i \in 2..n + 1 : data[i] \in k.allowed
                               /\ r = Result(SubSeq(data, 2, n + 1), SubSeq(data, n + 2, Len(data)))
    BY <1>1, <1>3 DEF ReadPlain, ReadList
  <2>2. n \in Nat
    BY <1>3, <2>1, CellsAssumption DEF Accepts
  <2> DEFINE list == SubSeq(data, 2, n + 1)
             rest == SubSeq(data, n + 2, Len(data))
  <2>3. list \in Seq(k.allowed) /\ Len(list) = n
    <3> DEFINE allowed == k.allowed
    <3>1. 2 \in Int /\ n + 1 \in Int /\ \A i \in 2..n + 1 : data[i] \in allowed
      BY <2>1, <2>2
    <3> HIDE DEF allowed
    <3>2. /\ list \in Seq(allowed)
          /\ Len(list) = (IF 2 <= n + 1 THEN (n + 1) - 2 + 1 ELSE 0)
      BY <3>1, SubSeqProperties
    <3> HIDE DEF list
    <3> QED
      BY <2>2, <3>2 DEF allowed
  <2>4. rest \in Seq(Cells)
    <3>1. n + 2 \in Int /\ Len(data) \in Int
      BY <1>2, <2>2
    <3>2. \A i \in n + 2..Len(data) : data[i] \in Cells
      BY <1>2, <2>2, ElementOfSeq
    <3> QED
      BY <3>1, <3>2, SubSeqProperties
  <2> HIDE DEF list, rest
  <2>5. r.value = list /\ r.rest = rest
    BY <2>1 DEF Result, list, rest
  <2> QED
    BY <1>3, <2>1, <2>3, <2>4, <2>5 DEF PlainValue
<1>4. CASE k.is = "cell"
  BY <1>1, <1>2, <1>4 DEF ReadPlain, PlainValue, Result
<1>5. CASE k.is = "flag"
  BY <1>1, <1>2, <1>5 DEF ReadPlain, PlainValue, Result
<1> QED
  BY <1>3, <1>4, <1>5 DEF Accepts

ReadValues(deep, f, r) ==
  /\ r.rest \in Seq(Cells)
  /\ r.value = [name \in {f[i][1] : i \in DOMAIN f} |-> r.value[name]]
  /\ \A i \in DOMAIN f : IF deep THEN KindValue(f[i][2], r.value[f[i][1]])
                                 ELSE PlainValue(f[i][2], r.value[f[i][1]])

LEMMA FieldsReadValues ==
  ASSUME NEW deep \in BOOLEAN, NEW f, AreFields(f), ApartIn(f),
         \A n \in 1..Len(f) : ReadsValues(deep, f[n][2]),
         NEW data \in Seq(Cells), NEW r \in FieldsAt(deep, f, data)
  PROVE  ReadValues(deep, f, r)
<1> DEFINE N == Len(f)
           Valued(i, value) == IF deep THEN KindValue(f[i][2], value[f[i][1]])
                                       ELSE PlainValue(f[i][2], value[f[i][1]])
           Good(k, b) == /\ b.rest \in Seq(Cells)
                         /\ b.value = [name \in NamesUpTo(f, k) |-> b.value[name]]
                         /\ \A i \in 1..k : Valued(i, b.value)
<1>1. N \in Nat /\ DOMAIN f = 1..N
  BY DEF AreFields
<1>2. PICK up : UpTo(up, deep, f, data) /\ FieldsAt(deep, f, data) = up[N]
  BY <1>1, TurnsSteps
<1> DEFINE Done == {k \in Nat : k <= N => \A b \in up[k] : Good(k, b)}
<1>3. 0 \in Done
  <2>1. up[0] = {Result(<< >>, data)}
    BY <1>2 DEF UpTo
  <2>2. NamesUpTo(f, 0) = {} /\ \A i \in 1..0 : FALSE
    BY DEF NamesUpTo
  <2>3. \A x : << >> = [name \in {} |-> x[name]]
    OBVIOUS
  <2>4. Result(<< >>, data).rest = data /\ Result(<< >>, data).value = << >>
    BY DEF Result
  <2> HIDE DEF Valued
  <2>5. Good(0, Result(<< >>, data))
    BY <2>2, <2>3, <2>4
  <2> QED
    BY <2>1, <2>5
<1>4. ASSUME NEW k \in Nat, k \in Done, k + 1 <= N, NEW c \in up[k + 1]
      PROVE  Good(k + 1, c)
  <2> DEFINE name == f[k + 1][1]
  <2>1. k + 1 \in 1..N /\ (k + 1) - 1 = k /\ k <= N
    BY <1>1, <1>4
  <2>2. up[k + 1] = OneMore(deep, f, k + 1, up[k])
    <3>1. up[k + 1] = OneMore(deep, f, k + 1, up[(k + 1) - 1])
      BY <1>2, <2>1 DEF UpTo
    <3> QED
      BY <2>1, <3>1
  <2>3. PICK b \in up[k] : \E next \in ReadAt(deep, f[k + 1][2], b.rest) :
                c = Result(With(b.value, name, next.value), next.rest)
    BY <1>4, <2>2 DEF OneMore
  <2>4. PICK next \in ReadAt(deep, f[k + 1][2], b.rest) :
                c = Result(With(b.value, name, next.value), next.rest)
    BY <2>3
  <2>5. Good(k, b)
    <3> HIDE DEF Good
    <3> QED
      BY <1>4, <2>1, <2>3
  <2>6. /\ next.rest \in Seq(Cells)
        /\ IF deep THEN KindValue(f[k + 1][2], next.value) ELSE PlainValue(f[k + 1][2], next.value)
    BY <2>1, <2>4, <2>5 DEF ReadsValues
  <2> DEFINE value == With(b.value, name, next.value)
  <2>7. c.value = value /\ c.rest = next.rest
    BY <2>4 DEF Result
  <2>8. NamesUpTo(f, k + 1) = NamesUpTo(f, k) \cup {name}
    <3>1. 1..k + 1 = 1..k \cup {k + 1}
      OBVIOUS
    <3> QED
      BY <3>1 DEF NamesUpTo
  <2> HIDE DEF name
  <2>9. DOMAIN b.value = NamesUpTo(f, k)
    BY <2>5
  <2>10. value = [n \in NamesUpTo(f, k + 1) |-> IF n = name THEN next.value ELSE b.value[n]]
    BY <2>8, <2>9 DEF With
  <2> HIDE DEF value
  <2>11. /\ value = [n \in NamesUpTo(f, k + 1) |-> value[n]]
         /\ \A n \in NamesUpTo(f, k + 1) : value[n] = IF n = name THEN next.value ELSE b.value[n]
    BY <2>10
  <2>12. ASSUME NEW i \in 1..k + 1
         PROVE  Valued(i, value)
    <3>1. f[i][1] \in NamesUpTo(f, k + 1)
      BY DEF NamesUpTo
    <3>2. CASE i = k + 1
      <4>1. value[f[i][1]] = next.value
        BY <2>11, <3>1, <3>2 DEF name
      <4> QED
        BY <2>6, <3>2, <4>1
    <3>3. CASE i # k + 1
      <4>1. i \in 1..k /\ i \in 1..N /\ f[i][1] # name
        BY <1>1, <2>1, <3>3 DEF ApartIn, name
      <4>2. value[f[i][1]] = b.value[f[i][1]]
        BY <2>11, <3>1, <4>1
      <4>3. Valued(i, b.value)
        BY <2>5, <4>1
      <4> QED
        BY <4>2, <4>3
    <3> QED
      BY <3>2, <3>3
  <2> HIDE DEF Valued
  <2> QED
    BY <2>6, <2>7, <2>11, <2>12
<1>5. \A k \in Nat : k \in Done => k + 1 \in Done
  <2> HIDE DEF Good
  <2> QED
    BY <1>4
<1>6. N \in Done
  <2> HIDE DEF Done, N
  <2> QED
    BY <1>1, <1>3, <1>5, NatSetInduction
<1>7. Good(N, r)
  <2> HIDE DEF Good
  <2> QED
    BY <1>1, <1>2, <1>6
<1> QED
  BY <1>1, <1>7 DEF NamesUpTo, ReadValues

LEMMA KindReadsValues ==
  ASSUME NEW k, NEW l, AcceptsKind(l, k)
  PROVE  ReadsValues(TRUE, k)
<1> SUFFICES ASSUME NEW data \in Seq(Cells), NEW r \in ReadKind(k, data)
             PROVE  r.rest \in Seq(Cells) /\ KindValue(k, r.value)
  BY DEF ReadsValues, ReadAt
<1>1. CASE Accepts(l, k)
  <2>1. k.is # "option"
    BY <1>1 DEF Accepts
  <2> QED
    BY <1>1, <2>1, PlainReadsValues DEF ReadKind, KindValue, ReadsValues, ReadAt
<1>2. CASE k.is = "option" /\ l.is = "option" /\ l.strict /\ AcceptsAll(l.fields, k.fields)
  <2>1. r \in ReadOption(k, data)
    BY <1>2 DEF ReadKind
  <2>2. CASE data # << >> /\ Head(data) = 1
    <3> DEFINE f == k.fields
    <3>1. PICK s \in FieldsInTurn(ReadPlain, f, Tail(data)) : r = Result(<<s.value>>, s.rest)
      BY <2>1, <2>2 DEF ReadOption
    <3>2. s \in FieldsAt(FALSE, f, Tail(data)) /\ Tail(data) \in Seq(Cells)
      BY <2>2, <3>1, HeadTailProperties DEF FieldsAt
    <3>3. AreFields(f) /\ ApartIn(f) /\ \A n \in 1..Len(f) : ReadsValues(FALSE, f[n][2])
      BY <1>2, PlainReadsValues DEF AcceptsAll
    <3> HIDE DEF f
    <3>4. /\ s.rest \in Seq(Cells)
          /\ s.value = [name \in {f[i][1] : i \in DOMAIN f} |-> s.value[name]]
          /\ \A i \in DOMAIN f : PlainValue(f[i][2], s.value[f[i][1]])
      <4>1. ReadValues(FALSE, f, s)
        BY <3>2, <3>3, FieldsReadValues
      <4> QED
        BY <4>1 DEF ReadValues
    <3>5. FieldValues(PlainValue, f, s.value)
      BY <3>4 DEF FieldValues
    <3>6. r.value = <<s.value>> /\ r.rest = s.rest /\ r.value[1] = s.value
      BY <3>1 DEF Result
    <3> QED
      BY <1>2, <3>4, <3>5, <3>6 DEF KindValue, f
  <2>3. CASE data # << >> /\ Head(data) # 1
    <3>1. r = Result(<< >>, Tail(data)) /\ Tail(data) \in Seq(Cells)
      BY <2>1, <2>3, HeadTailProperties DEF ReadOption
    <3> QED
      BY <1>2, <3>1 DEF KindValue, Result
  <2>4. CASE data = << >>
    <3>1. r = Result(<< >>, data)
      BY <2>1, <2>4 DEF ReadOption
    <3> QED
      BY <1>2, <3>1 DEF KindValue, Result
  <2> QED
    BY <2>2, <2>3, <2>4
<1> QED
  BY <1>1, <1>2 DEF AcceptsKind

LEMMA DescriptionReadsValues ==
  ASSUME NEW d, NEW e, AcceptsFields(e.fields, d.fields),
         NEW data \in Seq(Cells), NEW v \in Read(d, data)
  PROVE  IsValueOf(d.fields, v)
<1> DEFINE f == d.fields
<1>1. PICK r \in ReadFields(f, data) : v = r.value
  BY DEF Read
<1>2. r \in FieldsAt(TRUE, f, data)
  BY <1>1 DEF FieldsAt
<1>3. AreFields(f) /\ ApartIn(f) /\ \A n \in 1..Len(f) : ReadsValues(TRUE, f[n][2])
  BY KindReadsValues DEF AcceptsFields
<1> HIDE DEF f
<1>4. /\ r.value = [name \in {f[i][1] : i \in DOMAIN f} |-> r.value[name]]
      /\ \A i \in DOMAIN f : KindValue(f[i][2], r.value[f[i][1]])
  <2>1. ReadValues(TRUE, f, r)
    BY <1>2, <1>3, FieldsReadValues
  <2> QED
    BY <2>1 DEF ReadValues
<1> QED
  BY <1>1, <1>4 DEF IsValueOf, FieldValues, f

-----------------------------------------------------------------------------
(* Each of the client's types accepts what its counterpart in the program    *)
(* does, field by field.                                                     *)
LEMMA SomeCells ==
  /\ {0} \subseteq Cells /\ {1} \subseteq Cells /\ {2} \subseteq Cells /\ {4} \subseteq Cells
  /\ {0, 1} \subseteq Cells /\ {1, 2} \subseteq Cells /\ Cells \ {0} \subseteq Cells
  /\ Discriminants \subseteq Cells /\ 1..MaxPrograms \subseteq Cells
  /\ 1..MaxNodes \subseteq Cells /\ 0..MaxVerifyLen \subseteq Cells
BY CellsAssumption

LEMMA CellAccepted ==
  ASSUME NEW A, A \subseteq Cells
  PROVE  AcceptsKind(AnyCell, CellIn(A))
BY DEF AcceptsKind, Accepts, AnyCell, CellIn

LEMMA ListAccepted ==
  ASSUME NEW L, L \subseteq Cells, NEW A, A \subseteq Cells
  PROVE  Accepts(AnyList, ListOf(L, A)) /\ AcceptsKind(AnyList, ListOf(L, A))
BY DEF AcceptsKind, Accepts, AnyList, ListOf

LEMMA SomeAccepted ==
  /\ AcceptsKind(Boolean, Boolean) /\ AcceptsKind(Boolean, Flag)
  /\ AcceptsKind(AnyCell, AnyCell) /\ AcceptsKind(AnyCell, NonZero)
  /\ AcceptsKind(AnyList, AnyList) /\ Accepts(AnyList, AnyList)
<1>1. AcceptsKind(Boolean, Boolean) /\ AcceptsKind(Boolean, Flag)
  BY SomeCells DEF AcceptsKind, Accepts, Boolean, Flag, CellIn
<1>2. AcceptsKind(AnyCell, AnyCell) /\ AcceptsKind(AnyCell, NonZero)
  BY CellAccepted DEF AnyCell, NonZero
<1> QED
  BY <1>1, <1>2, ListAccepted DEF AnyList

LEMMA MerkleProofAccepted ==
  AcceptsKind(Optional(<<<<"nodes", AnyList>>>>), MerkleProof[2])
<1> DEFINE f == <<<<"nodes", BoundedNodes>>>>
           g == <<<<"nodes", AnyList>>>>
<1>1. Accepts(AnyList, BoundedNodes)
  BY SomeCells, ListAccepted DEF BoundedNodes
<1>2. Len(f) = 1 /\ Len(g) = 1 /\ f[1] = <<"nodes", BoundedNodes>> /\ g[1] = <<"nodes", AnyList>>
  OBVIOUS
<1>3. MerkleProof[2] = Optional(f)
  BY DEF MerkleProof
<1> HIDE DEF f, g
<1>4. AcceptsAll(g, f)
  BY <1>1, <1>2 DEF AcceptsAll, AreFields, ApartIn
<1>5. AcceptsKind(Optional(g), Optional(f))
  BY <1>4 DEF AcceptsKind, Optional
<1> QED
  BY <1>3, <1>5 DEF g

LEMMA UpdateMetadataFields == AcceptsFields(ClientUpdateMetadataArgs, UpdateMetadataArgs.fields)
BY SomeAccepted, SomeCells
DEF AcceptsFields, AreFields, ApartIn, Exact, Open, UpdateMetadataArgs, ClientUpdateMetadataArgs,
    TokenMetadataArgs, ClientTokenMetadataArgs

LEMMA InitializeVerificationConfigFields ==
  AcceptsFields(ClientInitializeVerificationConfigArgs, InitializeVerificationConfigArgs.fields)
<1> DEFINE lists == ListOf(1..MaxPrograms, Cells \ {0})
<1>1. AcceptsKind(AnyList, lists)
  BY SomeCells, ListAccepted
<1>2. InitializeVerificationConfigArgs.fields =
        <<<<"instruction_discriminator", AnyCell>>, <<"cpi_mode", Flag>>,
          <<"program_addresses", lists>>>>
  BY DEF InitializeVerificationConfigArgs, Open
<1> HIDE DEF lists
<1> QED
  BY <1>1, <1>2, SomeAccepted
  DEF AcceptsFields, AreFields, ApartIn, ClientInitializeVerificationConfigArgs

LEMMA UpdateVerificationConfigFields ==
  AcceptsFields(ClientUpdateVerificationConfigArgs, UpdateVerificationConfigArgs.fields)
BY SomeAccepted, SomeCells, ListAccepted
DEF AcceptsFields, AreFields, ApartIn, Exact, Open, UpdateVerificationConfigArgs,
    ClientUpdateVerificationConfigArgs

LEMMA TrimVerificationConfigFields ==
  AcceptsFields(ClientTrimVerificationConfigArgs, TrimVerificationConfigArgs.fields)
BY SomeAccepted, SomeCells
DEF AcceptsFields, AreFields, ApartIn, Exact, Open, TrimVerificationConfigArgs,
    ClientTrimVerificationConfigArgs

LEMMA VerifyFields == AcceptsFields(ClientVerifyArgs, VerifyArgs.fields)
<1> DEFINE lists == ListOf(0..MaxVerifyLen, Cells)
           cells == CellIn(Discriminants)
<1>1. AcceptsKind(AnyList, lists) /\ AcceptsKind(AnyCell, cells)
  BY SomeCells, ListAccepted, CellAccepted
<1>2. VerifyArgs.fields = <<<<"ix", cells>>, <<"instruction_data", lists>>>>
  BY DEF VerifyArgs, Open
<1> HIDE DEF lists, cells
<1> QED
  BY <1>1, <1>2 DEF AcceptsFields, AreFields, ApartIn, ClientVerifyArgs

LEMMA MintFields == AcceptsFields(VerifyAmount.fields, ProcessAmount.fields)
BY SomeAccepted, SomeCells
DEF AcceptsFields, AreFields, ApartIn, Exact, Open, ProcessAmount, VerifyAmount

LEMMA CloseRateAccountFields == AcceptsFields(ClientCloseRateArgs, CloseRateArgs.fields)
BY SomeAccepted, SomeCells
DEF AcceptsFields, AreFields, ApartIn, Exact, Open, CloseRateArgs, ClientCloseRateArgs, ActionId

LEMMA SplitFields == AcceptsFields(ClientSplitArgs, SplitArgs.fields)
BY SomeAccepted, SomeCells
DEF AcceptsFields, AreFields, ApartIn, Exact, Open, SplitArgs, ClientSplitArgs, ActionId

LEMMA ConvertFields == AcceptsFields(ClientConvertArgs, ConvertArgs.fields)
BY SomeAccepted, SomeCells
DEF AcceptsFields, AreFields, ApartIn, Exact, Open, ConvertArgs, ClientConvertArgs, ActionId

LEMMA CreateProofAccountFields == AcceptsFields(ClientCreateProofArgs, CreateProofArgs.fields)
BY SomeAccepted, SomeCells, ListAccepted
DEF AcceptsFields, AreFields, ApartIn, Exact, Open, CreateProofArgs, ClientCreateProofArgs,
    ActionId, Nodes

LEMMA UpdateProofAccountFields == AcceptsFields(ClientUpdateProofArgs, UpdateProofArgs.fields)
BY SomeAccepted, SomeCells
DEF AcceptsFields, AreFields, ApartIn, Exact, Open, UpdateProofArgs, ClientUpdateProofArgs,
    ActionId

LEMMA CreateDistributionEscrowFields ==
  AcceptsFields(ClientCreateDistributionEscrowArgs, CreateDistributionEscrowArgs.fields)
BY SomeAccepted, SomeCells
DEF AcceptsFields, AreFields, ApartIn, Exact, Open, CreateDistributionEscrowArgs,
    ClientCreateDistributionEscrowArgs, ActionId

LEMMA ClaimDistributionFields ==
  AcceptsFields(ClientClaimDistributionArgs, ClaimDistributionArgs.fields)
<1>1. MerkleProof = <<"merkle_proof", MerkleProof[2]>>
  BY DEF MerkleProof
<1> QED
  BY <1>1, SomeAccepted, MerkleProofAccepted
  DEF AcceptsFields, AreFields, ApartIn, Exact, Open, ClaimDistributionArgs,
      ClientClaimDistributionArgs, ActionId

LEMMA CloseActionReceiptAccountFields ==
  AcceptsFields(ClientCloseActionReceiptArgs, CloseActionReceiptArgs.fields)
BY SomeAccepted, SomeCells
DEF AcceptsFields, AreFields, ApartIn, Exact, Open, CloseActionReceiptArgs,
    ClientCloseActionReceiptArgs, ActionId

LEMMA CloseClaimReceiptAccountFields ==
  AcceptsFields(ClientCloseClaimReceiptArgs, CloseClaimReceiptArgs.fields)
<1>1. MerkleProof = <<"merkle_proof", MerkleProof[2]>>
  BY DEF MerkleProof
<1> QED
  BY <1>1, SomeAccepted, MerkleProofAccepted
  DEF AcceptsFields, AreFields, ApartIn, Exact, Open, CloseClaimReceiptArgs,
      ClientCloseClaimReceiptArgs, ActionId

LEMMA UpdateDefaultAccountStateFields ==
  AcceptsFields(ClientUpdateDefaultAccountStateArgs, UpdateDefaultAccountStateArgs.fields)
BY SomeAccepted, SomeCells, CellAccepted
DEF AcceptsFields, AreFields, ApartIn, Exact, Open, UpdateDefaultAccountStateArgs,
    ClientUpdateDefaultAccountStateArgs, AccountState

LEMMA MintAuthorityFields == AcceptsFields(ClientMintAuthority, MintAuthority.fields)
BY SomeAccepted, SomeCells, CellAccepted
DEF AcceptsFields, AreFields, ApartIn, Exact, Open, MintAuthority, ClientMintAuthority

LEMMA VerificationConfigFields == AcceptsFields(ClientVerificationConfig, VerificationConfig.fields)
BY SomeAccepted, SomeCells, CellAccepted, ListAccepted
DEF AcceptsFields, AreFields, ApartIn, Exact, Open, VerificationConfig, ClientVerificationConfig

LEMMA RateFields == AcceptsFields(ClientRate, Rate.fields)
BY SomeAccepted, SomeCells, CellAccepted
DEF AcceptsFields, AreFields, ApartIn, Exact, Open, Rate, ClientRate

LEMMA ProofFields == AcceptsFields(ClientProof, Proof.fields)
BY SomeAccepted, SomeCells, CellAccepted, ListAccepted
DEF AcceptsFields, AreFields, ApartIn, Exact, Open, Proof, ClientProof, Nodes

LEMMA OneAndThree ==
  ASSUME NEW a, NEW b, NEW c, NEW d
  PROVE  <<a>> \o <<b, c, d>> = <<a, b, c, d>>
<1> DEFINE S == {a, b, c, d}
           s == <<a>>
           t == <<b, c, d>>
           all == <<a, b, c, d>>
<1>1. s \in Seq(S) /\ Len(s) = 1 /\ s[1] = a
  OBVIOUS
<1>2. t \in Seq(S) /\ Len(t) = 3 /\ t[1] = b /\ t[2] = c /\ t[3] = d
  OBVIOUS
<1>3. all \in Seq(S) /\ Len(all) = 4 /\ all[1] = a /\ all[2] = b /\ all[3] = c /\ all[4] = d
  OBVIOUS
<1> HIDE DEF s, t, all, S
<1>4. /\ s \o t \in Seq(S) /\ Len(s \o t) = Len(s) + Len(t)
      /\ \A i \in 1..Len(s) + Len(t) : (s \o t)[i] = IF i <= Len(s) THEN s[i] ELSE t[i - Len(s)]
  BY <1>1, <1>2, ConcatProperties
<1>5. Len(s \o t) = 4 /\ \A i \in 1..4 : (s \o t)[i] = all[i]
  <2>1. Len(s \o t) = 4 /\ \A i \in 1..4 : (s \o t)[i] = IF i <= 1 THEN s[i] ELSE t[i - 1]
    BY <1>1, <1>2, <1>4
  <2>2. ASSUME NEW i \in 1..4
        PROVE  (s \o t)[i] = all[i]
    <3>1. i = 1 \/ i = 2 \/ i = 3 \/ i = 4
      OBVIOUS
    <3> QED
      BY <1>1, <1>2, <1>3, <2>1, <3>1
  <2> QED
    BY <2>1, <2>2
<1>6. s \o t = all
  BY <1>3, <1>4, <1>5, SeqEqual
<1> QED
  BY <1>6 DEF s, t, all

LEMMA ThreeAndFour ==
  ASSUME NEW a, NEW b, NEW c, NEW d, NEW e, NEW f, NEW g
  PROVE  <<a, b, c>> \o <<d, e, f, g>> = <<a, b, c, d, e, f, g>>
<1> DEFINE S == {a, b, c, d, e, f, g}
           s == <<a, b, c>>
           t == <<d, e, f, g>>
           all == <<a, b, c, d, e, f, g>>
<1>1. s \in Seq(S) /\ Len(s) = 3 /\ s[1] = a /\ s[2] = b /\ s[3] = c
  OBVIOUS
<1>2. t \in Seq(S) /\ Len(t) = 4 /\ t[1] = d /\ t[2] = e /\ t[3] = f /\ t[4] = g
  OBVIOUS
<1>3. /\ all \in Seq(S) /\ Len(all) = 7 /\ all[1] = a /\ all[2] = b /\ all[3] = c
      /\ all[4] = d /\ all[5] = e /\ all[6] = f /\ all[7] = g
  OBVIOUS
<1> HIDE DEF s, t, all, S
<1>4. /\ s \o t \in Seq(S) /\ Len(s \o t) = Len(s) + Len(t)
      /\ \A i \in 1..Len(s) + Len(t) : (s \o t)[i] = IF i <= Len(s) THEN s[i] ELSE t[i - Len(s)]
  BY <1>1, <1>2, ConcatProperties
<1>5. Len(s \o t) = 7 /\ \A i \in 1..7 : (s \o t)[i] = all[i]
  <2>1. Len(s \o t) = 7 /\ \A i \in 1..7 : (s \o t)[i] = IF i <= 3 THEN s[i] ELSE t[i - 3]
    BY <1>1, <1>2, <1>4
  <2>2. ASSUME NEW i \in 1..7
        PROVE  (s \o t)[i] = all[i]
    <3>1. i = 1 \/ i = 2 \/ i = 3 \/ i = 4 \/ i = 5 \/ i = 6 \/ i = 7
      OBVIOUS
    <3> QED
      BY <1>1, <1>2, <1>3, <2>1, <3>1
  <2> QED
    BY <2>1, <2>2
<1>6. s \o t = all
  BY <1>3, <1>4, <1>5, SeqEqual
<1> QED
  BY <1>6 DEF s, t, all

LEMMA RateArgsFields ==
  AcceptsFields(<<<<"action_id", AnyCell>>>> \o ClientRateConfig, ActionAndRateArgs.fields)
<1> DEFINE f == <<<<"action_id", NonZero>>, <<"rounding", Boolean>>, <<"numerator", NonZero>>,
                  <<"denominator", NonZero>>>>
           g == <<<<"action_id", AnyCell>>, <<"rounding", AnyCell>>, <<"numerator", AnyCell>>,
                  <<"denominator", AnyCell>>>>
<1>1. ActionAndRateArgs.fields = f
  BY OneAndThree DEF ActionAndRateArgs, Exact, RateConfig, ActionId
<1>2. <<<<"action_id", AnyCell>>>> \o ClientRateConfig = g
  BY OneAndThree DEF ClientRateConfig
<1>3. AcceptsKind(AnyCell, Boolean) /\ AcceptsKind(AnyCell, NonZero)
  BY SomeCells, CellAccepted, SomeAccepted DEF Boolean
<1>4. AcceptsFields(g, f)
  BY <1>3 DEF AcceptsFields, AreFields, ApartIn
<1> HIDE DEF f, g
<1> QED
  BY <1>1, <1>2, <1>4

LEMMA CreateRateAccountFields == AcceptsFields(ClientCreateRateArgs, CreateRateArgs.fields)
BY RateArgsFields DEF ClientCreateRateArgs, CreateRateArgs

LEMMA UpdateRateAccountFields == AcceptsFields(ClientUpdateRateArgs, UpdateRateArgs.fields)
BY RateArgsFields DEF ClientUpdateRateArgs, UpdateRateArgs

LEMMA OptionAccepted ==
  ASSUME NEW f, NEW g, AcceptsAll(g, f)
  PROVE  AcceptsKind(Optional(g), Optional(f)) /\ AcceptsKind(Optional(g), LooseOptional(f))
BY DEF AcceptsKind, Optional, LooseOptional

LEMMA InitializeMintFields == AcceptsFields(ClientInitializeMintArgs, InitializeMintArgs.fields)
<1> DEFINE k1 == LooseOptional(MetadataPointerArgs)
           k2 == LooseOptional(TokenMetadataArgs)
           k3 == LooseOptional(ScaledUiAmountConfigArgs)
           k4 == LooseOptional(<<<<"state", AccountState>>>>)
           l1 == Optional(ClientMetadataPointerArgs)
           l2 == Optional(ClientTokenMetadataArgs)
           l3 == Optional(ClientScaledUiAmountConfigArgs)
           l4 == Optional(<<<<"state", AnyCell>>>>)
<1>1. Accepts(AnyCell, AnyCell) /\ Accepts(AnyList, AnyList) /\ Accepts(AnyCell, AccountState)
  BY SomeCells DEF Accepts, AnyCell, AnyList, AccountState, CellIn, ListOf
<1>2. AcceptsKind(l1, k1)
  <2>1. AcceptsAll(ClientMetadataPointerArgs, MetadataPointerArgs)
    BY <1>1 DEF AcceptsAll, AreFields, ApartIn, ClientMetadataPointerArgs, MetadataPointerArgs
  <2> QED
    BY <2>1, OptionAccepted
<1>3. AcceptsKind(l2, k2)
  <2>1. AcceptsAll(ClientTokenMetadataArgs, TokenMetadataArgs)
    BY <1>1 DEF AcceptsAll, AreFields, ApartIn, ClientTokenMetadataArgs, TokenMetadataArgs
  <2> QED
    BY <2>1, OptionAccepted
<1>4. AcceptsKind(l3, k3)
  <2>1. AcceptsAll(ClientScaledUiAmountConfigArgs, ScaledUiAmountConfigArgs)
    BY <1>1
    DEF AcceptsAll, AreFields, ApartIn, ClientScaledUiAmountConfigArgs, ScaledUiAmountConfigArgs
  <2> QED
    BY <2>1, OptionAccepted
<1>5. AcceptsKind(l4, k4)
  <2>1. AcceptsAll(<<<<"state", AnyCell>>>>, <<<<"state", AccountState>>>>)
    BY <1>1 DEF AcceptsAll, AreFields, ApartIn
  <2> QED
    BY <2>1, OptionAccepted
<1> HIDE DEF k1, k2, k3, k4, l1, l2, l3, l4
<1>6. InitializeMintArgs.fields =
        <<<<"decimals", AnyCell>>, <<"mint_authority", AnyCell>>, <<"freeze_authority", AnyCell>>,
          <<"ix_metadata_pointer", k1>>, <<"ix_metadata", k2>>, <<"ix_scaled_ui_amount", k3>>,
          <<"ix_default_account_state", k4>>>>
  <2>1. InitializeMintArgs.fields =
          MintArgs \o <<<<"ix_metadata_pointer", k1>>, <<"ix_metadata", k2>>,
                       <<"ix_scaled_ui_amount", k3>>, <<"ix_default_account_state", k4>>>>
    BY DEF InitializeMintArgs, Open, k1, k2, k3, k4
  <2> QED
    BY <2>1, ThreeAndFour DEF MintArgs
<1>7. ClientInitializeMintArgs =
        <<<<"decimals", AnyCell>>, <<"mint_authority", AnyCell>>, <<"freeze_authority", AnyCell>>,
          <<"ix_metadata_pointer", l1>>, <<"ix_metadata", l2>>, <<"ix_scaled_ui_amount", l3>>,
          <<"ix_default_account_state", l4>>>>
  <2>1. ClientInitializeMintArgs =
          ClientMintArgs \o <<<<"ix_metadata_pointer", l1>>, <<"ix_metadata", l2>>,
                       <<"ix_scaled_ui_amount", l3>>, <<"ix_default_account_state", l4>>>>
    BY DEF ClientInitializeMintArgs, l1, l2, l3, l4
  <2> QED
    BY <2>1, ThreeAndFour DEF ClientMintArgs
<1>8. AcceptsKind(AnyCell, AnyCell)
  BY SomeAccepted
<1> QED
  BY <1>2, <1>3, <1>4, <1>5, <1>6, <1>7, <1>8 DEF AcceptsFields, AreFields, ApartIn

LEMMA FieldsAccepted ==
  ASSUME NEW op \in DOMAIN ClientReads
  PROVE  AcceptsFields(ClientReads[op].fields, FieldsOf(op))
BY InitializeMintFields, UpdateMetadataFields, InitializeVerificationConfigFields,
   UpdateVerificationConfigFields, TrimVerificationConfigFields, VerifyFields,
   MintFields, CloseRateAccountFields, SplitFields,
   ConvertFields, CreateProofAccountFields, UpdateProofAccountFields,
   CreateDistributionEscrowFields, ClaimDistributionFields, CloseActionReceiptAccountFields,
   CloseClaimReceiptAccountFields, UpdateDefaultAccountStateFields, MintAuthorityFields,
   VerificationConfigFields, RateFields, ProofFields,
   CreateRateAccountFields, UpdateRateAccountFields
DEF ClientReads, FieldsOf, ProgramStores, ProgramReads, Exact, Open

-----------------------------------------------------------------------------
(* The program's description of a message *)
DescriptionOf(op) == IF op \in DOMAIN ProgramStores THEN ProgramStores[op] ELSE ProgramReads[op]

LEMMA ProgramDescription ==
  ASSUME NEW op \in DOMAIN ClientReads
  PROVE  /\ AcceptsFields(ClientReads[op].fields, DescriptionOf(op).fields)
         /\ FieldsOf(op) = DescriptionOf(op).fields
         /\ \A data : ReadByProgram(op, data) \subseteq Read(DescriptionOf(op), data)
         /\ \A data : \A v \in Read(DescriptionOf(op), data) :
              Valid(op, v) => v \in ReadByProgram(op, data)
<1>1. FieldsOf(op) = DescriptionOf(op).fields
  BY DEF FieldsOf, DescriptionOf
<1>2. ASSUME NEW data
      PROVE  ReadByProgram(op, data) \subseteq Read(DescriptionOf(op), data)
  BY DEF ReadByProgram, DescriptionOf
<1>3. ASSUME NEW data, NEW v \in Read(DescriptionOf(op), data), Valid(op, v)
      PROVE  v \in ReadByProgram(op, data)
  BY <1>3 DEF ReadByProgram, DescriptionOf
<1> QED
  BY <1>1, <1>2, <1>3, FieldsAccepted

LEMMA MessageMeansOne ==
  ASSUME NEW op \in DOMAIN ClientReads, NEW data,
         NEW acted \in ReadByProgram(op, data), NEW judged \in ReadByClient(op, data)
  PROVE  acted = judged
<1>1. acted \in Read(DescriptionOf(op), data) /\ judged \in Read(ClientReads[op], data)
  BY ProgramDescription DEF ReadByClient
<1>2. AcceptsFields(ClientReads[op].fields, DescriptionOf(op).fields)
  BY ProgramDescription
<1> QED
  BY <1>1, <1>2, DescriptionsMeanOne

LEMMA MessageReadsBack ==
  ASSUME NEW op \in DOMAIN ClientReads, NEW v,
         IsValueOf(FieldsOf(op), v), Valid(op, v)
  PROVE  /\ Written(op, v) \in Seq(Cells)
         /\ ReadByProgram(op, Written(op, v)) = {v}
         /\ ReadByClient(op, Written(op, v)) = {v}
<1> DEFINE d == DescriptionOf(op)
           e == ClientReads[op]
           w == IF op \in DOMAIN ProgramStores THEN d ELSE e
           W == Write(w.fields, v)
<1>1. Written(op, v) = W
  BY ProgramDescription DEF Written
<1>2. AcceptsFields(e.fields, d.fields) /\ IsValueOf(d.fields, v)
  BY ProgramDescription
<1>3. w \in {d, e} /\ d \in {d, e} /\ e \in {d, e}
  OBVIOUS
<1> HIDE DEF w, d, e
<1>4. W \in Seq(Cells) /\ Read(d, W) = {v} /\ Read(e, W) = {v}
  <2>1. Exchanged(d, e, v)
    BY <1>2, DescriptionReadsBack
  <2> QED
    BY <1>3, <2>1 DEF Exchanged
<1> HIDE DEF W
<1>5. ReadByProgram(op, W) \subseteq Read(d, W) /\ v \in ReadByProgram(op, W)
  BY <1>4, ProgramDescription DEF d
<1>6. ReadByClient(op, W) = Read(e, W)
  BY DEF ReadByClient, e
<1> QED
  BY <1>1, <1>4, <1>5, <1>6

(* A message is cells, and what the client wrote until somebody edits it.    *)
Unedited(m) ==
  /\ m.data = Written(m.op, m.value)
  /\ IsValueOf(FieldsOf(m.op), m.value) /\ Valid(m.op, m.value)

DataType ==
  /\ wire = [op |-> wire.op, value |-> wire.value, data |-> wire.data, edits |-> wire.edits]
  /\ wire.op \in DOMAIN ClientReads /\ wire.data \in Seq(Cells) /\ wire.edits \in Nat
  /\ wire.edits = 0 => Unedited(wire)

LEMMA DataInit == InitData => DataType
<1> SUFFICES ASSUME InitData PROVE DataType
  OBVIOUS
<1>1. PICK op \in DOMAIN ClientReads : \E value \in Values(FieldsOf(op)) :
             /\ Valid(op, value)
             /\ wire = [op |-> op, value |-> value, data |-> Written(op, value), edits |-> 0]
  BY DEF InitData
<1>2. PICK value \in Values(FieldsOf(op)) :
             /\ Valid(op, value)
             /\ wire = [op |-> op, value |-> value, data |-> Written(op, value), edits |-> 0]
  BY <1>1
<1>3. IsValueOf(FieldsOf(op), value)
  BY <1>2, ValuesAssumption
<1>4. Written(op, value) \in Seq(Cells)
  BY <1>2, <1>3, MessageReadsBack
<1>5. wire.op = op /\ wire.value = value /\ wire.data = Written(op, value) /\ wire.edits = 0
  BY <1>2
<1> QED
  BY <1>2, <1>3, <1>4, <1>5 DEF DataType, Unedited

LEMMA EditStep ==
  ASSUME DataType, NEW data \in Seq(Cells), Edited(data)
  PROVE  DataType'
<1>1. wire' = [wire EXCEPT !.data = data, !.edits = @ + 1]
  BY DEF Edited
<1>2. /\ wire' = [op |-> wire.op, value |-> wire.value, data |-> data, edits |-> wire.edits + 1]
      /\ wire.edits + 1 \in Nat /\ wire.edits + 1 # 0
  <2> DEFINE op == wire.op
             value == wire.value
             before == wire.data
             edits == wire.edits
  <2>1. wire = [op |-> op, value |-> value, data |-> before, edits |-> edits] /\ edits \in Nat
    BY DEF DataType
  <2> HIDE DEF op, value, before, edits
  <2>2. wire' = [op |-> op, value |-> value, data |-> data, edits |-> edits + 1]
    BY <1>1, <2>1
  <2> QED
    BY <2>1, <2>2 DEF op, value, edits
<1> QED
  BY <1>2 DEF DataType

LEMMA DataStep == DataType /\ [NextData]_wire => DataType'
<1> SUFFICES ASSUME DataType, [NextData]_wire PROVE DataType'
  OBVIOUS
<1>1. wire.data \in Seq(Cells) /\ Len(wire.data) \in Nat
  BY DEF DataType
<1>2. CASE CutShort
  <2>1. PICK n \in 0..Len(wire.data) - 1 : Edited(SubSeq(wire.data, 1, n))
    BY <1>2 DEF CutShort
  <2>2. SubSeq(wire.data, 1, n) \in Seq(Cells)
    <3>1. \A i \in 1..n : wire.data[i] \in Cells
      BY <1>1, ElementOfSeq
    <3>2. n \in Int /\ 1 \in Int
      BY <1>1
    <3> QED
      BY <3>1, <3>2, SubSeqProperties
  <2> QED
    BY <2>1, <2>2, EditStep
<1>3. CASE AddedTo
  <2>1. PICK c \in Cells : Edited(Append(wire.data, c))
    BY <1>3 DEF AddedTo
  <2>2. Append(wire.data, c) \in Seq(Cells)
    BY <1>1, AppendProperties
  <2> QED
    BY <2>1, <2>2, EditStep
<1>4. CASE Changed
  <2>1. PICK i \in DOMAIN wire.data, c \in Cells : Edited([wire.data EXCEPT ![i] = c])
    BY <1>4 DEF Changed
  <2>2. i \in 1..Len(wire.data)
    BY <1>1
  <2>3. [wire.data EXCEPT ![i] = c] \in Seq(Cells)
    BY <1>1, <2>2, ExceptSeq
  <2> QED
    BY <2>1, <2>3, EditStep
<1>5. CASE UNCHANGED wire
  BY <1>5 DEF DataType, Unedited
<1> QED
  BY <1>2, <1>3, <1>4, <1>5 DEF NextData

(* For any cells, lists and values: what the client writes is read by the    *)
(* program and by the verification program as it was meant, and what the     *)
(* program stores is so read by the client, in every instruction and account *)
(* (the parsers of program/src/instructions and state and the generated      *)
(* types of clients/rust).                                                   *)
THEOREM SentAlwaysRead == DataSpec => []SentIsRead
<1>1. DataType => SentIsRead
  BY MessageReadsBack DEF DataType, Unedited, SentIsRead
<1> QED
  BY DataInit, DataStep, <1>1, PTL DEF DataSpec

(* Whatever data is sent, of any length and to any instruction: what the     *)
(* program and the verification program both accept means one thing to both, *)
(* although one treats flags, ends of data and options more loosely          *)
(* (InitializeMintArgs::try_from_bytes and the other parsers written by hand,*)
(* against borsh).                                                           *)
THEOREM JudgedAlwaysActedOn == DataSpec => []JudgedIsActedOn
<1>1. DataType => JudgedIsActedOn
  BY MessageMeansOne DEF DataType, JudgedIsActedOn
<1> QED
  BY DataInit, DataStep, <1>1, PTL DEF DataSpec

(* Whatever data is sent: what the program takes from it is something that   *)
(* the client could have sent, and that both would have read so.             *)
THEOREM NothingEverUnsayable == DataSpec => []NothingUnsayable
<1>1. DataType => NothingUnsayable
  <2> SUFFICES ASSUME DataType, wire.op \in DOMAIN ProgramReads,
                      NEW acted \in ReadByProgram(wire.op, wire.data)
               PROVE  /\ ReadByClient(wire.op, Written(wire.op, acted)) = {acted}
                      /\ ReadByProgram(wire.op, Written(wire.op, acted)) = {acted}
    BY DEF NothingUnsayable
  <2>1. wire.op \in DOMAIN ClientReads /\ wire.data \in Seq(Cells)
    BY DEF DataType
  <2>2. /\ acted \in Read(DescriptionOf(wire.op), wire.data)
        /\ AcceptsFields(ClientReads[wire.op].fields, DescriptionOf(wire.op).fields)
        /\ FieldsOf(wire.op) = DescriptionOf(wire.op).fields
    BY <2>1, ProgramDescription
  <2>3. IsValueOf(FieldsOf(wire.op), acted)
    <3> DEFINE d == DescriptionOf(wire.op)
               e == ClientReads[wire.op]
    <3>1. AcceptsFields(e.fields, d.fields) /\ acted \in Read(d, wire.data)
      BY <2>2
    <3> HIDE DEF d, e
    <3>2. IsValueOf(d.fields, acted)
      BY <2>1, <3>1, DescriptionReadsValues
    <3> QED
      BY <2>2, <3>2 DEF d
  <2>4. Valid(wire.op, acted)
    <3>1. wire.op \notin DOMAIN ProgramStores
      BY DEF ProgramStores, ProgramReads
    <3> QED
      BY <3>1 DEF ReadByProgram
  <2> QED
    BY <2>1, <2>3, <2>4, MessageReadsBack
<1> QED
  BY DataInit, DataStep, <1>1, PTL DEF DataSpec
=============================================================================
