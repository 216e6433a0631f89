----------------------------- MODULE DataProofs -----------------------------
(***************************************************************************)
(* What the proofs of the components need to know of their data, and a     *)
(* prover does not know by itself: induction over the naturals and over    *)
(* finite sets, that folds and recursive functions have values, the laws   *)
(* of sums and of powers, and which proofs a Merkle tree accepts.          *)
(*                                                                         *)
(* Induction is stated for sets, not predicates: the set of the numbers    *)
(* (or subsets) that have a property is everything, because its complement *)
(* would have a least element.                                             *)
(***************************************************************************)
EXTENDS MerkleTrees, FiniteSetsExt, FiniteSetTheorems, TLAPS

LEMMA NatSetInduction ==
  ASSUME NEW T, 0 \in T, \A n \in Nat : n \in T => n + 1 \in T
  PROVE  Nat \subseteq T
<1> DEFINE R == {p \in Nat \X Nat : p[1] < p[2]}
<1>1. SUFFICES ASSUME Nat \ T # {} PROVE FALSE
  OBVIOUS
<1>2. IsWellFoundedOn(R, Nat)
  BY NatLessThanWellFounded DEF OpToRel
<1> HIDE DEF R
<1>3. PICK x \in Nat \ T : \A y \in Nat \ T : ~(<<y, x>> \in R)
  BY <1>1, <1>2, WFMin
<1>4. x # 0 /\ x - 1 \in Nat /\ x - 1 < x
  BY <1>3
<1>5. <<x - 1, x>> \in R
  BY <1>3, <1>4 DEF R
<1> QED
  BY <1>3, <1>4, <1>5

LEMMA OneLess ==
  ASSUME NEW S, IsFiniteSet(S), NEW n \in Nat, Cardinality(S) = n + 1
  PROVE  /\ S # {}
         /\ \A x \in S : IsFiniteSet(S \ {x}) /\ Cardinality(S \ {x}) = n
<1>1. Cardinality({}) = 0
  BY FS_EmptySet
<1>2. S # {}
  BY <1>1
<1>3. ASSUME NEW x \in S
      PROVE  IsFiniteSet(S \ {x}) /\ Cardinality(S \ {x}) = n
  <2>1. IsFiniteSet(S \ {x}) /\ Cardinality(S \ {x}) = Cardinality(S) - 1
    BY FS_RemoveElement
  <2> QED
    BY <2>1
<1> QED
  BY <1>2, <1>3

(* The least of a set of naturals, and the greatest if there is one. *)
LEMMA LeastOfNats ==
  ASSUME NEW S \in SUBSET Nat, S # {}
  PROVE  Min(S) \in S /\ \A y \in S : Min(S) <= y
<1> DEFINE R == {p \in Nat \X Nat : p[1] < p[2]}
<1>1. IsWellFoundedOn(R, Nat)
  BY NatLessThanWellFounded DEF OpToRel
<1>2. PICK x \in S : \A y \in S : ~(<<y, x>> \in R)
  <2> HIDE DEF R
  <2> QED
    BY <1>1, WFMin
<1>3. \A y \in S : x <= y
  <2>1. ASSUME NEW y \in S, y < x
        PROVE  FALSE
    BY <1>2, <2>1
  <2> QED
    BY <2>1
<1> QED
  BY <1>2, <1>3 DEF Min

(* From the end of an interval to its beginning. *)
LEMMA DownInduction ==
  ASSUME NEW n \in Nat, NEW Good, n \in Good,
         \A k \in 0 .. n : k > 0 /\ k \in Good => k - 1 \in Good
  PROVE  0 .. n \subseteq Good
<1> DEFINE T == {m \in Nat : m <= n => n - m \in Good}
<1>1. 0 \in T
  OBVIOUS
<1>2. ASSUME NEW m \in Nat, m \in T
      PROVE  m + 1 \in T
  <2>1. SUFFICES ASSUME m + 1 <= n
                 PROVE  n - (m + 1) \in Good
    OBVIOUS
  <2>2. n - m \in Good /\ n - m \in 0 .. n /\ n - m > 0 /\ (n - m) - 1 = n - (m + 1)
    BY <1>2, <2>1
  <2> QED
    BY <2>2
<1>3. Nat \subseteq T
  <2> HIDE DEF T
  <2> QED
    BY <1>1, <1>2, NatSetInduction
<1>4. ASSUME NEW k \in 0 .. n
      PROVE  k \in Good
  <2>1. n - k \in T /\ n - k \in Nat /\ n - k <= n /\ n - (n - k) = k
    BY <1>3
  <2> QED
    BY <2>1
<1> QED
  BY <1>4

(* The same for all subsets of a finite set, by their size. *)
LEMMA FiniteSetInduction ==
  ASSUME NEW S, IsFiniteSet(S), NEW Good, {} \in Good,
         \A T \in SUBSET S, x \in S : T \in Good /\ x \notin T => T \cup {x} \in Good
  PROVE  SUBSET S \subseteq Good
<1> DEFINE Sized == {n \in Nat : \A T \in SUBSET S : Cardinality(T) = n => T \in Good}
<1>1. \A T \in SUBSET S : IsFiniteSet(T) /\ Cardinality(T) \in Nat
  BY FS_Subset, FS_CardinalityType
<1>2. 0 \in Sized
  BY <1>1, FS_EmptySet
<1>3. ASSUME NEW n \in Nat, n \in Sized
      PROVE  n + 1 \in Sized
  <2>1. SUFFICES ASSUME NEW T \in SUBSET S, Cardinality(T) = n + 1
                 PROVE  T \in Good
    OBVIOUS
  <2>2. T # {} /\ \A x \in T : Cardinality(T \ {x}) = n
    BY <1>1, <2>1, OneLess
  <2>3. PICK x : x \in T
    BY <2>2
  <2>4. Cardinality(T \ {x}) = n
    BY <2>2, <2>3
  <2>5. T \ {x} \in Good
    BY <1>3, <2>4
  <2> QED
    BY <2>3, <2>5
<1>4. Nat \subseteq Sized
  <2> HIDE DEF Sized
  <2> QED
    BY <1>2, <1>3, NatSetInduction
<1> QED
  BY <1>1, <1>4

-----------------------------------------------------------------------------
(***************************************************************************)
(* MapThenFoldSet, under SumFunctionOnSet, FoldFunction and FoldRight, is  *)
(* the value at S of a function on the subsets of S.  Such a function      *)
(* exists, and there is one.                                               *)
(***************************************************************************)
Folds(g, pick, step, base, S) ==
  \A s \in SUBSET S :
    g[s] = IF s = {} THEN base ELSE step[<<pick[s], g[s \ {pick[s]}]>>]

Picks(pick, S) == \A s \in SUBSET S : s # {} => pick[s] \in s

LEMMA FoldExists ==
  ASSUME NEW S, IsFiniteSet(S), NEW V, NEW base \in V, NEW step \in [S \X V -> V],
         NEW pick, Picks(pick, S)
  PROVE  \E g \in [SUBSET S -> V] : Folds(g, pick, step, base, S)
<1> DEFINE Small(n) == {s \in SUBSET S : Cardinality(s) <= n}
           Value(g, s) == IF s = {} THEN base ELSE step[<<pick[s], g[s \ {pick[s]}]>>]
           Upto == {n \in Nat : \E g \in [SUBSET S -> V] : \A s \in Small(n) : g[s] = Value(g, s)}
<1>1. \A T \in SUBSET S : IsFiniteSet(T) /\ Cardinality(T) \in Nat
  BY FS_Subset, FS_CardinalityType
<1>2. \A s \in SUBSET S : s # {} =>
        /\ pick[s] \in S /\ s \ {pick[s]} \in SUBSET S
        /\ Cardinality(s \ {pick[s]}) = Cardinality(s) - 1
  BY <1>1, FS_RemoveElement DEF Picks
<1>3. 0 \in Upto
  <2>1. [s \in SUBSET S |-> base] \in [SUBSET S -> V]
    OBVIOUS
  <2>2. \A s \in Small(0) : s = {}
    BY <1>1, FS_EmptySet
  <2> QED
    BY <2>1, <2>2
<1>4. ASSUME NEW n \in Nat, n \in Upto
      PROVE  n + 1 \in Upto
  <2>1. PICK g \in [SUBSET S -> V] : \A s \in Small(n) : g[s] = Value(g, s)
    BY <1>4
  <2> DEFINE h == [s \in SUBSET S |-> Value(g, s)]
  <2>2. h \in [SUBSET S -> V]
    <3>1. ASSUME NEW s \in SUBSET S
          PROVE  Value(g, s) \in V
      <4>1. CASE s = {}
        BY <4>1
      <4>2. CASE s # {}
        BY <1>2, <2>1, <4>2
      <4> QED
        BY <4>1, <4>2
    <3> HIDE DEF Value
    <3> QED
      BY <3>1
  <2>3. ASSUME NEW s \in Small(n + 1)
        PROVE  h[s] = Value(h, s)
    <3>1. CASE s = {}
      BY <3>1
    <3>2. CASE s # {}
      <4>1. s \ {pick[s]} \in Small(n)
        BY <1>1, <1>2, <3>2
      <4>2. h[s \ {pick[s]}] = g[s \ {pick[s]}]
        BY <2>1, <4>1
      <4>3. h[s] = step[<<pick[s], g[s \ {pick[s]}]>>]
        BY <3>2
      <4> HIDE DEF h
      <4> QED
        BY <3>2, <4>2, <4>3
    <3> QED
      BY <3>1, <3>2
  <2> HIDE DEF h, Value
  <2> QED
    BY <2>2, <2>3
<1>5. Nat \subseteq Upto
  <2> HIDE DEF Upto
  <2> QED
    BY <1>3, <1>4, NatSetInduction
<1>6. PICK g \in [SUBSET S -> V] : \A s \in Small(Cardinality(S)) : g[s] = Value(g, s)
  BY <1>1, <1>5
<1>7. \A s \in SUBSET S : s \in Small(Cardinality(S))
  BY FS_Subset
<1> QED
  BY <1>6, <1>7 DEF Folds

SameSteps(g, h, pick, S) ==
  /\ g[{}] = h[{}]
  /\ \A s \in SUBSET S :
       s # {} => /\ pick[s] \in s
                 /\ g[s \ {pick[s]}] = h[s \ {pick[s]}] => g[s] = h[s]

LEMMA FoldUnique ==
  ASSUME NEW S, IsFiniteSet(S), NEW g, NEW h, NEW pick, SameSteps(g, h, pick, S)
  PROVE  \A s \in SUBSET S : g[s] = h[s]
<1> DEFINE Equal == {n \in Nat : \A s \in SUBSET S : Cardinality(s) = n => g[s] = h[s]}
<1>1. \A T \in SUBSET S : IsFiniteSet(T) /\ Cardinality(T) \in Nat
  BY FS_Subset, FS_CardinalityType
<1>2. 0 \in Equal
  BY <1>1, FS_EmptySet DEF SameSteps
<1>3. ASSUME NEW n \in Nat, n \in Equal
      PROVE  n + 1 \in Equal
  <2>1. SUFFICES ASSUME NEW s \in SUBSET S, Cardinality(s) = n + 1
                 PROVE  g[s] = h[s]
    OBVIOUS
  <2>2. s # {} /\ \A x \in s : Cardinality(s \ {x}) = n
    BY <1>1, <2>1, OneLess
  <2>3. s \ {pick[s]} \in SUBSET S /\ Cardinality(s \ {pick[s]}) = n
    BY <2>2 DEF SameSteps
  <2>4. g[s \ {pick[s]}] = h[s \ {pick[s]}]
    BY <1>3, <2>3
  <2> QED
    BY <2>2, <2>4 DEF SameSteps
<1>4. Nat \subseteq Equal
  <2> HIDE DEF Equal
  <2> QED
    BY <1>2, <1>3, NatSetInduction
<1> QED
  BY <1>1, <1>4

-----------------------------------------------------------------------------
(***************************************************************************)
(* Sums.  SumFunctionOnSet takes the elements in the order CHOOSE does;    *)
(* they may be taken in any.                                               *)
(***************************************************************************)
First(s) == CHOOSE x \in s : TRUE

SumsUp(g, f, S) ==
  \A s \in SUBSET S : g[s] = IF s = {} THEN 0 ELSE f[First(s)] + g[s \ {First(s)}]

FirstOf(S) == [s \in SUBSET S |-> First(s)]
Adding(f, S) == [p \in S \X Int |-> f[p[1]] + p[2]]

LEMMA FirstIn ==
  /\ \A s : s # {} => First(s) \in s
  /\ \A S : \A s \in SUBSET S : FirstOf(S)[s] = First(s)
<1>1. \A s : s # {} => First(s) \in s
  BY DEF First
<1> QED
  BY <1>1 DEF FirstOf

LEMMA SumsExist ==
  ASSUME NEW S, IsFiniteSet(S), NEW f, \A x \in S : f[x] \in Int
  PROVE  \E g \in [SUBSET S -> Int] : SumsUp(g, f, S)
<1>1. Adding(f, S) \in [S \X Int -> Int] /\ 0 \in Int
  BY DEF Adding
<1>2. Picks(FirstOf(S), S)
  BY FirstIn DEF Picks
<1>3. PICK g \in [SUBSET S -> Int] : Folds(g, FirstOf(S), Adding(f, S), 0, S)
  BY <1>1, <1>2, FoldExists
<1>4. ASSUME NEW s \in SUBSET S, s # {}
      PROVE  g[s] = f[First(s)] + g[s \ {First(s)}]
  <2>1. FirstOf(S)[s] = First(s) /\ First(s) \in S /\ g[s \ {First(s)}] \in Int
    BY <1>3, <1>4, FirstIn
  <2>2. g[s] = Adding(f, S)[<<First(s), g[s \ {First(s)}]>>]
    BY <1>3, <1>4, <2>1 DEF Folds
  <2> QED
    BY <2>1, <2>2 DEF Adding
<1>5. g[{}] = 0
  BY <1>3 DEF Folds
<1> QED
  BY <1>4, <1>5 DEF SumsUp

LEMMA SumsUnique ==
  ASSUME NEW S, IsFiniteSet(S), NEW f, NEW g, NEW h, SumsUp(g, f, S), SumsUp(h, f, S)
  PROVE  \A s \in SUBSET S : g[s] = h[s]
<1>1. g[{}] = h[{}]
  BY DEF SumsUp
<1>2. ASSUME NEW s \in SUBSET S, s # {}
      PROVE  /\ FirstOf(S)[s] \in s
             /\ g[s \ {FirstOf(S)[s]}] = h[s \ {FirstOf(S)[s]}] => g[s] = h[s]
  <2>1. FirstOf(S)[s] = First(s) /\ First(s) \in s
    BY <1>2, FirstIn
  <2> QED
    BY <1>2, <2>1 DEF SumsUp
<1>3. SameSteps(g, h, FirstOf(S), S)
  BY <1>1, <1>2 DEF SameSteps
<1> QED
  BY <1>3, FoldUnique

LEMMA SumIsFold ==
  ASSUME NEW S, IsFiniteSet(S), NEW f, \A x \in S : f[x] \in Int,
         NEW g, SumsUp(g, f, S)
  PROVE  SumFunctionOnSet(f, S) = g[S]
<1> DEFINE Next(k, s) == IF s = {} THEN 0 ELSE f[First(s)] + k[s \ {First(s)}]
           h == CHOOSE k : k = [s \in SUBSET S |-> Next(k, s)]
<1>1. SumFunctionOnSet(f, S) = h[S]
  BY DEF SumFunctionOnSet, FoldFunctionOnSet, MapThenFoldSet, First
<1>2. PICK k \in [SUBSET S -> Int] : SumsUp(k, f, S)
  BY SumsExist
<1>3. k = [s \in SUBSET S |-> Next(k, s)]
  BY <1>2 DEF SumsUp
<1>4. h = [s \in SUBSET S |-> Next(h, s)]
  <2> HIDE DEF Next
  <2> QED
    BY <1>3
<1>5. SumsUp(h, f, S)
  <2> HIDE DEF h
  <2> QED
    BY <1>4 DEF SumsUp
<1>6. h[S] = g[S]
  <2> HIDE DEF h
  <2> QED
    BY <1>5, SumsUnique
<1> QED
  BY <1>1, <1>6

LEMMA Swapped ==
  ASSUME NEW a \in Int, NEW b \in Int, NEW c \in Int
  PROVE  a + (b + c) = b + (a + c)
OBVIOUS

LEMMA SumType ==
  ASSUME NEW S, IsFiniteSet(S), NEW f, \A x \in S : f[x] \in Int
  PROVE  SumFunctionOnSet(f, S) \in Int
<1>1. PICK g \in [SUBSET S -> Int] : SumsUp(g, f, S)
  BY SumsExist
<1> QED
  BY <1>1, SumIsFold

LEMMA SumEmpty ==
  ASSUME NEW f
  PROVE  SumFunctionOnSet(f, {}) = 0
<1>1. IsFiniteSet({}) /\ \A x \in {} : f[x] \in Int
  BY FS_EmptySet
<1>2. PICK g \in [SUBSET {} -> Int] : SumsUp(g, f, {})
  BY <1>1, SumsExist
<1>3. SumFunctionOnSet(f, {}) = g[{}]
  BY <1>1, <1>2, SumIsFold
<1> QED
  BY <1>2, <1>3 DEF SumsUp

(* One function finds the sums over all parts of S. *)
LEMMA SumsOfParts ==
  ASSUME NEW S, IsFiniteSet(S), NEW f, \A x \in S : f[x] \in Int,
         NEW g, SumsUp(g, f, S)
  PROVE  \A T \in SUBSET S : SumFunctionOnSet(f, T) = g[T]
<1>1. SUFFICES ASSUME NEW T \in SUBSET S
               PROVE  SumFunctionOnSet(f, T) = g[T]
  OBVIOUS
<1>2. IsFiniteSet(T)
  BY FS_Subset
<1>3. SumsUp(g, f, T)
  BY DEF SumsUp
<1> QED
  BY <1>2, <1>3, SumIsFold

(* Any element may be taken first. *)
LEMMA SumTake ==
  ASSUME NEW S, IsFiniteSet(S), NEW f, \A x \in S : f[x] \in Int, NEW x \in S
  PROVE  SumFunctionOnSet(f, S) = f[x] + SumFunctionOnSet(f, S \ {x})
<1>1. PICK g \in [SUBSET S -> Int] : SumsUp(g, f, S)
  BY SumsExist
<1> DEFINE Good == {T \in SUBSET S : \A y \in T : g[T] = f[y] + g[T \ {y}]}
           Sized == {n \in Nat : \A T \in SUBSET S : Cardinality(T) = n => T \in Good}
<1>2. \A T \in SUBSET S : IsFiniteSet(T) /\ Cardinality(T) \in Nat
  BY FS_Subset, FS_CardinalityType
<1>3. 0 \in Sized
  BY <1>2, FS_EmptySet
<1>4. ASSUME NEW n \in Nat, n \in Sized
      PROVE  n + 1 \in Sized
  <2>1. SUFFICES ASSUME NEW T \in SUBSET S, Cardinality(T) = n + 1, NEW y \in T
                 PROVE  g[T] = f[y] + g[T \ {y}]
    OBVIOUS
  <2> DEFINE c == First(T)
  <2>2. c \in T
    BY FirstIn
  <2>3. Cardinality(T \ {c}) = n /\ Cardinality(T \ {y}) = n
    BY <1>2, <2>1, <2>2, OneLess
  <2>4. g[T] = f[c] + g[T \ {c}]
    BY <1>1, <2>2 DEF SumsUp
  <2> HIDE DEF c
  <2>5. CASE y = c
    BY <2>4, <2>5
  <2>6. CASE y # c
    <3>1. y \in T \ {c} /\ c \in T \ {y} /\ (T \ {c}) \ {y} = (T \ {y}) \ {c}
      BY <2>2, <2>6
    <3>2. g[T \ {c}] = f[y] + g[(T \ {c}) \ {y}]
      BY <1>4, <2>3, <3>1
    <3>3. g[T \ {y}] = f[c] + g[(T \ {y}) \ {c}]
      BY <1>4, <2>3, <3>1
    <3>4. f[y] \in Int /\ f[c] \in Int /\ g[(T \ {y}) \ {c}] \in Int
      BY <1>1, <2>2
    <3>5. f[c] + (f[y] + g[(T \ {y}) \ {c}]) = f[y] + (f[c] + g[(T \ {y}) \ {c}])
      BY <3>4, Swapped
    <3> QED
      BY <2>4, <3>1, <3>2, <3>3, <3>5, Zenon
  <2> QED
    BY <2>5, <2>6
<1>5. Nat \subseteq Sized
  <2> HIDE DEF Sized
  <2> QED
    BY <1>3, <1>4, NatSetInduction
<1>6. g[S] = f[x] + g[S \ {x}]
  BY <1>2, <1>5
<1>7. SumFunctionOnSet(f, S) = g[S] /\ SumFunctionOnSet(f, S \ {x}) = g[S \ {x}]
  BY <1>1, SumsOfParts
<1> QED
  BY <1>6, <1>7

LEMMA SumAdd ==
  ASSUME NEW S, IsFiniteSet(S), NEW f, \A y \in S : f[y] \in Int,
         NEW T \in SUBSET S, NEW x \in S, x \notin T
  PROVE  SumFunctionOnSet(f, T \cup {x}) = f[x] + SumFunctionOnSet(f, T)
<1>1. IsFiniteSet(T \cup {x}) /\ (T \cup {x}) \ {x} = T /\ \A y \in T \cup {x} : f[y] \in Int
  <2>1. T \cup {x} \subseteq S
    OBVIOUS
  <2> QED
    BY <2>1, FS_Subset
<1>2. SumFunctionOnSet(f, T \cup {x}) = f[x] + SumFunctionOnSet(f, (T \cup {x}) \ {x})
  BY <1>1, SumTake
<1> QED
  BY <1>1, <1>2

LEMMA SumSame ==
  ASSUME NEW S, IsFiniteSet(S), NEW f, NEW g,
         \A x \in S : f[x] \in Int /\ f[x] = g[x]
  PROVE  SumFunctionOnSet(f, S) = SumFunctionOnSet(g, S)
<1>1. PICK k \in [SUBSET S -> Int] : SumsUp(k, f, S)
  BY SumsExist
<1>2. SumsUp(k, g, S)
  <2>1. ASSUME NEW s \in SUBSET S
        PROVE  k[s] = IF s = {} THEN 0 ELSE g[First(s)] + k[s \ {First(s)}]
    <3>1. s # {} => f[First(s)] = g[First(s)]
      BY FirstIn
    <3> QED
      BY <1>1, <3>1 DEF SumsUp
  <2> QED
    BY <2>1 DEF SumsUp
<1>3. \A x \in S : g[x] \in Int
  OBVIOUS
<1>4. SumFunctionOnSet(f, S) = k[S]
  BY <1>1, SumIsFold
<1>5. SumFunctionOnSet(g, S) = k[S]
  BY <1>2, <1>3, SumIsFold
<1> QED
  BY <1>4, <1>5

LEMMA SumZero ==
  ASSUME NEW S, IsFiniteSet(S), NEW f, \A x \in S : f[x] = 0
  PROVE  SumFunctionOnSet(f, S) = 0
<1>0. \A x \in S : f[x] \in Int
  OBVIOUS
<1>1. PICK g \in [SUBSET S -> Int] : SumsUp(g, f, S)
  BY <1>0, SumsExist
<1> DEFINE Good == {T \in SUBSET S : g[T] = 0}
<1>2. \A T \in SUBSET S : SumFunctionOnSet(f, T) = g[T]
  BY <1>0, <1>1, SumsOfParts
<1>3. {} \in Good
  BY <1>1 DEF SumsUp
<1>4. ASSUME NEW T \in SUBSET S, NEW x \in S, T \in Good, x \notin T
      PROVE  T \cup {x} \in Good
  <2> DEFINE more == T \cup {x}
  <2>1. more \in SUBSET S /\ IsFiniteSet(more) /\ more \ {x} = T /\ x \in more
    BY <1>4, FS_Subset
  <2> HIDE DEF more
  <2>2. SumFunctionOnSet(f, more) = f[x] + SumFunctionOnSet(f, more \ {x})
    BY <1>0, <2>1, SumTake
  <2>3. g[more] = f[x] + g[T] /\ g[T] = 0 /\ f[x] = 0
    BY <1>2, <1>4, <2>1, <2>2
  <2> QED
    BY <2>1, <2>3 DEF more
<1>5. SUBSET S \subseteq Good
  <2> HIDE DEF Good
  <2> QED
    BY <1>3, <1>4, FiniteSetInduction
<1> QED
  BY <1>2, <1>5

(* Changing one term. *)
LEMMA SumChanged ==
  ASSUME NEW S, IsFiniteSet(S), NEW f, NEW g, \A y \in S : f[y] \in Int /\ g[y] \in Int,
         NEW x, \A y \in S : y # x => g[y] = f[y]
  PROVE  SumFunctionOnSet(g, S) =
           IF x \in S THEN SumFunctionOnSet(f, S) + (g[x] - f[x]) ELSE SumFunctionOnSet(f, S)
<1>1. CASE x \in S
  <2>1. IsFiniteSet(S \ {x})
    BY FS_RemoveElement
  <2>2. SumFunctionOnSet(f, S) = f[x] + SumFunctionOnSet(f, S \ {x})
    BY <1>1, SumTake
  <2>3. SumFunctionOnSet(g, S) = g[x] + SumFunctionOnSet(g, S \ {x})
    BY <1>1, SumTake
  <2>4. SumFunctionOnSet(f, S \ {x}) = SumFunctionOnSet(g, S \ {x})
    BY <2>1, SumSame
  <2>5. SumFunctionOnSet(f, S \ {x}) \in Int
    BY <2>1, SumType
  <2> QED
    BY <1>1, <2>2, <2>3, <2>4, <2>5
<1>2. CASE x \notin S
  <2>1. SumFunctionOnSet(f, S) = SumFunctionOnSet(g, S)
    BY <1>2, SumSame
  <2> QED
    BY <1>2, <2>1
<1> QED
  BY <1>1, <1>2

(* Terms that are not negative: the sum is not either, and no part of it   *)
(* exceeds it.                                                             *)
LEMMA SumNat ==
  ASSUME NEW S, IsFiniteSet(S), NEW f, \A x \in S : f[x] \in Nat
  PROVE  SumFunctionOnSet(f, S) \in Nat
<1>0. \A x \in S : f[x] \in Int
  OBVIOUS
<1>1. PICK g \in [SUBSET S -> Int] : SumsUp(g, f, S)
  BY <1>0, SumsExist
<1> DEFINE Good == {T \in SUBSET S : g[T] \in Nat}
<1>2. {} \in Good
  <2>1. g[{}] = 0
    BY <1>1 DEF SumsUp
  <2> QED
    BY <2>1
<1>3. \A T \in SUBSET S : SumFunctionOnSet(f, T) = g[T]
  BY <1>0, <1>1, SumsOfParts
<1>4. ASSUME NEW T \in SUBSET S, NEW x \in S, T \in Good, x \notin T
      PROVE  T \cup {x} \in Good
  <2>1. IsFiniteSet(T \cup {x})
    BY FS_Subset
  <2>2. SumFunctionOnSet(f, T \cup {x}) = f[x] + SumFunctionOnSet(f, (T \cup {x}) \ {x})
    BY <2>1, SumTake
  <2>3. (T \cup {x}) \ {x} = T
    BY <1>4
  <2>4. g[T \cup {x}] = f[x] + g[T]
    BY <1>3, <2>2, <2>3
  <2> QED
    BY <1>4, <2>4
<1>5. SUBSET S \subseteq Good
  <2> HIDE DEF Good
  <2> QED
    BY <1>2, <1>4, FiniteSetInduction
<1> QED
  BY <1>3, <1>5

(* The sum over two sets that have nothing in common. *)
LEMMA SumDisjoint ==
  ASSUME NEW S, IsFiniteSet(S), NEW f, \A x \in S : f[x] \in Int, NEW A \in SUBSET S
  PROVE  SumFunctionOnSet(f, S) = SumFunctionOnSet(f, A) + SumFunctionOnSet(f, S \ A)
<1>1. PICK g \in [SUBSET S -> Int] : SumsUp(g, f, S)
  BY SumsExist
<1>2. \A T \in SUBSET S : SumFunctionOnSet(f, T) = g[T]
  BY <1>1, SumsOfParts
<1> DEFINE R == S \ A
           Good == {T \in SUBSET R : g[A \cup T] = g[A] + g[T]}
<1>3. {} \in Good
  <2>1. g[{}] = 0 /\ g[A] \in Int
    BY <1>1 DEF SumsUp
  <2> QED
    BY <2>1
<1>4. ASSUME NEW T \in SUBSET R, NEW x \in R, T \in Good, x \notin T
      PROVE  T \cup {x} \in Good
  <2>1. IsFiniteSet(T \cup {x}) /\ IsFiniteSet(A \cup (T \cup {x}))
    BY FS_Subset
  <2>2. SumFunctionOnSet(f, T \cup {x}) = f[x] + SumFunctionOnSet(f, (T \cup {x}) \ {x})
    BY <2>1, SumTake
  <2>3. SumFunctionOnSet(f, A \cup (T \cup {x}))
          = f[x] + SumFunctionOnSet(f, (A \cup (T \cup {x})) \ {x})
    BY <2>1, SumTake
  <2>4. (T \cup {x}) \ {x} = T /\ (A \cup (T \cup {x})) \ {x} = A \cup T
    BY <1>4
  <2>5. g[T \cup {x}] = f[x] + g[T] /\ g[A \cup (T \cup {x})] = f[x] + g[A \cup T]
    BY <1>2, <2>2, <2>3, <2>4
  <2>6. g[A \cup T] = g[A] + g[T]
    BY <1>4
  <2>7. f[x] \in Int /\ g[A] \in Int /\ g[T] \in Int
    BY <1>1
  <2>8. g[A \cup (T \cup {x})] = g[A] + g[T \cup {x}]
    BY <2>5, <2>6, <2>7, Swapped
  <2> QED
    BY <2>8
<1>5. SUBSET R \subseteq Good
  <2>1. IsFiniteSet(R)
    BY FS_Subset
  <2> HIDE DEF Good, R
  <2> QED
    BY <1>3, <1>4, <2>1, FiniteSetInduction
<1>6. g[A \cup (S \ A)] = g[A] + g[S \ A]
  BY <1>5
<1>7. A \cup (S \ A) = S
  OBVIOUS
<1> QED
  BY <1>2, <1>6, <1>7

LEMMA SumMonotone ==
  ASSUME NEW S, IsFiniteSet(S), NEW f, \A x \in S : f[x] \in Nat, NEW A \in SUBSET S
  PROVE  SumFunctionOnSet(f, A) <= SumFunctionOnSet(f, S)
<1>1. IsFiniteSet(A) /\ IsFiniteSet(S \ A)
  BY FS_Subset
<1>2. SumFunctionOnSet(f, A) \in Nat /\ SumFunctionOnSet(f, S \ A) \in Nat
  BY <1>1, SumNat
<1>3. SumFunctionOnSet(f, S) = SumFunctionOnSet(f, A) + SumFunctionOnSet(f, S \ A)
  BY SumDisjoint
<1> QED
  BY <1>2, <1>3

-----------------------------------------------------------------------------
(* A step repeated a number of times, from a start. *)
Iterates(g, S, start, N, step) ==
  /\ g \in [0 .. N -> S]
  /\ g[0] = start
  /\ \A n \in 1 .. N : g[n] = step[<<n, g[n - 1]>>]

LEMMA IterationExists ==
  ASSUME NEW S, NEW start \in S, NEW N \in Nat, NEW step \in [(1 .. N) \X S -> S]
  PROVE  \E g : Iterates(g, S, start, N, step)
<1> DEFINE Upto == {m \in Nat : \E g \in [0 .. N -> S] :
                      g[0] = start /\ \A n \in 1 .. N : n <= m => g[n] = step[<<n, g[n - 1]>>]}
<1>1. 0 \in Upto
  <2> DEFINE g == [n \in 0 .. N |-> start]
  <2>1. g \in [0 .. N -> S] /\ g[0] = start
    OBVIOUS
  <2>2. \A n \in 1 .. N : ~(n <= 0)
    OBVIOUS
  <2> HIDE DEF g
  <2> QED
    BY <2>1, <2>2
<1>2. ASSUME NEW m \in Nat, m \in Upto
      PROVE  m + 1 \in Upto
  <2>1. PICK g \in [0 .. N -> S] :
               g[0] = start /\ \A n \in 1 .. N : n <= m => g[n] = step[<<n, g[n - 1]>>]
    BY <1>2
  <2> DEFINE h == [n \in 0 .. N |-> IF n <= m THEN g[n] ELSE step[<<n, g[n - 1]>>]]
  <2>2. ASSUME NEW n \in 0 .. N
        PROVE  h[n] \in S
    <3>1. CASE n <= m
      BY <3>1
    <3>2. CASE n > m
      <4>1. n \in 1 .. N /\ g[n - 1] \in S
        BY <3>2
      <4> QED
        BY <3>2, <4>1
    <3> QED
      BY <3>1, <3>2
  <2>3. h \in [0 .. N -> S] /\ h[0] = start
    BY <2>1, <2>2
  <2>4. ASSUME NEW n \in 1 .. N, n <= m + 1
        PROVE  h[n] = step[<<n, h[n - 1]>>]
    <3>1. n - 1 \in 0 .. N /\ n - 1 <= m /\ h[n - 1] = g[n - 1]
      BY <2>4
    <3>2. h[n] = step[<<n, g[n - 1]>>]
      BY <2>1, <2>4
    <3> QED
      BY <3>1, <3>2
  <2> HIDE DEF h
  <2> QED
    BY <2>3, <2>4
<1>3. N \in Upto
  <2> HIDE DEF Upto
  <2> QED
    BY <1>1, <1>2, NatSetInduction
<1> QED
  BY <1>3 DEF Iterates

-----------------------------------------------------------------------------
(***************************************************************************)
(* A recursive function is the one CHOOSE finds, if its equation has a     *)
(* solution; here for the powers of a base.                                *)
(***************************************************************************)
PowersOf(p, b, N) ==
  /\ p \in [0 .. N -> Nat \ {0}]
  /\ p[0] = 1
  /\ \A n \in 1 .. N : p[n] = b * p[n - 1]

LEMMA PowersExist ==
  ASSUME NEW N \in Nat, NEW b \in Nat \ {0}
  PROVE  \E p : PowersOf(p, b, N)
<1> DEFINE Pos == Nat \ {0}
           Upto == {m \in Nat : \E g \in [0 .. N -> Pos] :
                      g[0] = 1 /\ \A n \in 1 .. N : n <= m => g[n] = b * g[n - 1]}
<1>1. 0 \in Upto
  <2> DEFINE g == [n \in 0 .. N |-> 1]
  <2>1. g \in [0 .. N -> Pos] /\ g[0] = 1
    OBVIOUS
  <2>2. \A n \in 1 .. N : ~(n <= 0)
    OBVIOUS
  <2> HIDE DEF g
  <2> QED
    BY <2>1, <2>2
<1>2. ASSUME NEW m \in Nat, m \in Upto
      PROVE  m + 1 \in Upto
  <2>1. PICK g \in [0 .. N -> Pos] :
               g[0] = 1 /\ \A n \in 1 .. N : n <= m => g[n] = b * g[n - 1]
    BY <1>2
  <2> DEFINE h == [n \in 0 .. N |-> IF n <= m THEN g[n] ELSE b * g[n - 1]]
  <2>2. ASSUME NEW n \in 0 .. N
        PROVE  h[n] \in Pos
    <3>1. CASE n <= m
      BY <3>1
    <3>2. CASE n > m
      <4>1. n - 1 \in 0 .. N /\ g[n - 1] \in Pos
        BY <3>2
      <4> QED
        BY <3>2, <4>1
    <3> QED
      BY <3>1, <3>2
  <2>3. h \in [0 .. N -> Pos] /\ h[0] = 1
    BY <2>1, <2>2
  <2>4. ASSUME NEW n \in 1 .. N, n <= m + 1
        PROVE  h[n] = b * h[n - 1]
    <3>1. n - 1 \in 0 .. N /\ n - 1 <= m /\ h[n - 1] = g[n - 1]
      BY <2>4
    <3>2. h[n] = b * g[n - 1]
      BY <2>1, <2>4
    <3> QED
      BY <3>1, <3>2
  <2> HIDE DEF h
  <2> QED
    BY <2>3, <2>4
<1>3. N \in Upto
  <2> HIDE DEF Upto
  <2> QED
    BY <1>1, <1>2, NatSetInduction
<1> QED
  BY <1>3 DEF PowersOf

PowersEquation(p, b, N) == p = [n \in 0 .. N |-> IF n = 0 THEN 1 ELSE b * p[n - 1]]

LEMMA PowersSolvable ==
  ASSUME NEW N \in Nat, NEW b \in Nat \ {0}
  PROVE  \E p : PowersEquation(p, b, N)
<1>1. PICK q : PowersOf(q, b, N)
  BY PowersExist
<1>2. q = [n \in 0 .. N |-> IF n = 0 THEN 1 ELSE b * q[n - 1]]
  BY <1>1 DEF PowersOf
<1> QED
  BY <1>2 DEF PowersEquation

LEMMA PowersRecursive ==
  ASSUME NEW N \in Nat, NEW b \in Nat \ {0}, NEW p, PowersEquation(p, b, N)
  PROVE  PowersOf(p, b, N)
<1> DEFINE Pos == Nat \ {0}
           Typed == {m \in Nat : m <= N => p[m] \in Pos}
<1>3. p = [n \in 0 .. N |-> IF n = 0 THEN 1 ELSE b * p[n - 1]]
  BY DEF PowersEquation
<1>4. p[0] = 1 /\ \A n \in 1 .. N : p[n] = b * p[n - 1]
  <2> DEFINE body == [n \in 0 .. N |-> IF n = 0 THEN 1 ELSE b * p[n - 1]]
  <2>1. body[0] = 1 /\ \A n \in 1 .. N : body[n] = b * p[n - 1]
    OBVIOUS
  <2>2. p = body
    BY <1>3
  <2> HIDE DEF body
  <2> QED
    BY <2>1, <2>2
<1>5. Nat \subseteq Typed
  <2>1. 0 \in Typed
    BY <1>4
  <2>2. ASSUME NEW m \in Nat, m \in Typed
        PROVE  m + 1 \in Typed
    <3>1. SUFFICES ASSUME m + 1 <= N
                   PROVE  p[m + 1] \in Pos
      OBVIOUS
    <3>2. p[m] \in Pos /\ p[m + 1] = b * p[m]
      BY <1>4, <2>2, <3>1
    <3> QED
      BY <3>2
  <2> HIDE DEF Typed
  <2> QED
    BY <2>1, <2>2, NatSetInduction
<1>6. p \in [0 .. N -> Pos]
  BY <1>3, <1>5
<1> QED
  BY <1>4, <1>6 DEF PowersOf

(* The law of exponents *)
LEMMA PowersAdd ==
  ASSUME NEW N \in Nat, NEW b \in Nat \ {0}, NEW p, PowersOf(p, b, N),
         NEW m \in 0 .. N, NEW n \in 0 .. N, m + n <= N
  PROVE  p[m + n] = p[m] * p[n]
<1> DEFINE Good == {k \in Nat : m + k <= N => p[m + k] = p[m] * p[k]}
<1>1. /\ \A k \in 0 .. N : p[k] \in Nat
      /\ p[0] = 1 /\ \A k \in 1 .. N : p[k] = b * p[k - 1]
  BY DEF PowersOf
<1>2. 0 \in Good
  BY <1>1
<1>3. ASSUME NEW k \in Nat, k \in Good
      PROVE  k + 1 \in Good
  <2>1. SUFFICES ASSUME m + (k + 1) <= N
                 PROVE  p[m + (k + 1)] = p[m] * p[k + 1]
    OBVIOUS
  <2>2. p[m + k] = p[m] * p[k] /\ p[m] \in Nat /\ p[k] \in Nat
    BY <1>1, <1>3, <2>1
  <2>3. p[m + (k + 1)] = b * p[m + k] /\ p[k + 1] = b * p[k]
    <3>1. m + (k + 1) \in 1 .. N /\ (m + (k + 1)) - 1 = m + k /\ k + 1 \in 1 .. N
          /\ (k + 1) - 1 = k
      BY <2>1
    <3> QED
      BY <1>1, <3>1
  <2>4. \A x, y \in Nat : b * (x * y) = x * (b * y)
    OBVIOUS
  <2> QED
    BY <2>2, <2>3, <2>4
<1>4. Nat \subseteq Good
  <2> HIDE DEF Good
  <2> QED
    BY <1>2, <1>3, NatSetInduction
<1> QED
  BY <1>4

-----------------------------------------------------------------------------
(***************************************************************************)
(* Merkle trees.  The powers of two, the nodes on the way up from a leaf   *)
(* and the rows of a tree are recursive functions, whose equations have a  *)
(* solution.                                                               *)
(***************************************************************************)
LEMMA Pow2IsPowers == PowersOf(Pow2, 2, MaxLevels)
<1>1. MaxLevels \in Nat
  BY LevelsAssumption
<1>2. PICK p : PowersEquation(p, 2, MaxLevels)
  BY <1>1, PowersSolvable
<1>3. p = [n \in 0 .. MaxLevels |-> IF n = 0 THEN 1 ELSE 2 * p[n - 1]]
  BY <1>2 DEF PowersEquation
<1>4. PowersEquation(Pow2, 2, MaxLevels)
  BY <1>3 DEF Pow2, PowersEquation
<1> QED
  BY <1>1, <1>4, PowersRecursive

LEMMA Pow2Steps ==
  /\ \A n \in 0 .. MaxLevels : Pow2[n] \in Nat \ {0}
  /\ Pow2[0] = 1
  /\ \A n \in 1 .. MaxLevels : Pow2[n] = 2 * Pow2[n - 1]
BY Pow2IsPowers DEF PowersOf

AscentEquation(at, node, proof, index) ==
  at = [i \in 0 .. Len(proof) |->
          IF i = 0 THEN node ELSE Parent(at[i - 1], proof[i], Shifted(index, i - 1))]

LEMMA AscentSolvable ==
  ASSUME NEW node, NEW proof, Len(proof) \in Nat, NEW index
  PROVE  \E at : AscentEquation(at, node, proof, index)
<1> DEFINE Above(g, i) == IF i = 0 THEN node ELSE Parent(g[i - 1], proof[i], Shifted(index, i - 1))
           Upto == {n \in Nat : \E g : \A i \in 0 .. n : g[i] = Above(g, i)}
<1>1. 0 \in Upto
  <2>1. \A i \in 0 .. 0 : [j \in 0 .. 0 |-> node][i] = Above([j \in 0 .. 0 |-> node], i)
    OBVIOUS
  <2> QED
    BY <2>1
<1>2. ASSUME NEW n \in Nat, n \in Upto
      PROVE  n + 1 \in Upto
  <2>1. PICK g : \A i \in 0 .. n : g[i] = Above(g, i)
    BY <1>2
  <2> DEFINE h == [i \in 0 .. n + 1 |-> IF i <= n THEN g[i] ELSE Above(g, i)]
  <2>2. ASSUME NEW i \in 0 .. n + 1
        PROVE  h[i] = Above(h, i)
    <3>1. h[i] = Above(g, i)
      BY <2>1
    <3>2. CASE i = 0
      BY <3>1, <3>2
    <3>3. CASE i # 0
      <4>1. i - 1 \in 0 .. n + 1 /\ i - 1 <= n
        BY <3>3
      <4>2. h[i - 1] = g[i - 1]
        BY <4>1
      <4> HIDE DEF h
      <4> QED
        BY <3>1, <3>3, <4>2
    <3> QED
      BY <3>2, <3>3
  <2> HIDE DEF h, Above
  <2> QED
    BY <2>2
<1>3. Len(proof) \in Upto
  <2> HIDE DEF Upto
  <2> QED
    BY <1>1, <1>2, NatSetInduction
<1>4. PICK g : \A i \in 0 .. Len(proof) : g[i] = Above(g, i)
  BY <1>3
<1> DEFINE at == [i \in 0 .. Len(proof) |-> g[i]]
<1>5. at = [i \in 0 .. Len(proof) |-> Above(at, i)]
  <2>1. ASSUME NEW i \in 0 .. Len(proof)
        PROVE  Above(g, i) = Above(at, i)
    <3>1. CASE i = 0
      BY <3>1
    <3>2. CASE i # 0
      <4>1. i - 1 \in 0 .. Len(proof)
        BY <3>2
      <4>2. at[i - 1] = g[i - 1]
        BY <4>1
      <4> HIDE DEF at
      <4> QED
        BY <3>2, <4>2
    <3> QED
      BY <3>1, <3>2
  <2>2. \A i \in 0 .. Len(proof) : g[i] = Above(at, i)
    <3> HIDE DEF at, Above
    <3> QED
      BY <1>4, <2>1
  <2> HIDE DEF Above
  <2> QED
    BY <2>2
<1> HIDE DEF at
<1> QED
  BY <1>5 DEF AscentEquation

LEMMA AscentSteps ==
  ASSUME NEW node, NEW proof, Len(proof) \in Nat, NEW index
  PROVE  LET at == Ascent(node, proof, index)
         IN  /\ at[0] = node
             /\ \A i \in 1 .. Len(proof) :
                  at[i] = Parent(at[i - 1], proof[i], Shifted(index, i - 1))
<1> DEFINE at == Ascent(node, proof, index)
<1>1. PICK g : AscentEquation(g, node, proof, index)
  BY AscentSolvable
<1>2. g = [i \in 0 .. Len(proof) |->
             IF i = 0 THEN node ELSE Parent(g[i - 1], proof[i], Shifted(index, i - 1))]
  BY <1>1 DEF AscentEquation
<1>3. AscentEquation(at, node, proof, index)
  BY <1>2 DEF Ascent, AscentEquation
<1> HIDE DEF at
<1> DEFINE body == [i \in 0 .. Len(proof) |->
             IF i = 0 THEN node ELSE Parent(at[i - 1], proof[i], Shifted(index, i - 1))]
<1>4. body[0] = node /\ \A i \in 1 .. Len(proof) : body[i] = Parent(at[i - 1], proof[i], Shifted(index, i - 1))
  OBVIOUS
<1>5. at = body
  BY <1>3 DEF AscentEquation
<1> HIDE DEF body
<1> QED
  BY <1>4, <1>5 DEF at

-----------------------------------------------------------------------------
RowAbove(row) == [i \in 1 .. Len(row) \div 2 |-> InnerNode(row[2 * i - 1], row[2 * i])]

RowsEquation(row, leaves) ==
  row = [k \in 0 .. Depth(leaves) |-> IF k = 0 THEN leaves ELSE RowAbove(row[k - 1])]

LEMMA RowsSolvable ==
  ASSUME NEW leaves, Depth(leaves) \in Nat
  PROVE  \E row : RowsEquation(row, leaves)
<1> DEFINE Above(g, i) == IF i = 0 THEN leaves ELSE RowAbove(g[i - 1])
           Upto == {n \in Nat : \E g : \A i \in 0 .. n : g[i] = Above(g, i)}
           N == Depth(leaves)
<1>1. 0 \in Upto
  <2>1. \A i \in 0 .. 0 : [j \in 0 .. 0 |-> leaves][i] = Above([j \in 0 .. 0 |-> leaves], i)
    OBVIOUS
  <2> QED
    BY <2>1
<1>2. ASSUME NEW n \in Nat, n \in Upto
      PROVE  n + 1 \in Upto
  <2>1. PICK g : \A i \in 0 .. n : g[i] = Above(g, i)
    BY <1>2
  <2> DEFINE h == [i \in 0 .. n + 1 |-> IF i <= n THEN g[i] ELSE Above(g, i)]
  <2>2. ASSUME NEW i \in 0 .. n + 1
        PROVE  h[i] = Above(h, i)
    <3>1. h[i] = Above(g, i)
      BY <2>1
    <3>2. CASE i = 0
      BY <3>1, <3>2
    <3>3. CASE i # 0
      <4>1. i - 1 \in 0 .. n + 1 /\ i - 1 <= n
        BY <3>3
      <4>2. h[i - 1] = g[i - 1]
        BY <4>1
      <4> HIDE DEF h
      <4> QED
        BY <3>1, <3>3, <4>2
    <3> QED
      BY <3>2, <3>3
  <2> HIDE DEF h, Above
  <2> QED
    BY <2>2
<1>3. N \in Upto
  <2> HIDE DEF Upto
  <2> QED
    BY <1>1, <1>2, NatSetInduction
<1>4. PICK g : \A i \in 0 .. N : g[i] = Above(g, i)
  BY <1>3
<1> DEFINE row == [i \in 0 .. N |-> g[i]]
<1>5. row = [i \in 0 .. N |-> Above(row, i)]
  <2>1. ASSUME NEW i \in 0 .. N
        PROVE  Above(g, i) = Above(row, i)
    <3>1. CASE i = 0
      BY <3>1
    <3>2. CASE i # 0
      <4>1. i - 1 \in 0 .. N
        BY <3>2
      <4>2. row[i - 1] = g[i - 1]
        BY <4>1
      <4> HIDE DEF row
      <4> QED
        BY <3>2, <4>2
    <3> QED
      BY <3>1, <3>2
  <2>2. \A i \in 0 .. N : g[i] = Above(row, i)
    <3> HIDE DEF row, Above
    <3> QED
      BY <1>4, <2>1
  <2> HIDE DEF Above
  <2> QED
    BY <2>2
<1> HIDE DEF row
<1> QED
  BY <1>5 DEF RowsEquation

LEMMA RowSteps ==
  ASSUME NEW leaves, Depth(leaves) \in Nat
  PROVE  LET row == Levels(leaves)
         IN  row[0] = leaves /\ \A k \in 1 .. Depth(leaves) : row[k] = RowAbove(row[k - 1])
<1> DEFINE row == Levels(leaves)
<1>1. PICK g : RowsEquation(g, leaves)
  BY RowsSolvable
<1>2. g = [k \in 0 .. Depth(leaves) |->
             IF k = 0 THEN leaves
             ELSE [i \in 1 .. Len(g[k - 1]) \div 2 |->
                     InnerNode(g[k - 1][2 * i - 1], g[k - 1][2 * i])]]
  BY <1>1 DEF RowsEquation, RowAbove
<1>3. RowsEquation(row, leaves)
  BY <1>2 DEF Levels, RowsEquation, RowAbove
<1> HIDE DEF row
<1> DEFINE body == [k \in 0 .. Depth(leaves) |-> IF k = 0 THEN leaves ELSE RowAbove(row[k - 1])]
<1>4. body[0] = leaves /\ \A k \in 1 .. Depth(leaves) : body[k] = RowAbove(row[k - 1])
  OBVIOUS
<1>5. row = body
  BY <1>3 DEF RowsEquation
<1> HIDE DEF body
<1> QED
  BY <1>4, <1>5 DEF row

(* A complete tree: row k has half the nodes of the row below it, and each  *)
(* is the parent of two.                                                    *)
TreeOf(row, D, leaves) ==
  /\ D \in 0 .. MaxLevels
  /\ row[0] = leaves
  /\ Len(leaves) = Pow2[D]
  /\ \A k \in 1 .. D : \A i \in 1 .. Pow2[D - k] :
       row[k][i] = InnerNode(row[k - 1][2 * i - 1], row[k - 1][2 * i])

LEMMA CompleteTree ==
  ASSUME NEW S, NEW leaves \in Seq(S), IsComplete(leaves)
  PROVE  TreeOf(Levels(leaves), Depth(leaves), leaves)
<1> DEFINE row == Levels(leaves)
           D == Depth(leaves)
           Sized == {k \in Nat : k <= D => Len(row[k]) = Pow2[D - k]}
<1>1. D \in 0 .. MaxLevels /\ Pow2[D] = Len(leaves)
  BY DEF IsComplete, Depth
<1>2. D \in Nat /\ MaxLevels \in Nat
  BY <1>1, LevelsAssumption
<1>3. row[0] = leaves /\ \A k \in 1 .. D : row[k] = RowAbove(row[k - 1])
  BY <1>2, RowSteps
<1> HIDE DEF row, D
<1>4. ASSUME NEW k \in Nat, k + 1 <= D, Len(row[k]) = Pow2[D - k]
      PROVE  /\ row[k + 1] = [i \in 1 .. Pow2[D - (k + 1)] |->
                                InnerNode(row[k][2 * i - 1], row[k][2 * i])]
             /\ Len(row[k + 1]) = Pow2[D - (k + 1)]
  <2> DEFINE n == Pow2[D - (k + 1)]
  <2>1. n \in Nat /\ Pow2[D - k] = 2 * n
    <3>1. D - k \in 1 .. MaxLevels /\ (D - k) - 1 = D - (k + 1) /\ D - (k + 1) \in 0 .. MaxLevels
      BY <1>1, <1>2, <1>4
    <3> QED
      BY <3>1, Pow2Steps
  <2>2. k + 1 \in 1 .. D /\ (k + 1) - 1 = k
    BY <1>2, <1>4
  <2> HIDE DEF n
  <2>3. row[k + 1] = RowAbove(row[k])
    BY <1>3, <2>2
  <2>4. (2 * n) \div 2 = n
    BY <2>1
  <2>5. row[k + 1] = [i \in 1 .. n |-> InnerNode(row[k][2 * i - 1], row[k][2 * i])]
    BY <1>4, <2>1, <2>3, <2>4 DEF RowAbove
  <2>6. Len(row[k + 1]) = n
    <3> DEFINE T == {InnerNode(row[k][2 * i - 1], row[k][2 * i]) : i \in 1 .. n}
    <3>1. row[k + 1] \in [1 .. n -> T]
      BY <2>5
    <3> HIDE DEF T
    <3> QED
      BY <2>1, <3>1
  <2> QED
    BY <2>5, <2>6 DEF n
<1>5. Nat \subseteq Sized
  <2>1. 0 \in Sized
    BY <1>1, <1>2, <1>3
  <2>2. ASSUME NEW k \in Nat, k \in Sized
        PROVE  k + 1 \in Sized
    <3>1. SUFFICES ASSUME k + 1 <= D
                   PROVE  Len(row[k + 1]) = Pow2[D - (k + 1)]
      OBVIOUS
    <3>2. Len(row[k]) = Pow2[D - k]
      BY <2>2, <1>2, <3>1
    <3> QED
      BY <1>4, <3>1, <3>2
  <2> HIDE DEF Sized
  <2> QED
    BY <2>1, <2>2, NatSetInduction
<1>6. ASSUME NEW k \in 1 .. D, NEW i \in 1 .. Pow2[D - k]
      PROVE  row[k][i] = InnerNode(row[k - 1][2 * i - 1], row[k - 1][2 * i])
  <2>1. k - 1 \in Nat /\ (k - 1) + 1 = k /\ k - 1 <= D /\ k <= D
    BY <1>2
  <2>2. Len(row[k - 1]) = Pow2[D - (k - 1)]
    BY <2>1, <1>5
  <2>3. row[(k - 1) + 1] = [j \in 1 .. Pow2[D - ((k - 1) + 1)] |->
                   InnerNode(row[k - 1][2 * j - 1], row[k - 1][2 * j])]
    BY <2>1, <2>2, <1>4
  <2>4. row[k] = [j \in 1 .. Pow2[D - k] |-> InnerNode(row[k - 1][2 * j - 1], row[k - 1][2 * j])]
    BY <2>1, <2>3
  <2> QED
    BY <2>4
<1> QED
  BY <1>1, <1>3, <1>6 DEF TreeOf, row, D

-----------------------------------------------------------------------------
(* The place of a node in its row is half that of the node below it. *)
LEMMA QuotientUnique ==
  ASSUME NEW m \in Nat \ {0}, NEW h \in Int, NEW s \in 0 .. m - 1
  PROVE  (m * h + s) \div m = h
<1> DEFINE a == m * h + s
           q == a \div m
<1>1. a \in Int /\ q \in Int /\ a = m * q + (a % m) /\ a % m \in 0 .. m - 1
  OBVIOUS
<1> HIDE DEF q
<1>2. m * (q - h) = s - (a % m)
  BY <1>1
<1>3. s - (a % m) < m /\ s - (a % m) > 0 - m
  BY <1>1
<1> HIDE DEF a
<1>4. q - h < 1
  <2>1. SUFFICES ASSUME q - h >= 1 PROVE FALSE
    BY <1>1
  <2>2. \A x \in Nat \ {0} : m * x >= m
    OBVIOUS
  <2> QED
    BY <1>1, <1>2, <1>3, <2>1, <2>2
<1>5. q - h > 0 - 1
  <2>1. SUFFICES ASSUME h - q >= 1 PROVE FALSE
    BY <1>1
  <2>2. \A x \in Nat \ {0} : m * x >= m
    OBVIOUS
  <2>3. m * (h - q) = (a % m) - s
    <3>1. \A x, y \in Int : m * (x - y) = 0 - (m * (y - x))
      OBVIOUS
    <3>2. m * (h - q) = 0 - (m * (q - h))
      BY <1>1, <3>1
    <3>3. m * (h - q) = 0 - (s - (a % m))
      BY <1>2, <3>2
    <3> QED
      BY <1>1, <3>3
  <2> QED
    BY <1>1, <1>3, <2>1, <2>2, <2>3
<1> QED
  BY <1>1, <1>4, <1>5 DEF a, q

LEMMA HalfOfQuotient ==
  ASSUME NEW a \in Nat, NEW p \in Nat \ {0}
  PROVE  a \div (2 * p) = (a \div p) \div 2
<1> DEFINE q == a \div p
           r == a % p
           h == q \div 2
           b == q % 2
<1>1. q \in Nat /\ r \in 0 .. p - 1 /\ a = p * q + r
  OBVIOUS
<1>2. h \in Nat /\ b \in 0 .. 1 /\ q = 2 * h + b
  BY <1>1
<1> HIDE DEF q, r, h, b
<1>3. p * b \in Nat /\ p * b <= p
  BY <1>2
<1>4. a = (2 * p) * h + (p * b + r)
  <2>1. p * q = p * (2 * h) + p * b
    BY <1>2
  <2>2. p * (2 * h) = (2 * p) * h /\ p * (2 * h) \in Nat
    BY <1>2
  <2>3. p * q \in Nat /\ r \in Nat
    BY <1>1
  <2> QED
    BY <1>1, <1>3, <2>1, <2>2, <2>3
<1> DEFINE m == 2 * p
           s == p * b + r
<1>5. s \in 0 .. m - 1 /\ m \in Nat \ {0} /\ a = m * h + s /\ h \in Int
  BY <1>1, <1>2, <1>3, <1>4
<1>6. a \div (2 * p) = h
  <2>1. a \div m = h
    <3> HIDE DEF m, s
    <3> QED
      BY <1>5, QuotientUnique
  <2> QED
    BY <2>1
<1> QED
  BY <1>6 DEF h, q

LEMMA ShiftSteps ==
  ASSUME NEW index \in Nat
  PROVE  /\ Shifted(index, 0) = index
         /\ \A n \in 0 .. MaxLevels : Shifted(index, n) \in Nat
         /\ \A n \in 1 .. MaxLevels : Shifted(index, n) = Shifted(index, n - 1) \div 2
         /\ \A n \in 0 .. MaxLevels : index < Pow2[n] => Shifted(index, n) = 0
<1>1. Shifted(index, 0) = index
  BY Pow2Steps DEF Shifted
<1>2. ASSUME NEW n \in 0 .. MaxLevels
      PROVE  /\ Shifted(index, n) \in Nat
             /\ index < Pow2[n] => Shifted(index, n) = 0
  <2>1. Pow2[n] \in Nat \ {0}
    BY Pow2Steps
  <2>2. \A p \in Nat \ {0} : index \div p \in Nat /\ (index < p => index \div p = 0)
    OBVIOUS
  <2> QED
    BY <2>1, <2>2 DEF Shifted
<1>3. ASSUME NEW n \in 1 .. MaxLevels
      PROVE  Shifted(index, n) = Shifted(index, n - 1) \div 2
  <2>1. n - 1 \in 0 .. MaxLevels /\ Pow2[n - 1] \in Nat \ {0} /\ Pow2[n] = 2 * Pow2[n - 1]
    BY Pow2Steps, LevelsAssumption
  <2> QED
    BY <2>1, HalfOfQuotient DEF Shifted
<1> QED
  BY <1>1, <1>2, <1>3

(* Two nodes of a row and their parent: one of them is on the way up, the   *)
(* other is its sibling.                                                    *)
Sibling(place) == IF place % 2 = 0 THEN place + 2 ELSE place

LEMMA ParentsPlace ==
  ASSUME NEW row, NEW D, NEW leaves, TreeOf(row, D, leaves), NEW k \in 1 .. D,
         NEW place \in Nat, place \div 2 < Pow2[D - k], NEW x, NEW y
  PROVE  Parent(x, y, place) = row[k][place \div 2 + 1]
         <=> x = row[k - 1][place + 1] /\ y = row[k - 1][Sibling(place)]
<1> DEFINE i == place \div 2 + 1
<1>1. D - k \in 0 .. MaxLevels /\ Pow2[D - k] \in Nat
  BY LevelsAssumption, Pow2Steps DEF TreeOf
<1>2. i \in 1 .. Pow2[D - k]
  BY <1>1
<1>3. row[k][i] = InnerNode(row[k - 1][2 * i - 1], row[k - 1][2 * i])
  BY <1>2 DEF TreeOf
<1>4. \/ place % 2 = 0 /\ 2 * i - 1 = place + 1 /\ 2 * i = Sibling(place)
      \/ place % 2 # 0 /\ 2 * i = place + 1 /\ 2 * i - 1 = Sibling(place)
  BY DEF Sibling
<1> HIDE DEF i
<1>5. \A l, r, m, n : InnerNode(l, r) = InnerNode(m, n) <=> l = m /\ r = n
  BY DEF InnerNode
<1>6. CASE place % 2 = 0 /\ 2 * i - 1 = place + 1 /\ 2 * i = Sibling(place)
  BY <1>3, <1>5, <1>6 DEF Parent, i
<1>7. CASE place % 2 # 0 /\ 2 * i = place + 1 /\ 2 * i - 1 = Sibling(place)
  BY <1>3, <1>5, <1>7 DEF Parent, i
<1> QED
  BY <1>4, <1>6, <1>7

-----------------------------------------------------------------------------
IsLeaf(x) == \A left, right : x # InnerNode(left, right)

LEMMA LeafNodeIsLeaf ==
  ASSUME NEW account, NEW mint, NEW action, NEW amount
  PROVE  IsLeaf(LeafNode(account, mint, action, amount))
<1>1. "leaf" # "node"
  OBVIOUS
<1> QED
  BY <1>1 DEF IsLeaf, LeafNode, InnerNode

LEMMA ParentIsInner ==
  ASSUME NEW x, NEW y, NEW place
  PROVE  ~IsLeaf(Parent(x, y, place))
BY DEF IsLeaf, Parent

(* What j levels below the root a proof that reaches the root goes through: *)
(* the nodes of the tree.                                                   *)
Descends(row, D, at, proof, index, j) ==
  LET k == Len(proof) - j
  IN  /\ Shifted(index, k) < Pow2[j]
      /\ at[k] = row[D - j][Shifted(index, k) + 1]
      /\ j > 0 => proof[k + 1] = row[D - j][Sibling(Shifted(index, k))]

LEMMA Descent ==
  ASSUME NEW row, NEW D, NEW leaves, TreeOf(row, D, leaves),
         NEW node, NEW proof, Len(proof) \in 0 .. MaxLevels, NEW index \in Nat,
         index < Pow2[Len(proof)], RootReached(node, proof, index) = row[D][1]
  PROVE  \A j \in 0 .. MaxLevels :
           j <= D /\ j <= Len(proof) => Descends(row, D, Ascent(node, proof, index), proof, index, j)
<1> DEFINE at == Ascent(node, proof, index)
           L == Len(proof)
           place(k) == Shifted(index, k)
           Good == {j \in Nat : j <= D /\ j <= L => Descends(row, D, at, proof, index, j)}
<1>1. /\ L \in 0 .. MaxLevels /\ L \in Nat /\ D \in 0 .. MaxLevels /\ D \in Nat /\ MaxLevels \in Nat
      /\ \A n \in 0 .. MaxLevels : Pow2[n] \in Nat \ {0}
      /\ Pow2[0] = 1
      /\ \A n \in 1 .. MaxLevels : Pow2[n] = 2 * Pow2[n - 1]
  BY LevelsAssumption, Pow2Steps DEF TreeOf
<1>2. /\ \A n \in 0 .. MaxLevels : place(n) \in Nat
      /\ \A n \in 1 .. MaxLevels : place(n) = place(n - 1) \div 2
      /\ place(L) = 0
  BY <1>1, ShiftSteps
<1>3. \A i \in 1 .. L : at[i] = Parent(at[i - 1], proof[i], place(i - 1))
  BY <1>1, AscentSteps
<1>4. at[L] = row[D][1]
  BY DEF RootReached
<1> HIDE DEF at, place, L
<1>5. 0 \in Good
  <2>1. L - 0 = L /\ D - 0 = D /\ 0 + 1 = 1 /\ ~(0 > 0) /\ 0 < 1
    BY <1>1
  <2>2. Descends(row, D, at, proof, index, 0)
    BY <2>1, <1>1, <1>2, <1>4 DEF Descends, place, L
  <2> QED
    BY <2>2
<1>6. ASSUME NEW j \in Nat, j \in Good
      PROVE  j + 1 \in Good
  <2>1. SUFFICES ASSUME j + 1 <= D, j + 1 <= L
                 PROVE  Descends(row, D, at, proof, index, j + 1)
    OBVIOUS
  <2> DEFINE k == L - j
             i == k - 1
             n == D - j
  <2>2. /\ k \in 1 .. L /\ i \in 0 .. L /\ k \in 1 .. MaxLevels /\ i \in 0 .. MaxLevels
        /\ i + 1 = k /\ n \in 1 .. D /\ D - n = j
        /\ L - (j + 1) = i /\ D - (j + 1) = n - 1
        /\ j + 1 \in 1 .. MaxLevels /\ (j + 1) - 1 = j /\ j + 1 > 0
    BY <1>1, <2>1
  <2>3. place(k) < Pow2[j] /\ at[k] = row[n][place(k) + 1]
    <3>1. j <= D /\ j <= L
      BY <1>1, <2>1
    <3>2. Descends(row, D, at, proof, index, j)
      BY <1>6, <3>1
    <3> QED
      BY <3>2 DEF Descends, place, L
  <2> HIDE DEF k, i, n
  <2>4. /\ place(i) \in Nat /\ place(k) = place(i) \div 2 /\ Pow2[j + 1] = 2 * Pow2[j]
        /\ Pow2[j] \in Nat
        /\ at[k] = Parent(at[i], proof[k], place(i))
    <3>1. i = k - 1 /\ j \in 0 .. MaxLevels
      BY <1>1, <2>2 DEF i
    <3>2. place(i) \in Nat /\ place(k) = place(i) \div 2
      BY <1>2, <2>2, <3>1
    <3>3. Pow2[j + 1] = 2 * Pow2[j] /\ Pow2[j] \in Nat
      BY <1>1, <2>2, <3>1
    <3>4. at[k] = Parent(at[i], proof[k], place(i))
      BY <1>3, <2>2, <3>1
    <3> QED
      BY <3>2, <3>3, <3>4
  <2>5. at[i] = row[n - 1][place(i) + 1] /\ proof[k] = row[n - 1][Sibling(place(i))]
    BY <2>2, <2>3, <2>4, ParentsPlace
  <2>6. place(i) < Pow2[j + 1]
    BY <2>3, <2>4
  <2> QED
    BY <2>2, <2>5, <2>6 DEF Descends, L, place
<1>7. Nat \subseteq Good
  <2> HIDE DEF Good
  <2> QED
    BY <1>5, <1>6, NatSetInduction
<1>8. \A j \in 0 .. MaxLevels : j \in Nat
  BY <1>1
<1> QED
  BY <1>7, <1>8 DEF at, L

(* A proof that is accepted is as long as the tree is high, and its leaf is *)
(* the one at the index.                                                    *)
LEMMA AcceptedIsMember ==
  ASSUME NEW S, NEW leaves \in Seq(S), IsComplete(leaves), \A x \in S : IsLeaf(x),
         NEW node, IsLeaf(node), NEW T, NEW proof \in Seq(T), proof # << >>, NEW index \in Nat,
         VerifyMerkleProof(node, TreeRoot(leaves), proof, index)
  PROVE  /\ index < Len(leaves)
         /\ node = leaves[index + 1]
         /\ proof = ProofOf(leaves, index)
<1> DEFINE row == Levels(leaves)
           D == Depth(leaves)
           L == Len(proof)
           at == Ascent(node, proof, index)
<1>1. TreeOf(row, D, leaves)
  BY CompleteTree
<1>2. /\ L \in 0 .. MaxLevels /\ L \in Nat /\ D \in 0 .. MaxLevels /\ D \in Nat /\ MaxLevels \in Nat
      /\ Pow2[D] = Len(leaves) /\ row[0] = leaves /\ Len(leaves) \in Nat
  BY <1>1, LevelsAssumption DEF TreeOf, VerifyMerkleProof
<1>3. index < Pow2[L] /\ RootReached(node, proof, index) = row[D][1]
  BY DEF VerifyMerkleProof, TreeRoot
<1>4. at[0] = node /\ \A i \in 1 .. L : at[i] = Parent(at[i - 1], proof[i], Shifted(index, i - 1))
  BY <1>2, AscentSteps
<1>5. \A x \in 1 .. D : D - x \in 0 .. D
  BY <1>2
<1>6. \A j \in 0 .. MaxLevels : j <= D /\ j <= L => Descends(row, D, at, proof, index, j)
  BY <1>1, <1>2, <1>3, Descent
<1>7. /\ \A n \in 0 .. MaxLevels : Pow2[n] \in Nat \ {0} /\ Shifted(index, n) \in Nat
      /\ Shifted(index, 0) = index
  BY Pow2Steps, ShiftSteps
<1>8. \A i \in 1 .. Len(leaves) : IsLeaf(leaves[i])
  OBVIOUS
<1>9. proof \in [1 .. L -> T]
  OBVIOUS
<1> HIDE DEF row, D, L, at
<1>10. L = D
  <2>1. ASSUME L < D PROVE FALSE
    <3>1. L - L = 0 /\ D - L \in 1 .. D /\ L <= D /\ L <= L /\ D - (D - L) = L
      BY <1>2, <2>1
    <3>2. Descends(row, D, at, proof, index, L)
      BY <1>2, <1>6, <3>1
    <3>3. at[0] = row[D - L][Shifted(index, 0) + 1] /\ Shifted(index, 0) < Pow2[L]
      BY <3>1, <3>2 DEF Descends, L
    <3>4. index + 1 \in 1 .. Pow2[D - (D - L)]
      BY <1>2, <1>7, <3>1, <3>3
    <3>5. ~IsLeaf(row[D - L][index + 1])
      BY <1>1, <3>1, <3>4 DEF TreeOf, IsLeaf
    <3> QED
      BY <1>4, <1>7, <3>3, <3>5
  <2>2. ASSUME D < L PROVE FALSE
    <3>1. L - D \in 1 .. L /\ L - D \in 0 .. MaxLevels /\ D <= L /\ D <= D /\ D - D = 0
      BY <1>2, <2>2
    <3>2. Descends(row, D, at, proof, index, D)
      BY <1>2, <1>6, <3>1
    <3>3. at[L - D] = leaves[Shifted(index, L - D) + 1] /\ Shifted(index, L - D) < Pow2[D]
      BY <1>2, <3>1, <3>2 DEF Descends, L
    <3>4. Shifted(index, L - D) + 1 \in 1 .. Len(leaves)
      BY <1>2, <1>7, <3>1, <3>3
    <3>5. ~IsLeaf(at[L - D])
      BY <1>4, <3>1, ParentIsInner
    <3> QED
      BY <1>8, <3>3, <3>4, <3>5
  <2> QED
    BY <1>2, <2>1, <2>2
<1>11. index < Len(leaves) /\ node = leaves[index + 1]
  <2>1. D <= D /\ D <= L /\ L - D = 0 /\ D - D = 0
    BY <1>2, <1>10
  <2>2. Descends(row, D, at, proof, index, D)
    BY <1>2, <1>6, <2>1
  <2>3. at[0] = leaves[Shifted(index, 0) + 1]
    BY <1>2, <2>1, <2>2 DEF Descends, L
  <2> QED
    BY <1>2, <1>3, <1>4, <1>7, <1>10, <2>3
<1>12. ASSUME NEW k \in 1 .. D
       PROVE  proof[k] = row[k - 1][Sibling(Shifted(index, k - 1))]
  <2> DEFINE j == D - k + 1
  <2>1. /\ j \in 0 .. MaxLevels /\ j <= D /\ j <= L /\ j > 0
        /\ L - j = k - 1 /\ (k - 1) + 1 = k /\ D - j = k - 1
    BY <1>2, <1>10
  <2>2. Descends(row, D, at, proof, index, j)
    BY <1>6, <2>1
  <2> HIDE DEF j
  <2> QED
    BY <2>1, <2>2 DEF Descends, L
<1>13. proof = ProofOf(leaves, index)
  <2>1. proof = [k \in 1 .. D |-> row[k - 1][Sibling(Shifted(index, k - 1))]]
    BY <1>9, <1>10, <1>12
  <2> QED
    BY <2>1 DEF ProofOf, row, D, Sibling
<1> QED
  BY <1>11, <1>13

(* The proof of a member leads to the root, by the nodes of the tree. *)
LEMMA MemberIsAccepted ==
  ASSUME NEW S, NEW leaves \in Seq(S), IsComplete(leaves), Len(leaves) > 1,
         NEW index \in Nat, index < Len(leaves)
  PROVE  VerifyMerkleProof(leaves[index + 1], TreeRoot(leaves), ProofOf(leaves, index), index)
<1> DEFINE row == Levels(leaves)
           D == Depth(leaves)
           proof == ProofOf(leaves, index)
           node == leaves[index + 1]
           at == Ascent(node, proof, index)
           place(k) == Shifted(index, k)
           Good == {k \in Nat : k <= D => at[k] = row[k][place(k) + 1] /\ place(k) < Pow2[D - k]}
<1>1. TreeOf(row, D, leaves)
  BY CompleteTree
<1>2. /\ D \in 0 .. MaxLevels /\ D \in Nat /\ MaxLevels \in Nat
      /\ Pow2[D] = Len(leaves) /\ row[0] = leaves /\ Len(leaves) \in Nat
  BY <1>1, LevelsAssumption DEF TreeOf
<1>3. Len(proof) = D /\ \A k \in 1 .. D : proof[k] = row[k - 1][Sibling(place(k - 1))]
  <2>1. proof = [k \in 1 .. D |-> row[k - 1][Sibling(place(k - 1))]]
    BY DEF ProofOf, Sibling
  <2> DEFINE T == {row[k - 1][Sibling(place(k - 1))] : k \in 1 .. D}
  <2>2. proof \in [1 .. D -> T]
    BY <2>1
  <2> HIDE DEF T, proof, D, row, place
  <2>3. Len(proof) = D
    BY <1>2, <2>2
  <2> QED
    BY <2>1, <2>3
<1> HIDE DEF proof
<1>4. at[0] = node /\ \A k \in 1 .. D : at[k] = Parent(at[k - 1], proof[k], place(k - 1))
  BY <1>2, <1>3, AscentSteps
<1>5. /\ \A n \in 0 .. MaxLevels : Pow2[n] \in Nat \ {0} /\ place(n) \in Nat
      /\ \A n \in 1 .. MaxLevels : Pow2[n] = 2 * Pow2[n - 1] /\ place(n) = place(n - 1) \div 2
      /\ Pow2[0] = 1 /\ place(0) = index
  BY Pow2Steps, ShiftSteps
<1> HIDE DEF row, D, at, place
<1>6. 0 \in Good
  <2>1. D - 0 = D
    BY <1>2
  <2> QED
    BY <1>2, <1>4, <1>5, <2>1
<1>7. ASSUME NEW j \in Nat, j \in Good
      PROVE  j + 1 \in Good
  <2> DEFINE k == j + 1
             n == D - k
  <2>1. SUFFICES ASSUME k <= D
                 PROVE  at[k] = row[k][place(k) + 1] /\ place(k) < Pow2[n]
    OBVIOUS
  <2>2. /\ k \in 1 .. D /\ k \in 1 .. MaxLevels /\ k - 1 = j /\ j <= D
        /\ n + 1 \in 1 .. MaxLevels /\ (n + 1) - 1 = n /\ D - j = n + 1 /\ n \in 0 .. MaxLevels
        /\ j \in 0 .. MaxLevels
    BY <1>2, <2>1
  <2>3. at[j] = row[j][place(j) + 1] /\ place(j) < Pow2[n + 1]
    BY <1>7, <2>2
  <2> HIDE DEF n, k
  <2>4. Pow2[n + 1] = 2 * Pow2[n] /\ Pow2[n] \in Nat /\ place(j) \in Nat /\ place(k) = place(j) \div 2
    BY <1>5, <2>2
  <2>5. place(k) < Pow2[n]
    BY <2>3, <2>4
  <2>6. /\ at[k] = Parent(at[j], proof[k], place(j))
        /\ proof[k] = row[k - 1][Sibling(place(j))]
        /\ at[j] = row[k - 1][place(j) + 1]
    BY <1>3, <1>4, <2>2, <2>3
  <2>7. Parent(at[j], proof[k], place(j)) = row[k][place(j) \div 2 + 1]
    BY <1>1, <2>2, <2>4, <2>5, <2>6, ParentsPlace DEF n
  <2> QED
    BY <2>4, <2>5, <2>6, <2>7
<1>8. D \in Good
  <2> HIDE DEF Good
  <2> QED
    BY <1>2, <1>6, <1>7, NatSetInduction
<1>9. at[D] = row[D][1]
  <2>1. D - D = 0 /\ D <= D
    BY <1>2
  <2>2. at[D] = row[D][place(D) + 1] /\ place(D) < 1 /\ place(D) \in Nat
    BY <1>2, <1>5, <1>8, <2>1
  <2>3. place(D) + 1 = 1
    BY <2>2
  <2> QED
    BY <2>2, <2>3
<1> QED
  BY <1>2, <1>3, <1>9 DEF VerifyMerkleProof, RootReached, TreeRoot, at, row, D, node, proof

(* A proof of the tree's is a list as long as the tree is high, and no tree *)
(* of more than one leaf is proved by the empty list.                       *)
LEMMA ProofIsList ==
  ASSUME NEW leaves, Depth(leaves) \in Nat, NEW index
  PROVE  \E T : ProofOf(leaves, index) \in [1 .. Depth(leaves) -> T]
<1> DEFINE D == Depth(leaves)
           At(k) == Levels(leaves)[k - 1][Sibling(Shifted(index, k - 1))]
           T == {At(k) : k \in 1 .. D}
<1>1. ProofOf(leaves, index) = [k \in 1 .. D |-> At(k)]
  BY DEF ProofOf, Sibling
<1>2. ProofOf(leaves, index) \in [1 .. D -> T]
  <2> HIDE DEF At, D
  <2> QED
    BY <1>1
<1> QED
  BY <1>2

LEMMA HighTree ==
  ASSUME NEW S, NEW leaves \in Seq(S), IsComplete(leaves), Len(leaves) > 1
  PROVE  Depth(leaves) \in Nat \ {0} /\ ~IsLeaf(TreeRoot(leaves))
<1> DEFINE row == Levels(leaves)
           D == Depth(leaves)
<1>1. TreeOf(row, D, leaves)
  BY CompleteTree
<1> HIDE DEF row, D
<1>2. D \in 0 .. MaxLevels /\ D # 0 /\ MaxLevels \in Nat
  BY <1>1, LevelsAssumption, Pow2Steps DEF TreeOf
<1>3. D \in 1 .. D /\ D - D = 0 /\ 1 \in 1 .. Pow2[0]
  BY <1>2, Pow2Steps
<1>4. row[D][1] = InnerNode(row[D - 1][2 * 1 - 1], row[D - 1][2 * 1])
  BY <1>1, <1>3 DEF TreeOf
<1> QED
  BY <1>2, <1>4 DEF TreeRoot, IsLeaf, row, D

LEMMA EmptyProofRefused ==
  ASSUME NEW S, NEW leaves \in Seq(S), IsComplete(leaves), Len(leaves) > 1,
         NEW node, IsLeaf(node), NEW index
  PROVE  ~VerifyMerkleProof(node, TreeRoot(leaves), << >>, index)
<1> DEFINE proof == << >>
<1>1. Len(proof) = 0 /\ Len(proof) \in Nat
  OBVIOUS
<1> HIDE DEF proof
<1>2. Ascent(node, proof, index)[0] = node
  BY <1>1, AscentSteps
<1>3. RootReached(node, proof, index) = node
  BY <1>1, <1>2 DEF RootReached
<1>4. ~VerifyMerkleProof(node, TreeRoot(leaves), proof, index)
  BY <1>3, HighTree DEF VerifyMerkleProof
<1> QED
  BY <1>4 DEF proof
=============================================================================
