------------------------ MODULE AuthorizationProofs ------------------------
(***************************************************************************)
(* Proofs about Authorization, for any transactions, configurations and    *)
(* verification programs.                                                  *)
(*                                                                         *)
(* Scanned is a fold over the transaction.  Seen from its end it is a      *)
(* sequence of scans, one for each instruction visited (ScanSteps), and    *)
(* ScanInv says what such a scan knows: every slot that was closed was     *)
(* closed by a call of its own, and no call was passed over for an earlier *)
(* one.  From it follow both what a successful scan proves and what it     *)
(* decides.                                                                *)
(***************************************************************************)
EXTENDS Authorization, SequenceTheorems, DataProofs

Scans(list, earlier) ==
  [open : SUBSET (1 .. Len(list)),
   found : [1 .. Len(list) -> {<< >>} \cup {earlier[j].accounts : j \in DOMAIN earlier}]]

NothingFound(list) == [open |-> 1 .. Len(list), found |-> [i \in 1 .. Len(list) |-> << >>]]

LEMMA FillSlotType ==
  ASSUME NEW list, Len(list) \in Nat, NEW data, NEW earlier, NEW j \in DOMAIN earlier,
         NEW scan \in Scans(list, earlier)
  PROVE  /\ FillSlot(list, data, earlier[j], scan) \in Scans(list, earlier)
         /\ LET slots == OpenSlots(list, scan, earlier[j].program)
            IN  slots # {} => Min(slots) \in slots
<1> DEFINE slots == OpenSlots(list, scan, earlier[j].program)
<1>1. slots \in SUBSET (1 .. Len(list))
  BY DEF Scans, OpenSlots
<1>2. slots # {} => Min(slots) \in slots
  <2>1. slots \in SUBSET Nat
    BY <1>1
  <2> HIDE DEF slots
  <2> QED
    BY <2>1, LeastOfNats
<1>3. slots # {} =>
        [open |-> scan.open \ {Min(slots)},
         found |-> [scan.found EXCEPT ![Min(slots)] = earlier[j].accounts]] \in Scans(list, earlier)
  <2> HIDE DEF slots
  <2> QED
    BY <1>1, <1>2 DEF Scans
<1>4. FillSlot(list, data, earlier[j], scan) \in Scans(list, earlier)
  BY <1>3 DEF FillSlot
<1> QED
  BY <1>2, <1>4

(* scans[k]: the scan once the instructions from k on have been visited. *)
IsScan(list, data, earlier, scans) ==
  /\ scans \in [1 .. Len(earlier) + 1 -> Scans(list, earlier)]
  /\ scans[Len(earlier) + 1] = NothingFound(list)
  /\ \A k \in 1 .. Len(earlier) :
       scans[k] = FillSlot(list, data, earlier[k], scans[k + 1])
  /\ Scanned(list, data, earlier) = scans[1]

LEMMA ScanSteps ==
  ASSUME NEW list, Len(list) \in Nat, NEW data, NEW S, NEW earlier \in Seq(S)
  PROVE  \E scans : IsScan(list, data, earlier, scans)
<1> DEFINE n == Len(earlier)
           D == 1 .. n
           V == Scans(list, earlier)
           base == NothingFound(list)
           fill == [p \in D \X V |-> FillSlot(list, data, earlier[p[1]], p[2])]
           least == [s \in SUBSET D |-> Min(s)]
           Next(g, s) == IF s = {} THEN base
                         ELSE FillSlot(list, data, earlier[Min(s)], g[s \ {Min(s)}])
           h == CHOOSE g : g = [s \in SUBSET D |-> Next(g, s)]
<1>1. n \in Nat /\ DOMAIN earlier = D /\ IsFiniteSet(D)
  BY LenProperties, FS_Interval
<1>2. base \in V
  BY DEF NothingFound, Scans
<1>3. fill \in [D \X V -> V]
  <2>1. \A j \in D, scan \in V : FillSlot(list, data, earlier[j], scan) \in V
    BY <1>1, FillSlotType
  <2> HIDE DEF V, D
  <2> QED
    BY <2>1
<1>4. \A s \in SUBSET D : s # {} => least[s] = Min(s) /\ Min(s) \in s
  <2>1. \A s \in SUBSET D : s \in SUBSET Nat
    BY <1>1
  <2> QED
    BY <2>1, LeastOfNats
<1>5. PICK g \in [SUBSET D -> V] : Folds(g, least, fill, base, D)
  <2>1. \A s \in SUBSET D : s # {} => least[s] \in s
    BY <1>4
  <2>2. Picks(least, D)
    BY <2>1 DEF Picks
  <2> HIDE DEF D, V, base, fill, least, Next, h
  <2> QED
    BY <1>1, <1>2, <1>3, <2>2, FoldExists
<1>6. \A s \in SUBSET D : g[s] = Next(g, s)
  <2>1. ASSUME NEW s \in SUBSET D, s # {}
        PROVE  g[s] = FillSlot(list, data, earlier[Min(s)], g[s \ {Min(s)}])
    <3>1. Min(s) \in D /\ g[s \ {Min(s)}] \in V
      BY <1>4, <1>5, <2>1
    <3>2. g[s] = fill[<<Min(s), g[s \ {Min(s)}]>>]
      BY <1>4, <1>5, <2>1 DEF Folds
    <3> HIDE DEF D, V
    <3> QED
      BY <3>1, <3>2
  <2>2. g[{}] = base
    BY <1>5 DEF Folds
  <2> QED
    BY <2>1, <2>2
<1>7. g = [s \in SUBSET D |-> Next(g, s)]
  <2> HIDE DEF Next, D, V
  <2> QED
    BY <1>5, <1>6
<1>8. h = [s \in SUBSET D |-> Next(h, s)]
  <2> HIDE DEF Next, D
  <2> QED
    BY <1>7
<1>9. Scanned(list, data, earlier) = h[D]
  BY <1>1 DEF Scanned, FoldRight, MapThenFoldSet, NothingFound
<1>10. \A s \in SUBSET D : g[s] = h[s]
  <2> HIDE DEF h
  <2>1. g[{}] = h[{}]
    BY <1>6, <1>8
  <2>2. \A s \in SUBSET D : s # {} =>
          /\ least[s] \in s
          /\ g[s \ {least[s]}] = h[s \ {least[s]}] => g[s] = h[s]
    BY <1>4, <1>6, <1>8
  <2>3. SameSteps(g, h, least, D)
    BY <2>1, <2>2 DEF SameSteps
  <2> HIDE DEF least, D
  <2> QED
    BY <1>1, <2>3, FoldUnique
<1> DEFINE scans == [k \in 1 .. n + 1 |-> g[k .. n]]
<1>11. \A k \in 1 .. n + 1 : k .. n \in SUBSET D
  BY <1>1
<1>12. scans \in [1 .. n + 1 -> V]
  <2> HIDE DEF V, D
  <2> QED
    BY <1>5, <1>11
<1>13. scans[n + 1] = base
  <2>1. (n + 1) .. n = {} /\ n + 1 \in 1 .. n + 1
    BY <1>1
  <2> QED
    BY <1>6, <2>1
<1>14. ASSUME NEW k \in 1 .. n
       PROVE  scans[k] = FillSlot(list, data, earlier[k], scans[k + 1])
  <2>1. /\ k .. n # {} /\ k .. n \in SUBSET Nat
        /\ k \in 1 .. n + 1 /\ k + 1 \in 1 .. n + 1
        /\ k \in k .. n /\ \A y \in k .. n : k <= y
    BY <1>1
  <2>2. Min(k .. n) \in k .. n /\ \A y \in k .. n : Min(k .. n) <= y
    BY <2>1, LeastOfNats
  <2>3. Min(k .. n) = k
    BY <2>1, <2>2
  <2>4. (k .. n) \ {k} = (k + 1) .. n
    BY <1>1
  <2>5. g[k .. n] = FillSlot(list, data, earlier[k], g[(k + 1) .. n])
    BY <1>6, <1>11, <2>1, <2>3, <2>4
  <2> QED
    BY <2>1, <2>5
<1>15. Scanned(list, data, earlier) = scans[1]
  <2> HIDE DEF h
  <2> QED
    BY <1>1, <1>9, <1>10
<1> QED
  <2> HIDE DEF scans
  <2> QED
    BY <1>12, <1>13, <1>14, <1>15 DEF IsScan

-----------------------------------------------------------------------------
(***************************************************************************)
(* What a scan knows once the instructions from k on have been visited:    *)
(* each closed slot has a call of its own, whose accounts it holds, and a  *)
(* matching call that closed no slot came when the slots of its program    *)
(* were all closed, by later calls.                                        *)
(***************************************************************************)
Closed(list, scan) == (1 .. Len(list)) \ scan.open

CallWith(call, data) == call.kind = "call" /\ call.data = data

Takes(list, data, earlier, k, scan, taker) ==
  /\ taker \in [Closed(list, scan) -> k .. Len(earlier)]
  /\ \A i, j \in Closed(list, scan) : taker[i] = taker[j] => i = j
  /\ \A i \in Closed(list, scan) :
       /\ CallWith(earlier[taker[i]], data)
       /\ earlier[taker[i]].program = list[i]
       /\ scan.found[i] = earlier[taker[i]].accounts
  /\ \A j \in k .. Len(earlier) : CallWith(earlier[j], data) =>
       \/ \E i \in Closed(list, scan) : taker[i] = j
       \/ \A i \in 1 .. Len(list) :
            list[i] = earlier[j].program => i \notin scan.open /\ taker[i] > j

LEMMA CallTaken ==
  ASSUME NEW list, Len(list) \in Nat, NEW data, NEW S, NEW earlier \in Seq(S),
         NEW k \in 1 .. Len(earlier), NEW scan \in Scans(list, earlier), NEW taker,
         Takes(list, data, earlier, k + 1, scan, taker)
  PROVE  \E t : Takes(list, data, earlier, k, FillSlot(list, data, earlier[k], scan), t)
<1> DEFINE n     == Len(earlier)
           call  == earlier[k]
           slots == OpenSlots(list, scan, call.program)
           m     == Min(slots)
           new   == FillSlot(list, data, call, scan)
           closed == Closed(list, scan)
<1>1. n \in Nat /\ k \in DOMAIN earlier /\ k \in Nat
  BY LenProperties
<1>2. slots # {} => m \in slots
  BY <1>1, FillSlotType
<1>3. CASE CallWith(call, data) /\ slots # {}
  <2> DEFINE t == [i \in closed \cup {m} |-> IF i = m THEN k ELSE taker[i]]
  <2>1. m \in 1 .. Len(list) /\ m \in scan.open /\ list[m] = call.program /\ m \notin closed
    BY <1>2, <1>3 DEF OpenSlots, Scans, Closed
  <2>2. new = [open |-> scan.open \ {m}, found |-> [scan.found EXCEPT ![m] = call.accounts]]
    BY <1>3 DEF FillSlot, CallWith
  <2> HIDE DEF m, new
  <2>3. Closed(list, new) = closed \cup {m}
    BY <2>1, <2>2 DEF Closed
  <2>4. t \in [Closed(list, new) -> k .. n]
    <3>1. \A i \in closed : taker[i] \in (k + 1) .. n
      BY DEF Takes
    <3>2. \A i \in closed : taker[i] \in k .. n
      BY <1>1, <3>1
    <3>3. k \in k .. n
      BY <1>1
    <3> HIDE DEF closed, n
    <3> QED
      BY <2>3, <3>2, <3>3
  <2>5. t[m] = k /\ \A i \in closed : t[i] = taker[i] /\ taker[i] \in (k + 1) .. n /\ i # m
    BY <2>1 DEF Takes
  <2> HIDE DEF t
  <2>6. \A i, j \in Closed(list, new) : t[i] = t[j] => i = j
    <3>1. \A i \in closed : taker[i] # k
      BY <1>1, <2>5
    <3> QED
      BY <2>3, <2>5, <3>1 DEF Takes
  <2>7. ASSUME NEW i \in Closed(list, new)
        PROVE  /\ CallWith(earlier[t[i]], data)
               /\ earlier[t[i]].program = list[i]
               /\ new.found[i] = earlier[t[i]].accounts
    <3>1. CASE i = m
      <4>1. new.found[m] = call.accounts
        BY <2>1, <2>2 DEF Scans
      <4> QED
        BY <1>3, <2>1, <2>5, <3>1, <4>1
    <3>2. CASE i \in closed
      <4>1. new.found[i] = scan.found[i]
        BY <2>2, <2>5, <3>2 DEF Scans, Closed
      <4> QED
        BY <2>5, <3>2, <4>1 DEF Takes
    <3> QED
      BY <2>3, <3>1, <3>2
  <2>8. ASSUME NEW j \in k .. n, CallWith(earlier[j], data)
        PROVE  \/ \E i \in Closed(list, new) : t[i] = j
               \/ \A i \in 1 .. Len(list) :
                    list[i] = earlier[j].program => i \notin new.open /\ t[i] > j
    <3>1. CASE j = k
      BY <2>3, <2>5, <3>1
    <3>2. CASE j # k
      <4>1. j \in (k + 1) .. n
        BY <1>1, <3>2
      <4>2. CASE \E i \in closed : taker[i] = j
        BY <2>3, <2>5, <4>2
      <4>3. CASE \A i \in 1 .. Len(list) :
                   list[i] = earlier[j].program => i \notin scan.open /\ taker[i] > j
        <5>1. \A i \in 1 .. Len(list) : list[i] = earlier[j].program => i \in closed
          BY <4>3 DEF Closed
        <5> QED
          BY <2>2, <2>5, <4>3, <5>1
      <4> QED
        BY <2>8, <4>1, <4>2, <4>3 DEF Takes
    <3> QED
      BY <3>1, <3>2
  <2> QED
    BY <2>4, <2>6, <2>7, <2>8 DEF Takes, new
<1>4. CASE ~(CallWith(call, data) /\ slots # {})
  <2>1. new = scan
    BY <1>4 DEF FillSlot, CallWith
  <2>2. taker \in [closed -> k .. n]
    <3>1. taker \in [closed -> (k + 1) .. n]
      BY DEF Takes
    <3>2. \A i \in closed : taker[i] \in k .. n
      BY <1>1, <3>1
    <3> QED
      BY <3>1, <3>2
  <2>3. ASSUME NEW j \in k .. n, CallWith(earlier[j], data)
        PROVE  \/ \E i \in closed : taker[i] = j
               \/ \A i \in 1 .. Len(list) :
                    list[i] = earlier[j].program => i \notin scan.open /\ taker[i] > j
    <3>1. CASE j = k
      <4>1. slots = {}
        BY <1>4, <2>3, <3>1
      <4>2. \A i \in 1 .. Len(list) : list[i] = call.program => i \in closed
        BY <4>1 DEF OpenSlots, Closed
      <4>3. \A i \in closed : i \notin scan.open /\ taker[i] > k
        <5>1. \A i \in closed : taker[i] \in (k + 1) .. n
          BY DEF Takes
        <5>2. \A i \in closed : taker[i] > k
          BY <1>1, <5>1
        <5> QED
          BY <5>2 DEF Closed
      <4> QED
        BY <3>1, <4>2, <4>3
    <3>2. CASE j # k
      <4>1. j \in (k + 1) .. n
        BY <1>1, <3>2
      <4> QED
        BY <2>3, <4>1 DEF Takes
    <3> QED
      BY <3>1, <3>2
  <2>4. Takes(list, data, earlier, k, scan, taker)
    BY <2>2, <2>3 DEF Takes
  <2> QED
    BY <2>1, <2>4
<1> QED
  BY <1>3, <1>4

LEMMA ScannedFacts ==
  ASSUME NEW list, Len(list) \in Nat, NEW data, NEW S, NEW earlier \in Seq(S)
  PROVE  /\ Scanned(list, data, earlier) \in Scans(list, earlier)
         /\ \E t : Takes(list, data, earlier, 1, Scanned(list, data, earlier), t)
<1> DEFINE n == Len(earlier)
<1>1. n \in Nat
  BY LenProperties
<1>0. PICK scans : IsScan(list, data, earlier, scans)
  BY ScanSteps
<1>2. /\ scans \in [1 .. n + 1 -> Scans(list, earlier)]
      /\ scans[n + 1] = NothingFound(list)
      /\ \A k \in 1 .. n : scans[k] = FillSlot(list, data, earlier[k], scans[k + 1])
      /\ Scanned(list, data, earlier) = scans[1]
  BY <1>0 DEF IsScan
<1> DEFINE Good == {k \in 0 .. n : \E t : Takes(list, data, earlier, k + 1, scans[k + 1], t)}
<1>3. n \in Good
  <2>1. Closed(list, NothingFound(list)) = {}
    BY DEF Closed, NothingFound
  <2>2. (n + 1) .. n = {}
    BY <1>1
  <2>3. [i \in {} |-> 0] \in [{} -> {}]
    OBVIOUS
  <2>4. Takes(list, data, earlier, n + 1, NothingFound(list), [i \in {} |-> 0])
    BY <2>1, <2>2, <2>3 DEF Takes
  <2> QED
    BY <1>1, <1>2, <2>4
<1>4. ASSUME NEW k \in 0 .. n, k > 0, k \in Good
      PROVE  k - 1 \in Good
  <2>1. k \in 1 .. n /\ k + 1 \in 1 .. n + 1 /\ k - 1 \in 0 .. n /\ (k - 1) + 1 = k
    BY <1>1, <1>4
  <2>2. PICK t : Takes(list, data, earlier, k + 1, scans[k + 1], t)
    BY <1>4
  <2>3. \E u : Takes(list, data, earlier, k, FillSlot(list, data, earlier[k], scans[k + 1]), u)
    BY <1>2, <2>1, <2>2, CallTaken
  <2> QED
    BY <1>2, <2>1, <2>3
<1>5. 0 .. n \subseteq Good
  <2> HIDE DEF Good
  <2> QED
    BY <1>1, <1>3, <1>4, DownInduction
<1>6. 0 \in Good /\ 0 + 1 = 1 /\ 1 \in 1 .. n + 1
  BY <1>1, <1>5
<1> QED
  BY <1>2, <1>6

-----------------------------------------------------------------------------
(***************************************************************************)
(* What the scan decides.                                                  *)
(***************************************************************************)
SlotsOf(list, p) == {i \in 1 .. Len(list) : list[i] = p}

CallsOf(p, data, earlier) ==
  {j \in 1 .. Len(earlier) : /\ earlier[j].kind = "call"
                             /\ earlier[j].program = p
                             /\ earlier[j].data = data}

ClosedSlots(list, scan, p, part) == part \subseteq SlotsOf(list, p) \cap Closed(list, scan)

TakenBy(taker, part) == {taker[i] : i \in part}

LEMMA FiniteSlots ==
  ASSUME NEW list, Len(list) \in Nat, NEW p
  PROVE  IsFiniteSet(SlotsOf(list, p)) /\ Cardinality(SlotsOf(list, p)) \in Nat
<1>1. IsFiniteSet(1 .. Len(list)) /\ SlotsOf(list, p) \in SUBSET (1 .. Len(list))
  BY FS_Interval DEF SlotsOf
<1> QED
  BY <1>1, FS_Subset, FS_CardinalityType

LEMMA FiniteCalls ==
  ASSUME NEW S, NEW earlier \in Seq(S), NEW p, NEW data
  PROVE  IsFiniteSet(CallsOf(p, data, earlier)) /\ Cardinality(CallsOf(p, data, earlier)) \in Nat
<1>1. Len(earlier) \in Nat
  BY LenProperties
<1>2. IsFiniteSet(1 .. Len(earlier)) /\ CallsOf(p, data, earlier) \in SUBSET (1 .. Len(earlier))
  BY <1>1, FS_Interval DEF CallsOf
<1> QED
  BY <1>2, FS_Subset, FS_CardinalityType

(* The calls taken by the slots of a program are as many as the slots, and *)
(* are among its calls.                                                    *)
LEMMA TakenFacts ==
  ASSUME NEW list, Len(list) \in Nat, NEW data, NEW S, NEW earlier \in Seq(S),
         NEW scan, NEW t, Takes(list, data, earlier, 1, scan, t),
         NEW p, NEW part, ClosedSlots(list, scan, p, part)
  PROVE  /\ TakenBy(t, part) \subseteq CallsOf(p, data, earlier)
         /\ Cardinality(TakenBy(t, part)) = Cardinality(part)
<1> DEFINE F == TakenBy(t, part)
           f == [i \in part |-> t[i]]
<1>1. F \subseteq CallsOf(p, data, earlier)
  BY DEF Takes, CallsOf, CallWith, SlotsOf, TakenBy, ClosedSlots
<1>2. f \in Bijection(part, F)
  <2>1. \A i, j \in part : f[i] = f[j] => i = j
    BY DEF Takes, ClosedSlots
  <2>2. f \in [part -> F] /\ \A y \in F : \E i \in part : f[i] = y
    BY DEF TakenBy
  <2> HIDE DEF f, F
  <2> QED
    BY <2>1, <2>2 DEF Bijection, Injection, Surjection, IsInjective
<1>3. IsFiniteSet(part)
  <2>1. part \in SUBSET SlotsOf(list, p)
    BY DEF ClosedSlots
  <2> QED
    BY <2>1, FiniteSlots, FS_Subset
<1>4. Cardinality(F) = Cardinality(part)
  <2> HIDE DEF F, f
  <2> QED
    BY <1>2, <1>3, FS_Bijection DEF ExistsBijection
<1> QED
  BY <1>1, <1>4

(* A slot left open means that its program was called too seldom. *)
LEMMA OpenMeansFew ==
  ASSUME NEW list, Len(list) \in Nat, NEW data, NEW S, NEW earlier \in Seq(S),
         NEW scan, NEW t, Takes(list, data, earlier, 1, scan, t),
         NEW i \in 1 .. Len(list), i \in scan.open
  PROVE  Cardinality(CallsOf(list[i], data, earlier)) < Cardinality(SlotsOf(list, list[i]))
<1> DEFINE p    == list[i]
           part == SlotsOf(list, p) \cap Closed(list, scan)
<1>1. CallsOf(p, data, earlier) \subseteq TakenBy(t, part)
  <2>1. ASSUME NEW j \in CallsOf(p, data, earlier)
        PROVE  \E m \in part : t[m] = j
    <3>1. j \in 1 .. Len(earlier) /\ CallWith(earlier[j], data) /\ earlier[j].program = p
      BY DEF CallsOf, CallWith
    <3>2. PICK m \in Closed(list, scan) : t[m] = j
      BY <3>1 DEF Takes
    <3>3. m \in SlotsOf(list, p)
      BY <3>1, <3>2 DEF Takes, SlotsOf, Closed
    <3> QED
      BY <3>2, <3>3
  <2> QED
    BY <2>1 DEF TakenBy
<1>2. /\ TakenBy(t, part) \subseteq CallsOf(p, data, earlier)
      /\ Cardinality(TakenBy(t, part)) = Cardinality(part)
  <2>1. ClosedSlots(list, scan, p, part)
    BY DEF ClosedSlots
  <2> HIDE DEF part, p
  <2> QED
    BY <2>1, TakenFacts
<1>3. Cardinality(CallsOf(p, data, earlier)) = Cardinality(part)
  <2>1. CallsOf(p, data, earlier) = TakenBy(t, part)
    BY <1>1, <1>2
  <2> QED
    BY <1>2, <2>1
<1>4. part \in SUBSET SlotsOf(list, p) /\ part # SlotsOf(list, p)
  BY DEF SlotsOf, Closed
<1>5. /\ Cardinality(part) <= Cardinality(SlotsOf(list, p))
      /\ Cardinality(SlotsOf(list, p)) # Cardinality(part)
      /\ Cardinality(part) \in Nat /\ Cardinality(SlotsOf(list, p)) \in Nat
  <2> HIDE DEF part, p
  <2> QED
    BY <1>4, FiniteSlots, FS_Subset, FS_CardinalityType
<1> QED
  BY <1>3, <1>5

(* If the slots of a program are all closed, they hold its latest calls. *)
LEMMA ClosedByLatest ==
  ASSUME NEW list, Len(list) \in Nat, NEW data, NEW S, NEW earlier \in Seq(S),
         NEW scan, NEW t, Takes(list, data, earlier, 1, scan, t), scan.open = {}, NEW p
  PROVE  LET n == Cardinality(SlotsOf(list, p))
         IN  /\ LatestCalls(p, data, earlier, n) = TakenBy(t, SlotsOf(list, p))
             /\ Cardinality(TakenBy(t, SlotsOf(list, p))) = n
<1> DEFINE n    == Cardinality(SlotsOf(list, p))
           F    == TakenBy(t, SlotsOf(list, p))
           mine == CallsOf(p, data, earlier)
           Since(j) == {k \in mine : k >= j}
<1>1. F \subseteq mine /\ Cardinality(F) = n
  <2>1. ClosedSlots(list, scan, p, SlotsOf(list, p))
    BY DEF SlotsOf, Closed, ClosedSlots
  <2> QED
    BY <2>1, TakenFacts
<1>2. IsFiniteSet(mine) /\ mine \subseteq Nat /\ n \in Nat
  <2>1. mine \subseteq Nat
    BY DEF CallsOf
  <2> QED
    BY <2>1, FiniteCalls, FiniteSlots
<1>3. ASSUME NEW j \in mine
      PROVE  j \in F \/ \A k \in F : k > j
  <2>1. j \in 1 .. Len(earlier) /\ CallWith(earlier[j], data) /\ earlier[j].program = p
    BY DEF CallsOf, CallWith
  <2>2. CASE \E i \in Closed(list, scan) : t[i] = j
    <3>1. PICK i \in Closed(list, scan) : t[i] = j
      BY <2>2
    <3>2. i \in SlotsOf(list, p)
      BY <2>1, <3>1 DEF Takes, SlotsOf, Closed
    <3> QED
      BY <3>1, <3>2 DEF TakenBy
  <2>3. CASE \A i \in 1 .. Len(list) : list[i] = p => t[i] > j
    BY <2>3 DEF TakenBy, SlotsOf
  <2> QED
    BY <2>1, <2>2, <2>3 DEF Takes
<1>4. LatestCalls(p, data, earlier, n) = {j \in mine : Cardinality(Since(j)) <= n}
  BY DEF LatestCalls, CallsOf
<1> HIDE DEF F, mine, n
<1>5. ASSUME NEW j \in F
      PROVE  j \in mine /\ Cardinality(Since(j)) <= n
  <2>1. Since(j) \subseteq F
    <3>1. ASSUME NEW k \in mine, k >= j, k \notin F
          PROVE  FALSE
      <4>1. j > k
        BY <1>3, <3>1
      <4> QED
        BY <1>1, <1>2, <3>1, <4>1
    <3> QED
      BY <3>1
  <2>2. IsFiniteSet(F)
    BY <1>1, <1>2, FS_Subset
  <2> QED
    BY <1>1, <2>1, <2>2, FS_Subset
<1>6. ASSUME NEW j \in mine, Cardinality(Since(j)) <= n, j \notin F
      PROVE  FALSE
  <2>1. \A k \in F : k > j /\ k \in mine
    BY <1>1, <1>3, <1>6
  <2>2. F \cup {j} \in SUBSET Since(j) /\ Since(j) \in SUBSET mine
    <3>1. ASSUME NEW k \in F \cup {j}
          PROVE  k \in mine /\ k >= j
      <4>1. j \in Nat /\ j >= j
        BY <1>2
      <4>2. k \in F => k \in Nat /\ k \in mine /\ k > j
        BY <1>2, <2>1
      <4> QED
        BY <4>1, <4>2
    <3> QED
      BY <3>1
  <2>3. IsFiniteSet(F) /\ IsFiniteSet(Since(j)) /\ Cardinality(Since(j)) \in Nat
    BY <1>1, <1>2, <2>2, FS_Subset, FS_CardinalityType
  <2>4. Cardinality(F \cup {j}) = n + 1
    BY <1>1, <1>6, <2>3, FS_AddElement
  <2>5. Cardinality(F \cup {j}) <= Cardinality(Since(j))
    BY <2>2, <2>3, FS_Subset
  <2> QED
    BY <1>2, <1>6, <2>3, <2>4, <2>5
<1>7. LatestCalls(p, data, earlier, n) = F
  BY <1>4, <1>5, <1>6
<1> QED
  BY <1>1, <1>7 DEF F, n

LEMMA IntrospectedDirectly ==
  ASSUME NEW list, Len(list) \in Nat, DOMAIN list = 1 .. Len(list), NEW data, NEW target,
         NEW S, NEW earlier \in Seq(S)
  PROVE  Introspected(list, data, target, earlier)
           <=> DirectlyApproved(list, data, target, earlier)
<1> DEFINE scan == Scanned(list, data, earlier)
           Size(p) == Cardinality(SlotsOf(list, p))
           Latest(p) == LatestCalls(p, data, earlier, Size(p))
           Covers(j) == earlier[j].accounts # << >> /\ IsPrefix(target, earlier[j].accounts)
<1>1. PICK t : Takes(list, data, earlier, 1, scan, t)
  BY ScannedFacts
<1>2. Introspected(list, data, target, earlier) <=>
        scan.open = {} /\ \A i \in 1 .. Len(list) : CoversAccounts(target, scan.found[i])
  BY DEF Introspected
<1>3. DirectlyApproved(list, data, target, earlier) <=>
        \A i \in 1 .. Len(list) :
          Cardinality(Latest(list[i])) = Size(list[i]) /\ \A j \in Latest(list[i]) : Covers(j)
  BY DEF DirectlyApproved, SlotsOf, Range
<1> HIDE DEF scan
<1>4. CASE scan.open = {}
  <2>1. \A p : Latest(p) = TakenBy(t, SlotsOf(list, p)) /\ Cardinality(Latest(p)) = Size(p)
    BY <1>1, <1>4, ClosedByLatest
  <2>2. \A i \in 1 .. Len(list) : scan.found[i] = earlier[t[i]].accounts
    BY <1>1, <1>4 DEF Takes, Closed
  <2>3. \A i \in 1 .. Len(list) : CoversAccounts(target, scan.found[i]) <=> Covers(t[i])
    BY <2>2 DEF CoversAccounts
  <2>4. \A i \in 1 .. Len(list) : t[i] \in TakenBy(t, SlotsOf(list, list[i]))
    BY DEF TakenBy, SlotsOf
  <2>5. \A p : \A j \in TakenBy(t, SlotsOf(list, p)) : \E i \in 1 .. Len(list) : j = t[i]
    BY DEF TakenBy, SlotsOf
  <2> HIDE DEF Latest, Size, Covers
  <2> QED
    BY <1>2, <1>3, <1>4, <2>1, <2>3, <2>4, <2>5
<1>5. CASE scan.open # {}
  <2>1. scan.open \subseteq 1 .. Len(list)
    BY ScannedFacts DEF Scans, scan
  <2>2. PICK i \in 1 .. Len(list) : i \in scan.open
    BY <1>5, <2>1
  <2>3. Cardinality(CallsOf(list[i], data, earlier)) < Size(list[i])
    BY <1>1, <2>2, OpenMeansFew
  <2>4. Latest(list[i]) \in SUBSET CallsOf(list[i], data, earlier)
    BY DEF LatestCalls, CallsOf
  <2>5. /\ Cardinality(Latest(list[i])) <= Cardinality(CallsOf(list[i], data, earlier))
        /\ Cardinality(Latest(list[i])) \in Nat
        /\ Cardinality(CallsOf(list[i], data, earlier)) \in Nat /\ Size(list[i]) \in Nat
    <3> HIDE DEF Latest
    <3> QED
      BY <2>4, FiniteCalls, FiniteSlots, FS_Subset, FS_CardinalityType
  <2>6. Cardinality(Latest(list[i])) # Size(list[i])
    BY <2>3, <2>5
  <2> QED
    BY <1>2, <1>3, <1>5, <2>6
<1> QED
  BY <1>4, <1>5

(* A successful scan has found for every slot an earlier call that         *)
(* approves the target.                                                    *)
LEMMA IntrospectedApproves ==
  ASSUME NEW e, NEW list, Len(list) \in Nat, NEW S, NEW earlier \in Seq(S),
         Introspected(list, e.data, e.accounts, earlier), NEW p
  PROVE  Cardinality(SlotsOf(list, p)) <= ApprovalsOf(p, e, earlier)
<1> DEFINE scan == Scanned(list, e.data, earlier)
           approving == {j \in DOMAIN earlier : Approves(earlier[j], p, e)}
           slots == SlotsOf(list, p)
<1>1. PICK t : Takes(list, e.data, earlier, 1, scan, t)
  BY ScannedFacts
<1>2. /\ scan.open = {}
      /\ \A i \in 1 .. Len(list) : CoversAccounts(e.accounts, scan.found[i])
  BY DEF Introspected
<1> HIDE DEF scan
<1>3. ClosedSlots(list, scan, p, slots)
  BY <1>2 DEF ClosedSlots, SlotsOf, Closed
<1>4. /\ TakenBy(t, slots) \subseteq CallsOf(p, e.data, earlier)
      /\ Cardinality(TakenBy(t, slots)) = Cardinality(slots)
  BY <1>1, <1>3, TakenFacts
<1>5. DOMAIN earlier = 1 .. Len(earlier)
  BY LenProperties
<1>6. TakenBy(t, slots) \in SUBSET approving
  <2>1. ASSUME NEW i \in slots
        PROVE  t[i] \in approving
    <3>1. i \in 1 .. Len(list) /\ i \in Closed(list, scan)
      BY <1>2 DEF SlotsOf, Closed
    <3>2. IsPrefix(e.accounts, earlier[t[i]].accounts)
      BY <1>1, <1>2, <3>1 DEF Takes, CoversAccounts
    <3>3. t[i] \in CallsOf(p, e.data, earlier)
      BY <1>4 DEF TakenBy
    <3> QED
      BY <1>5, <3>2, <3>3 DEF CallsOf, Approves
  <2> QED
    BY <2>1 DEF TakenBy
<1>7. IsFiniteSet(approving)
  <2>1. approving \in SUBSET CallsOf(p, e.data, earlier)
    BY <1>5 DEF CallsOf, Approves
  <2> QED
    BY <2>1, FiniteCalls, FS_Subset
<1>8. Cardinality(TakenBy(t, slots)) <= Cardinality(approving)
  <2> HIDE DEF approving, slots
  <2> QED
    BY <1>6, <1>7, FS_Subset
<1> QED
  BY <1>4, <1>8 DEF ApprovalsOf

-----------------------------------------------------------------------------
(***************************************************************************)
(* The invariant.  The trace is a sequence of whatever was executed; what  *)
(* was executed was approved when it was, and the trace before it does not *)
(* change afterwards.                                                      *)
(***************************************************************************)
TraceIsSeq == \E S : trace \in Seq(S)

AuthInv == AuthTypeOK /\ TraceIsSeq /\ EveryOperationApproved

LEMMA ListFacts ==
  ASSUME NEW list \in Lists
  PROVE  /\ Len(list) \in 1 .. MaxPrograms /\ DOMAIN list = 1 .. Len(list)
         /\ list \in Seq(Programs)
<1>1. PICK n \in 1 .. MaxPrograms : list \in [1 .. n -> Programs]
  BY DEF Lists
<1>2. n \in Nat /\ Len(list) = n
  BY <1>1, RegistriesAssumption
<1>3. list \in Seq(Programs)
  BY <1>1, <1>2, SeqDef
<1> QED
  BY <1>1, <1>2, <1>3

LEMMA EntryFacts ==
  ASSUME NEW e \in EntryType
  PROVE  Len(e.programs) \in Nat /\ DOMAIN e.programs = 1 .. Len(e.programs)
<1>1. CASE e = NoEntry
  <2>1. << >> \in Seq({}) /\ Len(<< >>) = 0
    BY EmptySeq
  <2> QED
    BY <1>1, <2>1 DEF NoEntry
<1>2. ASSUME NEW cpi \in BOOLEAN, NEW ps \in Lists, e = Entry(cpi, ps)
      PROVE  Len(e.programs) \in Nat /\ DOMAIN e.programs = 1 .. Len(e.programs)
  <2>1. e.programs = ps
    BY <1>2 DEF Entry
  <2> QED
    BY <2>1, ListFacts, RegistriesAssumption
<1> QED
  BY <1>1, <1>2 DEF EntryType

LEMMA ApprovalsNat ==
  ASSUME NEW S, NEW calls \in Seq(S), NEW p, NEW e
  PROVE  ApprovalsOf(p, e, calls) \in Nat
<1> DEFINE A == {j \in DOMAIN calls : Approves(calls[j], p, e)}
<1>1. Len(calls) \in Nat /\ DOMAIN calls = 1 .. Len(calls)
  BY LenProperties
<1>2. IsFiniteSet(1 .. Len(calls)) /\ A \in SUBSET (1 .. Len(calls))
  BY <1>1, FS_Interval
<1>3. Cardinality(A) \in Nat
  <2> HIDE DEF A
  <2> QED
    BY <1>2, FS_Subset, FS_CardinalityType
<1> QED
  BY <1>3 DEF ApprovalsOf

(* The programs called by the instruction itself approve it. *)
LEMMA CpiApproves ==
  ASSUME NEW ins \in Instructions, InForce(ins) \in EntryType,
         ConfigUsable(ins), InForce(ins).cpi,
         CpiPossible(InForce(ins).programs, ins.accounts), NEW p
  PROVE  Cardinality(SlotsOf(InForce(ins).programs, p))
           <= ApprovalsOf(p, Executed(ins), MadeCalls(ins))
<1> DEFINE list  == InForce(ins).programs
           e     == Executed(ins)
           made  == MadeCalls(ins)
           core  == KeptAccounts(list, ins.accounts)
           slots == SlotsOf(list, p)
           approving == {j \in DOMAIN made : Approves(made[j], p, e)}
<1>1. EntryFor(ins.second.mint, ins.second.op) = InForce(ins)
  BY DEF ConfigUsable, ConfigPdaMatches, InForce
<1>2. ins.second.kind = "VerificationConfig"
  BY DEF ConfigUsable
<1>3. e.accounts = core /\ e.data = ins.data
  BY <1>1, <1>2 DEF Executed, CoreAccounts
<1>4. Len(list) \in Nat
  BY EntryFacts
<1>5. made = [i \in 1 .. Len(list) |->
                [kind |-> "call", program |-> list[i], data |-> ins.data, accounts |-> core]]
  BY <1>2 DEF MadeCalls
<1>6. IsPrefix(core, core)
  <2>1. ins.accounts \in Seq(Range(ins.accounts))
    BY InputsAssumption
  <2>2. /\ Len(ins.accounts) \in Nat
        /\ ins.accounts \in [1 .. Len(ins.accounts) -> Range(ins.accounts)]
    BY <2>1, LenProperties
  <2>3. Len(ins.accounts) - Len(list) \in Int
    BY <1>4, <2>2
  <2>4. \A i \in 1 .. Len(ins.accounts) - Len(list) : ins.accounts[i] \in Range(ins.accounts)
    BY <1>4, <2>2
  <2> DEFINE last == Len(ins.accounts) - Len(list)
             accounts == ins.accounts
             S == Range(accounts)
  <2>5. core \in Seq(S)
    <3>1. last \in Int /\ \A i \in 1 .. last : accounts[i] \in S
      BY <2>3, <2>4
    <3>2. core = SubSeq(accounts, 1, last)
      BY DEF KeptAccounts
    <3> HIDE DEF last, accounts, S, core
    <3> QED
      BY <3>1, <3>2, SubSeqProperties
  <2>6. Len(core) \in Nat
    BY <2>5, LenProperties
  <2> HIDE DEF core
  <2> QED
    BY <2>6 DEF IsPrefix
<1> HIDE DEF list, made, e, core
<1>7. slots \in SUBSET approving
  <2>1. ASSUME NEW i \in 1 .. Len(list), list[i] = p
        PROVE  i \in DOMAIN made /\ Approves(made[i], p, e)
    BY <1>3, <1>5, <1>6, <2>1 DEF Approves
  <2> QED
    BY <2>1 DEF SlotsOf
<1>8. IsFiniteSet(approving)
  <2>1. DOMAIN made = 1 .. Len(list)
    BY <1>5
  <2>2. approving \in SUBSET (1 .. Len(list)) /\ IsFiniteSet(1 .. Len(list))
    BY <1>4, <2>1, FS_Interval
  <2> HIDE DEF approving
  <2> QED
    BY <2>2, FS_Subset
<1>9. Cardinality(slots) <= Cardinality(approving)
  <2> HIDE DEF approving, slots
  <2> QED
    BY <1>7, <1>8, FS_Subset
<1> QED
  BY <1>9 DEF ApprovalsOf, list, made, e

LEMMA MadeIsSeq ==
  ASSUME NEW ins, InForce(ins) \in EntryType
  PROVE  \E S : MadeCalls(ins) \in Seq(S)
<1> DEFINE list == InForce(ins).programs
           call(i) == [kind |-> "call", program |-> list[i], data |-> ins.data,
                       accounts |-> KeptAccounts(list, ins.accounts)]
           S == {call(i) : i \in 1 .. Len(list)}
<1>1. Len(list) \in Nat
  BY EntryFacts
<1>2. [i \in 1 .. Len(list) |-> call(i)] \in [1 .. Len(list) -> S]
  OBVIOUS
<1>3. [i \in 1 .. Len(list) |-> call(i)] \in Seq(S)
  <2> HIDE DEF call, S, list
  <2> QED
    BY <1>1, <1>2, SeqDef
<1>4. << >> \in Seq(S)
  BY EmptySeq
<1> QED
  BY <1>3, <1>4 DEF MadeCalls

(* Whatever is executed was approved: by the calls before it or by those   *)
(* it made, or by the creator.                                             *)
LEMMA ExecutedApproved ==
  ASSUME NEW ins \in Instructions, InForce(ins) \in EntryType,
         NEW S, NEW earlier \in Seq(S), Verified(ins, earlier), HandlerAccepts(ins)
  PROVE  OperationApproved(Executed(ins), earlier)
<1> DEFINE e    == Executed(ins)
           list == InForce(ins).programs
<1>1. /\ e.accounts = CoreAccounts(ins) /\ e.data = ins.data /\ e.mint = ins.mint
      /\ e.op = ins.op /\ e.third = ins.third
      /\ e.inForce = InForce(ins) /\ e.made = MadeCalls(ins)
  BY DEF Executed
<1>2. e.accounts[1] = e.mint
  BY <1>1 DEF HandlerAccepts
<1>3. CASE ins.op \notin ProgramsOnlyOps /\ VerifiedByCreator(ins)
  <2>1. e.op \notin ProgramsOnlyOps /\ e.third = Creator(e.mint)
    BY <1>1, <1>3 DEF VerifiedByCreator
  <2> QED
    BY <1>2, <2>1 DEF OperationApproved
<1>4. CASE VerifiedByPrograms(ins, earlier)
  <2>1. ConfigUsable(ins) /\ EntryFor(ins.second.mint, ins.second.op) = InForce(ins)
    BY <1>4 DEF VerifiedByPrograms, ConfigUsable, ConfigPdaMatches, InForce
  <2>2. InForce(ins).registered
    BY <2>1 DEF ConfigUsable
  <2>3. Len(list) \in Nat
    BY EntryFacts
  <2>4. ASSUME NEW p
        PROVE  Cardinality(SlotsOf(list, p))
                 <= ApprovalsOf(p, e, earlier) + ApprovalsOf(p, e, e.made)
    <3>1. ApprovalsOf(p, e, earlier) \in Nat /\ ApprovalsOf(p, e, e.made) \in Nat
      BY <1>1, ApprovalsNat, MadeIsSeq
    <3>2. Cardinality(SlotsOf(list, p)) \in Nat
      BY <2>3, FiniteSlots
    <3>3. CASE InForce(ins).cpi
      <4>1. CpiPossible(list, ins.accounts)
        BY <1>4, <2>1, <3>3 DEF VerifiedByPrograms, ApprovedBy
      <4>2. Cardinality(SlotsOf(list, p)) <= ApprovalsOf(p, e, e.made)
        BY <1>1, <2>1, <3>3, <4>1, CpiApproves
      <4> HIDE DEF e, list
      <4> QED
        BY <3>1, <3>2, <4>2
    <3>4. CASE ~InForce(ins).cpi
      <4>1. Introspected(list, ins.data, ins.accounts, earlier)
        BY <1>4, <2>1, <3>4 DEF VerifiedByPrograms, ApprovedBy
      <4>2. CoreAccounts(ins) = ins.accounts
        BY <2>1, <3>4 DEF CoreAccounts
      <4>3. Introspected(list, e.data, e.accounts, earlier)
        BY <1>1, <4>1, <4>2
      <4> HIDE DEF e, list
      <4>4. Cardinality(SlotsOf(list, p)) <= ApprovalsOf(p, e, earlier)
        BY <2>3, <4>3, IntrospectedApproves
      <4> QED
        BY <3>1, <3>2, <4>4
    <3> QED
      BY <3>3, <3>4
  <2>5. e.inForce.programs = list /\ e.inForce.registered
    BY <1>1, <2>2
  <2> HIDE DEF e, list
  <2>6. OperationApproved(e, earlier)
    <3>1. \A k \in 1 .. Len(list) :
            Cardinality({n \in 1 .. Len(list) : list[n] = list[k]})
              <= ApprovalsOf(list[k], e, earlier) + ApprovalsOf(list[k], e, e.made)
      BY <2>4 DEF SlotsOf
    <3> QED
      BY <1>2, <2>5, <3>1, Zenon DEF OperationApproved
  <2> QED
    BY <2>6 DEF e
<1> QED
  BY <1>3, <1>4 DEF Verified

LEMMA Appended ==
  ASSUME NEW S, NEW old \in Seq(S), NEW x
  PROVE  /\ \E T : Append(old, x) \in Seq(T)
         /\ Len(old) \in Nat /\ Len(Append(old, x)) = Len(old) + 1
         /\ \A i \in 1 .. Len(old) : /\ Append(old, x)[i] = old[i]
                                     /\ SubSeq(Append(old, x), 1, i - 1) = SubSeq(old, 1, i - 1)
         /\ Append(old, x)[Len(old) + 1] = x
         /\ SubSeq(Append(old, x), 1, (Len(old) + 1) - 1) = old
<1> DEFINE T   == S \cup {x}
           new == Append(old, x)
           n   == Len(old)
<1>1. old \in Seq(T) /\ x \in T
  BY SeqMonotonic
<1>2. n \in Nat
  BY LenProperties
<1>3. /\ new \in Seq(T) /\ Len(new) = n + 1
      /\ \A i \in 1 .. n : new[i] = old[i]
      /\ new[n + 1] = x
  <2> HIDE DEF T
  <2> QED
    BY <1>1, AppendProperties
<1>4. \A i \in 1 .. n : old[i] \in T /\ new[i] \in T
  <2> HIDE DEF T
  <2> QED
    BY <1>1, <1>3, ElementOfSeq
<1> HIDE DEF new, T
<1>5. ASSUME NEW m \in 0 .. n
      PROVE  SubSeq(new, 1, m) = SubSeq(old, 1, m)
  <2>1. m \in Int /\ (m - 1) + 1 = m /\ m \in Nat
    BY <1>2
  <2>2. /\ SubSeq(old, 1, m) \in Seq(T) /\ Len(SubSeq(old, 1, m)) = m
        /\ \A i \in 1 .. m : SubSeq(old, 1, m)[i] = old[i]
    BY <1>2, <1>4, <2>1, SubSeqProperties
  <2>3. /\ SubSeq(new, 1, m) \in Seq(T) /\ Len(SubSeq(new, 1, m)) = m
        /\ \A i \in 1 .. m : SubSeq(new, 1, m)[i] = new[i]
    BY <1>2, <1>4, <2>1, SubSeqProperties
  <2>4. \A i \in 1 .. m : new[i] = old[i]
    BY <1>2, <1>3
  <2> QED
    BY <2>2, <2>3, <2>4, SeqEqual
<1>6. \A i \in 1 .. n : SubSeq(new, 1, i - 1) = SubSeq(old, 1, i - 1)
  <2>1. \A i \in 1 .. n : i - 1 \in 0 .. n
    BY <1>2
  <2> QED
    BY <1>5, <2>1
<1>7. SubSeq(new, 1, (n + 1) - 1) = old
  <2>1. (n + 1) - 1 = n /\ n \in 0 .. n
    BY <1>2
  <2>2. SubSeq(old, 1, n) = old
    BY SubSeqFull
  <2> QED
    BY <1>5, <2>1, <2>2
<1> QED
  BY <1>2, <1>3, <1>6, <1>7 DEF new

-----------------------------------------------------------------------------
(* The handlers that write a configuration keep what it can hold. *)
LEMMA WindowReplacedType ==
  ASSUME NEW old \in Lists, NEW offset \in Nat, NEW ps \in Lists \cup {<< >>},
         offset <= Len(old), WindowFits(offset, ps)
  PROVE  WindowReplaced(old, offset, ps) \in Lists
<1> DEFINE end == offset + Len(ps)
           n   == IF end > Len(old) THEN end ELSE Len(old)
           new == WindowReplaced(old, offset, ps)
<1>1. Len(old) \in 1 .. MaxPrograms /\ \A i \in 1 .. Len(old) : old[i] \in Programs
  BY ListFacts, ElementOfSeq
<1>2. Len(ps) \in Nat /\ \A i \in 1 .. Len(ps) : ps[i] \in Programs
  <2>1. ps \in Seq(Programs)
    BY ListFacts, EmptySeq
  <2> QED
    BY <2>1, LenProperties, ElementOfSeq
<1>3. n \in 1 .. MaxPrograms /\ end \in Nat
  BY <1>1, <1>2, RegistriesAssumption DEF WindowFits
<1>4. new = [i \in 1 .. n |-> IF offset < i /\ i <= end THEN ps[i - offset] ELSE old[i]]
  BY DEF WindowReplaced
<1>5. ASSUME NEW i \in 1 .. n
      PROVE  (IF offset < i /\ i <= end THEN ps[i - offset] ELSE old[i]) \in Programs
  <2>1. CASE offset < i /\ i <= end
    <3>1. i - offset \in 1 .. Len(ps)
      BY <1>2, <1>3, <2>1
    <3> QED
      BY <1>2, <2>1, <3>1
  <2>2. CASE ~(offset < i /\ i <= end)
    <3>1. i \in 1 .. Len(old)
      BY <1>1, <1>2, <1>3, <2>2
    <3> QED
      BY <1>1, <2>2, <3>1
  <2> QED
    BY <2>1, <2>2
<1>6. new \in [1 .. n -> Programs]
  <2> HIDE DEF n, end, new
  <2> QED
    BY <1>4, <1>5
<1> HIDE DEF n, new
<1>7. new \in Lists
  BY <1>3, <1>6 DEF Lists
<1> QED
  BY <1>7 DEF new

LEMMA ShortenedType ==
  ASSUME NEW old \in Lists, NEW size \in Nat, 0 < size, size < Len(old)
  PROVE  SubSeq(old, 1, size) \in Lists
<1>1. Len(old) \in 1 .. MaxPrograms /\ \A i \in 1 .. Len(old) : old[i] \in Programs
  BY ListFacts, ElementOfSeq
<1>2. \A i \in 1 .. size : old[i] \in Programs
  BY <1>1
<1>3. /\ SubSeq(old, 1, size) \in Seq(Programs)
      /\ Len(SubSeq(old, 1, size)) = size
  BY <1>2, SubSeqProperties
<1> DEFINE cut == SubSeq(old, 1, size)
<1>4. cut \in [1 .. size -> Programs] /\ size \in 1 .. MaxPrograms
  <2>1. cut \in Seq(Programs) /\ Len(cut) = size
    BY <1>3
  <2> HIDE DEF cut
  <2> QED
    BY <1>1, <2>1, LenProperties, RegistriesAssumption
<1> QED
  BY <1>4 DEF Lists

RegistryTyped == registry \in [Ops -> EntryType] /\ retired \subseteq Ops

LEMMA EntryMembers ==
  /\ NoEntry \in EntryType
  /\ \A cpi \in BOOLEAN, ps \in Lists : Entry(cpi, ps) \in EntryType
  /\ \A e \in EntryType : e.registered =>
       /\ e.programs \in Lists
       /\ \A ps \in Lists : [e EXCEPT !.programs = ps] \in EntryType
<1>1. NoEntry \in EntryType /\ \A cpi \in BOOLEAN, ps \in Lists : Entry(cpi, ps) \in EntryType
  BY DEF EntryType
<1>2. ASSUME NEW e \in EntryType, e.registered
      PROVE  /\ e.programs \in Lists
             /\ \A ps \in Lists : [e EXCEPT !.programs = ps] \in EntryType
  <2>1. e # NoEntry
    BY <1>2 DEF NoEntry
  <2>2. PICK cpi \in BOOLEAN, old \in Lists : e = Entry(cpi, old)
    BY <2>1 DEF EntryType
  <2>3. e = [registered |-> TRUE, cpi |-> cpi, programs |-> old]
    BY <2>2 DEF Entry
  <2>4. ASSUME NEW ps \in Lists
        PROVE  [e EXCEPT !.programs = ps] \in EntryType
    <3>1. [e EXCEPT !.programs = ps] = [registered |-> TRUE, cpi |-> cpi, programs |-> ps]
      <4> DEFINE record == [registered : BOOLEAN, cpi : BOOLEAN, programs : Lists]
                 entry  == e
                 write  == [entry EXCEPT !.programs = ps]
      <4>1. entry = [registered |-> TRUE, cpi |-> cpi, programs |-> old]
        BY <2>3
      <4> HIDE DEF entry
      <4>2. entry \in record /\ entry.registered = TRUE /\ entry.cpi = cpi
        BY <4>1
      <4>3. /\ write \in record
            /\ write.registered = TRUE /\ write.cpi = cpi /\ write.programs = ps
        BY <4>2
      <4> HIDE DEF write
      <4>4. write = [registered |-> TRUE, cpi |-> cpi, programs |-> ps]
        BY <4>3
      <4> QED
        BY <4>4 DEF write, entry
    <3>2. [registered |-> TRUE, cpi |-> cpi, programs |-> ps] = Entry(cpi, ps)
      BY DEF Entry
    <3> QED
      BY <1>1, <3>1, <3>2
  <2>5. e.programs \in Lists
    BY <2>3
  <2> QED
    BY <2>4, <2>5
<1> QED
  BY <1>1, <1>2

LEMMA HandlerKeepsType ==
  ASSUME RegistryTyped, NEW ins \in Instructions, RunHandler(ins)
  PROVE  RegistryTyped'
<1> DEFINE args == ins.data.args
<1>1. CASE ins.op = InitOp /\ Register(args.op, args.cpi, args.programs)
  <2>1. args.op \in Ops /\ Entry(args.cpi, args.programs) \in EntryType
    BY <1>1, InputsAssumption, EntryMembers
  <2> QED
    BY <1>1, <2>1 DEF Register, RegistryTyped
<1>2. CASE ins.op = UpdateOp /\ Revise(args.op, args.cpi, args.offset, args.programs)
  <2>1. /\ args.op \in Ops /\ args.cpi \in BOOLEAN /\ args.offset \in Nat
        /\ args.programs \in Lists \cup {<< >>}
    BY <1>2, InputsAssumption
  <2>2. registry[args.op].programs \in Lists
    <3>1. registry[args.op] \in EntryType /\ registry[args.op].registered
      BY <1>2, <2>1 DEF Revise, RegistryTyped
    <3> QED
      BY <3>1, EntryMembers
  <2>3. WindowReplaced(registry[args.op].programs, args.offset, args.programs) \in Lists
    BY <1>2, <2>1, <2>2, WindowReplacedType DEF Revise
  <2>4. Entry(args.cpi, WindowReplaced(registry[args.op].programs, args.offset, args.programs))
          \in EntryType
    BY <2>1, <2>3, EntryMembers
  <2> QED
    BY <1>2, <2>1, <2>4 DEF Revise, RegistryTyped
<1>3. ASSUME NEW op, Retirement(op), op \in Ops, registry' \in [Ops -> EntryType]
      PROVE  RegistryTyped'
  BY <1>3 DEF Retirement, RegistryTyped
<1>4. CASE ins.op = TrimOp /\ Unregister(args.op)
  <2>1. args.op \in Ops
    BY <1>4, InputsAssumption
  <2>2. registry' \in [Ops -> EntryType]
    BY <1>4, EntryMembers DEF Unregister, RegistryTyped
  <2> QED
    BY <1>3, <1>4, <2>1, <2>2 DEF Unregister
<1>5. CASE ins.op = TrimOp /\ Shorten(args.op, args.size)
  <2>1. args.op \in Ops /\ args.size \in Nat
    BY <1>5, InputsAssumption
  <2> DEFINE old == registry[args.op]
             cut == SubSeq(old.programs, 1, args.size)
  <2>2. old \in EntryType /\ old.registered /\ 0 < args.size /\ args.size < Len(old.programs)
    BY <1>5, <2>1 DEF Shorten, RegistryTyped
  <2>3. cut \in Lists
    <3> HIDE DEF old
    <3> QED
      BY <2>1, <2>2, EntryMembers, ShortenedType
  <2>4. [old EXCEPT !.programs = cut] \in EntryType
    <3> HIDE DEF old, cut
    <3> QED
      BY <2>2, <2>3, EntryMembers
  <2>5. registry' = [registry EXCEPT ![args.op] = [old EXCEPT !.programs = cut]]
    BY <1>5 DEF Shorten
  <2>6. registry' \in [Ops -> EntryType]
    <3> HIDE DEF old, cut
    <3> QED
      BY <2>1, <2>4, <2>5 DEF RegistryTyped
  <2> QED
    BY <1>3, <1>5, <2>1, <2>6 DEF Shorten
<1>6. CASE UNCHANGED registryVars
  BY <1>6 DEF registryVars, RegistryTyped
<1> QED
  BY <1>1, <1>2, <1>4, <1>5, <1>6 DEF RunHandler

(* AuthTypeOK, with the two registries named. *)
LEMMA TypeParts ==
  AuthTypeOK <=>
    /\ RegistryTyped /\ Len(trace) <= MaxTx
    /\ \A i \in 1 .. Len(trace) : trace[i].kind \in {"call", "op"}
    /\ saved.registry \in [Ops -> EntryType] /\ saved.retired \subseteq Ops
BY DEF AuthTypeOK, RegistryTyped

(* One more entry in the trace. *)
LEMMA OneMore ==
  ASSUME AuthInv, RegistryTyped', UNCHANGED saved, Len(trace) < MaxTx,
         NEW x, trace' = Append(trace, x), x.kind \in {"call", "op"},
         x.kind = "op" => OperationApproved(x, trace)
  PROVE  AuthInv'
<1>1. PICK S : trace \in Seq(S)
  BY DEF AuthInv, TraceIsSeq
<1>2. /\ \E T : trace' \in Seq(T)
      /\ Len(trace) \in Nat /\ Len(trace') = Len(trace) + 1
      /\ \A i \in 1 .. Len(trace) : /\ trace'[i] = trace[i]
                                    /\ SubSeq(trace', 1, i - 1) = SubSeq(trace, 1, i - 1)
      /\ trace'[Len(trace) + 1] = x
      /\ SubSeq(trace', 1, (Len(trace) + 1) - 1) = trace
  <2> DEFINE old == trace
             new == Append(old, x)
  <2>1. /\ \E T : new \in Seq(T)
        /\ Len(old) \in Nat /\ Len(new) = Len(old) + 1
        /\ \A i \in 1 .. Len(old) : /\ new[i] = old[i]
                                    /\ SubSeq(new, 1, i - 1) = SubSeq(old, 1, i - 1)
        /\ new[Len(old) + 1] = x
        /\ SubSeq(new, 1, (Len(old) + 1) - 1) = old
    <3>1. old \in Seq(S)
      BY <1>1
    <3> HIDE DEF old
    <3> QED
      BY <3>1, Appended
  <2> QED
    BY <2>1
<1>3. \A i \in 1 .. Len(trace') : i \in 1 .. Len(trace) \/ i = Len(trace) + 1
  BY <1>2
<1>4. EveryOperationApproved'
  <2>1. ASSUME NEW i \in 1 .. Len(trace'), trace'[i].kind = "op"
        PROVE  OperationApproved(trace'[i], SubSeq(trace', 1, i - 1))
    <3>1. CASE i \in 1 .. Len(trace)
      BY <1>2, <2>1, <3>1 DEF AuthInv, EveryOperationApproved
    <3>2. CASE i = Len(trace) + 1
      BY <1>2, <2>1, <3>2
    <3> QED
      BY <1>3, <3>1, <3>2
  <2> QED
    BY <2>1 DEF EveryOperationApproved
<1>5. AuthTypeOK'
  <2>1. \A i \in 1 .. Len(trace') : trace'[i].kind \in {"call", "op"}
    BY <1>2, <1>3 DEF AuthInv, AuthTypeOK
  <2>2. Len(trace') <= MaxTx
    BY <1>2, RegistriesAssumption
  <2>3. saved'.registry \in [Ops -> EntryType] /\ saved'.retired \subseteq Ops
    BY DEF AuthInv, AuthTypeOK
  <2> QED
    BY <2>1, <2>2, <2>3 DEF AuthTypeOK, RegistryTyped
<1> QED
  BY <1>2, <1>4, <1>5 DEF AuthInv, TraceIsSeq

LEMMA EmptyTrace ==
  ASSUME RegistryTyped', saved'.registry \in [Ops -> EntryType], saved'.retired \subseteq Ops,
         trace' = << >>
  PROVE  AuthInv'
<1>1. trace' \in Seq({}) /\ Len(trace') = 0
  BY EmptySeq
<1>2. 1 .. Len(trace') = {} /\ Len(trace') <= MaxTx
  BY <1>1, RegistriesAssumption
<1> QED
  BY <1>1, <1>2 DEF AuthInv, AuthTypeOK, TraceIsSeq, EveryOperationApproved, RegistryTyped

LEMMA AuthInvStarts == AuthInit => AuthInv
<1>1. SUFFICES ASSUME AuthInit
               PROVE  AuthInv
  OBVIOUS
<1>2. registry \in [Ops -> EntryType] /\ retired = {}
  BY <1>1, RegistriesAssumption DEF AuthInit
<1>3. saved.registry = registry /\ saved.retired = retired
  BY <1>1 DEF AuthInit
<1>4. trace \in Seq({}) /\ Len(trace) = 0
  BY <1>1, EmptySeq DEF AuthInit
<1>5. 1 .. Len(trace) = {} /\ Len(trace) <= MaxTx
  BY <1>4, RegistriesAssumption
<1> QED
  BY <1>2, <1>3, <1>4, <1>5 DEF AuthInv, AuthTypeOK, TraceIsSeq, EveryOperationApproved

LEMMA AuthInvKept == AuthInv /\ [AuthNext]_authVars => AuthInv'
<1>1. SUFFICES ASSUME AuthInv, [AuthNext]_authVars
               PROVE  AuthInv'
  OBVIOUS
<1>2. RegistryTyped
  BY <1>1 DEF AuthInv, AuthTypeOK, RegistryTyped
<1>3. ASSUME NEW call \in Calls, CallVerificationProgram(call)
      PROVE  AuthInv'
  <2>1. call.kind = "call"
    BY InputsAssumption
  <2>2. RegistryTyped'
    BY <1>2, <1>3 DEF CallVerificationProgram, RegistryTyped
  <2> QED
    BY <1>1, <1>3, <2>1, <2>2, OneMore DEF CallVerificationProgram
<1>4. ASSUME NEW ins \in Instructions, ExecuteInstruction(ins)
      PROVE  AuthInv'
  <2>1. RegistryTyped'
    BY <1>2, <1>4, HandlerKeepsType DEF ExecuteInstruction
  <2>2. InForce(ins) \in EntryType
    BY <1>2, InputsAssumption, RegistriesAssumption DEF InForce, EntryFor, RegistryTyped
  <2>3. OperationApproved(Executed(ins), trace)
    BY <1>1, <1>4, <2>2, ExecutedApproved DEF AuthInv, TraceIsSeq, ExecuteInstruction
  <2>4. Executed(ins).kind = "op"
    BY DEF Executed
  <2> QED
    BY <1>1, <1>4, <2>1, <2>3, <2>4, OneMore DEF ExecuteInstruction
<1>5. CASE CommitTransaction
  <2>1. /\ RegistryTyped' /\ trace' = << >>
        /\ saved'.registry = registry /\ saved'.retired = retired
    BY <1>2, <1>5 DEF CommitTransaction, RegistryTyped, registryVars
  <2> QED
    BY <1>2, <2>1, EmptyTrace DEF RegistryTyped
<1>6. CASE AbortTransaction
  <2>1. /\ RegistryTyped' /\ trace' = << >> /\ saved' = saved
    BY <1>1, <1>6 DEF AbortTransaction, RegistryTyped, AuthInv, AuthTypeOK
  <2> QED
    BY <1>1, <2>1, EmptyTrace DEF AuthInv, AuthTypeOK
<1>7. CASE UNCHANGED authVars
  BY <1>1, <1>7 DEF authVars, AuthInv, AuthTypeOK, TraceIsSeq, EveryOperationApproved
<1> QED
  BY <1>1, <1>3, <1>4, <1>5, <1>6, <1>7 DEF AuthNext

LEMMA AuthInvariant == AuthSpec => []AuthInv
BY AuthInvStarts, AuthInvKept, PTL DEF AuthSpec

(* Whatever instructions write configurations, and however transactions    *)
(* end, every configuration is absent or has a list within the limit.      *)
THEOREM AuthTypeCorrect == AuthSpec => []AuthTypeOK
<1>1. AuthInv => AuthTypeOK
  BY DEF AuthInv
<1> QED
  BY <1>1, AuthInvariant, PTL

(* Nothing the program executes, at any place of any transaction, escapes  *)
(* authorisation (Processor::verify): for any number of instructions,      *)
(* programs and slots, repeated programs, both modes and configurations    *)
(* changed earlier in the same transaction.                                *)
THEOREM EveryOperationAlwaysApproved == AuthSpec => []EveryOperationApproved
<1>1. AuthInv => EveryOperationApproved
  BY DEF AuthInv
<1> QED
  BY <1>1, AuthInvariant, PTL

(* The queues of execute_introspection_verification accept exactly when    *)
(* every program has, since any point that matters, as many calls with the *)
(* target's data as it has slots, and the latest of them cover the         *)
(* target's accounts.                                                      *)
THEOREM IntrospectionAlwaysDirect == AuthSpec => []IntrospectionDecidesDirectly
<1>1. AuthInv => IntrospectionDecidesDirectly
  <2>1. SUFFICES ASSUME TraceIsSeq, NEW list \in Lists, NEW target \in Targets
                 PROVE  Introspected(list, target.data, target.accounts, trace)
                          <=> DirectlyApproved(list, target.data, target.accounts, trace)
    BY DEF AuthInv, IntrospectionDecidesDirectly
  <2>2. Len(list) \in Nat /\ DOMAIN list = 1 .. Len(list)
    BY ListFacts, RegistriesAssumption
  <2> QED
    BY <2>1, <2>2, IntrospectedDirectly DEF TraceIsSeq
<1> QED
  BY <1>1, AuthInvariant, PTL
============================================================================
