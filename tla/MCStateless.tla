---------------------------- MODULE MCStateless ----------------------------
(* Rates on integers of at most 150, so that the products overflow, two     *)
(* powers of ten fit and the third does not.  Every tree of two or of four  *)
(* leaves of three kinds (an account with two amounts and another one), so  *)
(* that leaves repeat, and indexes beyond the larger.  Two verification     *)
(* programs, one of which is configured so often that the slots outnumber   *)
(* the programs by more than the three fields of the hook.                  *)
(* Messages of one value per cell, different from its neighbours', with     *)
(* every option and boolean, and lists of up to two.                        *)
EXTENDS StatelessParts

MCRates ==
  [rounding : {"Up", "Down"}, numerator : {0, 1, 2, 3, 7}, denominator : {0, 1, 2, 3, 7}]
MCDecimals == 0 .. 3
MCMaxU128 == (MaxU64 + 1) * (MaxU64 + 1) - 1

CONSTANTS a1, a2, M

MCEntries ==
  [account : {a1}, mint : {M}, action : {1}, amount : {1, 2}]
  \cup [account : {a2}, mint : {M}, action : {1}, amount : {1}]

MCTrees == [1 .. 2 -> Leaves] \cup [1 .. 4 -> Leaves]

CONSTANTS p1, p2, other

MCConfigured == <<p1, p2, p1, p1, p1, p1>>
MCAddable == {Meta(p, FALSE, FALSE) : p \in {p1, p2}}
MCObserver == {Meta(other, TRUE, FALSE), Meta(p1, FALSE, FALSE)}

CellAt(i, allowed) == IF 1 + (i % 3) \in allowed THEN 1 + (i % 3) ELSE CHOOSE c \in allowed : TRUE

RECURSIVE ValuesFrom(_, _)

ValuesOf(kind, i) ==
  CASE kind.is = "list" ->
         {[j \in 1..n |-> CellAt(i + j, kind.allowed)] : n \in kind.lengths \cap 0..2}
    [] kind.is = "option" -> {<< >>} \cup {<<some>> : some \in ValuesFrom(kind.fields, i)}
    [] kind.is = "flag" -> {0, 1}
    [] OTHER -> IF kind.allowed = {0, 1} THEN {0, 1} ELSE {CellAt(i, kind.allowed)}

ValuesFrom(fields, i) ==
  IF fields = << >> THEN {<< >>}
  ELSE {(fields[1][1] :> first) @@ others :
          first \in ValuesOf(fields[1][2], i), others \in ValuesFrom(Tail(fields), i + 1)}

MCValues(fields) == ValuesFrom(fields, 0)
=============================================================================
