--------------------------- MODULE ConfigRegistry ---------------------------
(***************************************************************************)
(* What the verification configuration of a mint promises, without the     *)
(* accounts, rents and lists that implement it: each instruction has at    *)
(* most one list of verification programs; the list is never empty and     *)
(* never longer than the limit; it changes only by registering it,         *)
(* overwriting a window of it, cutting its end off, or removing it; and a  *)
(* registration that has been retired never comes back.                    *)
(*                                                                         *)
(* VerificationConfigRefinement shows that VerificationConfig implements   *)
(* this specification, and Authorization builds on it.                     *)
(***************************************************************************)
EXTENDS Naturals, Sequences

CONSTANTS
  Ops,         \* instruction discriminators
  Programs,    \* verification programs
  MaxPrograms  \* the longest list

VARIABLES
  registry,  \* registry[op]: the list in force for op, and its mode
  retired    \* instructions that can no longer be registered

registryVars == <<registry, retired>>

NoEntry == [registered |-> FALSE, cpi |-> FALSE, programs |-> << >>]
Entry(cpi, ps) == [registered |-> TRUE, cpi |-> cpi, programs |-> ps]

Lists == UNION {[1 .. n -> Programs] : n \in 1 .. MaxPrograms}

(* The list after a window has been overwritten: as long as before, unless *)
(* the window runs past the end.                                           *)
WindowReplaced(old, offset, ps) ==
  LET end == offset + Len(ps)
  IN  [i \in 1 .. (IF end > Len(old) THEN end ELSE Len(old)) |->
         IF offset < i /\ i <= end THEN ps[i - offset] ELSE old[i]]

(* The window must end within the limit. *)
OffsetFits(offset, ps) == offset < MaxPrograms
WindowFits(offset, ps) == offset + Len(ps) <= MaxPrograms

(* Taking programs away may retire instructions that are left without a    *)
(* list: the one it was about, and one more, whose account was given the   *)
(* rent that was recovered.  None is revived.                              *)
Retirement(op) ==
  \E other \in Ops : \E gone \in SUBSET {op, other} :
    /\ retired' = retired \cup gone
    /\ \A o \in gone : ~registry'[o].registered

Register(op, cpi, ps) ==
  /\ ~registry[op].registered
  /\ op \notin retired
  /\ registry' = [registry EXCEPT ![op] = Entry(cpi, ps)]
  /\ UNCHANGED retired

Revise(op, cpi, offset, ps) ==
  /\ registry[op].registered
  /\ offset <= Len(registry[op].programs)
  /\ WindowFits(offset, ps)
  /\ registry' = [registry EXCEPT ![op] =
                    Entry(cpi, WindowReplaced(registry[op].programs, offset, ps))]
  /\ UNCHANGED retired

Shorten(op, size) ==
  /\ registry[op].registered
  /\ 0 < size /\ size < Len(registry[op].programs)
  /\ registry' = [registry EXCEPT ![op].programs = SubSeq(@, 1, size)]
  /\ Retirement(op)

Unregister(op) ==
  /\ registry[op].registered
  /\ registry' = [registry EXCEPT ![op] = NoEntry]
  /\ Retirement(op)

RegistryInit ==
  /\ registry = [op \in Ops |-> NoEntry]
  /\ retired = {}

RegistryNext ==
  \E op \in Ops :
    \/ \E cpi \in BOOLEAN, ps \in Lists : Register(op, cpi, ps)
    \/ \E cpi \in BOOLEAN, offset \in 0 .. MaxPrograms, ps \in Lists \cup {<< >>} :
         Revise(op, cpi, offset, ps)
    \/ \E size \in 0 .. MaxPrograms : Shorten(op, size)
    \/ Unregister(op)

RegistrySpec == RegistryInit /\ [][RegistryNext]_registryVars
=============================================================================
