----------------------------- MODULE Interfaces -----------------------------
(***************************************************************************)
(* The two things that a client and the program have to agree on without   *)
(* sharing a line of code: the order and flags of the accounts of a call,  *)
(* and the layout of its data.  Neither depends on the other, so a         *)
(* behaviour is about a call or about a message, never both.               *)
(***************************************************************************)
EXTENDS InstructionAccounts, InstructionData

InterfacesInit ==
  \/ InitCall /\ wire = NoData
  \/ InitData /\ call = NoCall

InterfacesNext ==
  \/ NextCall /\ UNCHANGED wire
  \/ NextData /\ UNCHANGED call

InterfacesSpec == InterfacesInit /\ [][InterfacesNext]_<<call, wire>>
=============================================================================
