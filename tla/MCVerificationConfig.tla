------------------------ MODULE MCVerificationConfig ------------------------
(* Instance of VerificationConfig for TLC: rents that grow with the size of *)
(* the account, different for the two kinds of account.  The first of the   *)
(* two verification programs is the split guard.                            *)
EXTENDS VerificationConfigRefinement, TransferHook

CONSTANTS transfer, mint, p1, p2

MCOps == {transfer, mint}
MCPrograms == {p1, p2}
MCConfigRent == [n \in 0 .. MaxPrograms |-> n + 1]
MCMetasRent == [n \in 1 .. (MaxPrograms + 1) |-> n + 1]
=============================================================================
