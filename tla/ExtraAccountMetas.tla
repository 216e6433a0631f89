------------------------- MODULE ExtraAccountMetas -------------------------
(***************************************************************************)
(* The ExtraAccountMetaList account of one mint, as the transfer hook      *)
(* program (transfer_hook/src/lib.rs) keeps it.  Token-2022 reads this     *)
(* list to find the accounts it must pass to the hook on every transfer.   *)
(*                                                                         *)
(* The hook is only ever called by the security token program, which signs *)
(* as the mint's transfer hook authority: the two handlers are operators   *)
(* on the account's value, and the caller's action uses them.  A metas     *)
(* value records whether the account is owned by the hook program (it is   *)
(* owned by the System program before its initialisation) and the list.    *)
(***************************************************************************)
EXTENDS Naturals, Sequences

CONSTANTS
  MetasRent,   \* MetasRent[n]: Rent::minimum_balance of a list of n metas
  MaxPrograms  \* MAX_VERIFICATION_PROGRAMS

ASSUME MaxProgramsAssumption == MaxPrograms \in Nat \ {0}

(* One meta for the configuration account and one per program.             *)
ASSUME MetasRentAssumption ==
  /\ MetasRent \in [1 .. (MaxPrograms + 1) -> Nat \ {0}]
  /\ \A n, m \in 1 .. (MaxPrograms + 1) : n < m => MetasRent[n] < MetasRent[m]

NoMetas == [owned |-> FALSE, list |-> << >>]

(* Both handlers end with the account owned by the hook and holding `list`.*)
MetasHolding(list) == [owned |-> TRUE, list |-> list]

(* process_initialize_extra_account_meta_list refuses an account the hook  *)
(* already owns (AccountAlreadyInitialized) and one without lamports.      *)
CanInitializeMetas(metas, balance) == ~metas.owned /\ balance > 0

(* process_update_extra_account_meta_list refuses an account that is not   *)
(* the hook's.                                                             *)
CanUpdateMetas(metas) == metas.owned

(* saturating_sub *)
Excess(balance, required) == IF balance > required THEN balance - required ELSE 0

(* What an update hands back to the recipient: on a shrink, all the        *)
(* account holds above the rent of the new size; otherwise nothing.        *)
MetasRefund(metas, list, balance) ==
  IF Len(list) < Len(metas.list) THEN Excess(balance, MetasRent[Len(list)]) ELSE 0

============================================================================
