---------------------------- MODULE TransferHook ----------------------------
(***************************************************************************)
(* The Execute instruction of the transfer hook (transfer_hook/src/lib.rs):*)
(* what becomes of a transfer of the mint that reaches Token-2022.  A      *)
(* holder's wallet sends its transfer straight to Token-2022, the security *)
(* token program sends its own as the permanent delegate, and Token-2022   *)
(* asks the hook about both.  The hook holds no state: it reads the        *)
(* transfer configuration and is given the accounts on its list, both of   *)
(* which module VerificationConfig writes, so that its decision is a       *)
(* formula about that module's states.                                     *)
(***************************************************************************)
EXTENDS VerificationConfig

CONSTANTS
  Source, MintAccount, Destination,  \* the first accounts of a transfer
  Holder,                            \* the owner of the source account
  DelegatePda,                       \* the mint's permanent delegate
  Guard,                             \* the split guard, one of the programs
  GuardPda                           \* its account for the mint

ASSUME HookNamesAssumption ==
  /\ Holder # DelegatePda
  /\ Guard \in Programs
  /\ GuardPda \notin Programs

(* add_extra_accounts_for_execute_cpi of Token-2022: the caller has to      *)
(* supply the list account for the accounts on the list to be added.        *)
ExtraAccounts(supplied) == IF supplied THEN <<MetasPda>> \o metas.list ELSE << >>
Reaches(supplied) == supplied => metas.owned

HookAccounts(authority, extra) == <<Source, MintAccount, Destination, authority>> \o extra

-----------------------------------------------------------------------------
(* is_permanent_delegate_transfer *)
IsPermanentDelegateTransfer(authority, extra) ==
  authority = DelegatePda /\ extra = << >>

(* load_verification_programs: the second extra account must be the         *)
(* transfer configuration of the mint, with data.  Its programs are all     *)
(* its slots.                                                               *)
CanLoad(extra) ==
  /\ Len(extra) >= 2
  /\ extra[2] = TransferOp
  /\ config[TransferOp].allocated
  /\ Len(HookReads(config[TransferOp])) <= MaxPrograms

(* execute_verification_programs: a program can be called if it is among    *)
(* the accounts, and every one must approve.                                *)
CallSucceeds(p, accounts, approving) ==
  /\ \E i \in 1 .. Len(accounts) : accounts[i] = p
  /\ p \in approving

FirstApproves(programs, accounts, approving) == CallSucceeds(programs[1], accounts, approving)
ExecuteVerificationPrograms(programs, accounts, approving) ==
  \A i \in 1 .. Len(programs) : CallSucceeds(programs[i], accounts, approving)

(* process_execute: whether a transfer goes through, `approving` being the  *)
(* programs that do not refuse it.                                          *)
ProcessExecute(authority, extra, approving) ==
  LET programs == HookReads(config[TransferOp])
  IN  \/ IsPermanentDelegateTransfer(authority, extra)
      \/ /\ CanLoad(extra)
         /\ Len(programs) > 0
         /\ ExecuteVerificationPrograms(programs, HookAccounts(authority, extra), approving)

TransferGoesThrough(authority, supplied, approving) ==
  Reaches(supplied) /\ ProcessExecute(authority, ExtraAccounts(supplied), approving)

(* verify_transfer of the split guard takes seven accounts, its own last.   *)
GuardVerifies(accounts, halted) ==
  /\ Len(accounts) = 7
  /\ accounts[7] = GuardPda
  /\ ~halted

-----------------------------------------------------------------------------
(* A holder's own transfer goes through exactly if every program the        *)
(* configuration stores approves it - no slot more, none less, and none     *)
(* that Token-2022 would not have supplied - so without a configuration     *)
(* never; it goes no other way.  The program's own transfers always do.     *)
HookAcceptsExactlyApproved ==
  \A approving \in SUBSET Programs :
    LET c == config[TransferOp]
    IN  /\ TransferGoesThrough(Holder, TRUE, approving) <=>
             /\ c.allocated
             /\ \A i \in 1 .. c.count : ProgramReads(c)[i] \in approving
        /\ ~TransferGoesThrough(Holder, FALSE, approving)
        /\ TransferGoesThrough(DelegatePda, FALSE, approving)

(* The programs that approve if the split guard decides as it does and all  *)
(* the others approve.                                                      *)
AllButRefusingGuard(accounts, halted) ==
  {p \in Programs : p = Guard => GuardVerifies(accounts, halted)}

(* split_guard_pda registered as an extra account, after the first n.       *)
WithGuardPda(extra, n) ==
  SubSeq(extra, 1, n) \o <<GuardPda>> \o SubSeq(extra, n + 1, Len(extra))

(* What a transfer can bring the hook: the list as the security token       *)
(* program writes it, or with split_guard_pda registered anywhere on it.    *)
ExtraAccountsForGuard ==
  LET extra == ExtraAccounts(TRUE)
  IN  {extra} \cup {WithGuardPda(extra, n) : n \in 1 .. Len(extra)}

Guarded == \E i \in 1 .. Len(HookReads(config[TransferOp])) : HookReads(config[TransferOp])[i] = Guard

(* "Guard absent -> transfer allowed", "transfers resume", and for the      *)
(* transfer hook: "additionally register split_guard_pda as a PDA-based     *)
(* extra account" (the header of examples/split-guard/src/lib.rs).  While   *)
(* the guard's account does not exist, a holder's transfer that every other *)
(* program approves goes through, with the account registered somewhere.    *)
GuardAbsentAllows ==
  Guarded =>
    \E extra \in ExtraAccountsForGuard :
      ProcessExecute(Holder, extra, AllButRefusingGuard(HookAccounts(Holder, extra), FALSE))
=============================================================================
