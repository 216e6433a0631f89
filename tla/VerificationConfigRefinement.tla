-------------------- MODULE VerificationConfigRefinement --------------------
(***************************************************************************)
(* VerificationConfig implements ConfigRegistry.  The list in force for an *)
(* instruction is the one both readers find in its account; an instruction *)
(* is retired when it has no list and initialize_verification_config is    *)
(* bound to fail for it: because its address still holds lamports, or, for *)
(* the transfer instruction, because the hook already owns its list.       *)
(***************************************************************************)
EXTENDS VerificationConfig

EntryOf(c) ==
  [registered |-> c.allocated, cpi |-> c.cpi, programs |-> ProgramReads(c)]

RetiredOps ==
  {op \in Ops : /\ ~config[op].allocated
                /\ lamports[op] > 0 \/ (op = TransferOp /\ metas.owned)}

Registry ==
  INSTANCE ConfigRegistry
  WITH registry <- [op \in Ops |-> EntryOf(config[op])],
       retired  <- RetiredOps

(* Every instruction that writes a configuration is one of the abstract    *)
(* changes to the list in force, or changes nothing.                       *)
ImplementsRegistry == Registry!RegistrySpec
=============================================================================
