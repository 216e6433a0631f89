-------------------------- MODULE MCAuthorization --------------------------
(* Instance of Authorization for TLC: one instruction that only programs    *)
(* can authorise (mintOp), the two that change a configuration in place,    *)
(* two verification programs, and account lists that match, extend, miss    *)
(* or reorder the target's.                                                 *)
EXTENDS Authorization

CONSTANTS mintOp, initOp, updateOp, trimOp, p1, p2, M, O, holder, other

MCOps == {mintOp, initOp, updateOp, trimOp}
MCPrograms == {p1, p2}

MCOtherRegistry ==
  [op \in MCOps |-> IF op = mintOp THEN Entry(FALSE, <<p2>>) ELSE NoEntry]

With(op, entry) == [o \in MCOps |-> IF o = op THEN entry ELSE NoEntry]

MCInitialRegistries ==
  {With(mintOp, Entry(FALSE, <<p1, p2>>)),
   With(mintOp, Entry(FALSE, <<p1, p1>>)),
   With(mintOp, Entry(TRUE, <<p1, p2>>)),
   With(updateOp, Entry(FALSE, <<p2>>))}

MintData == [op |-> mintOp, args |-> 1]
UpdateData(cpi, offset, ps) ==
  [op |-> updateOp,
   args |-> [op |-> mintOp, cpi |-> cpi, offset |-> offset, programs |-> ps]]
InitData == [op |-> initOp, args |-> [op |-> mintOp, cpi |-> FALSE, programs |-> <<p2>>]]
TrimData(close) ==
  [op |-> trimOp, args |-> [op |-> mintOp, size |-> 1, close |-> close]]

Datas ==
  {MintData, InitData, UpdateData(FALSE, 0, <<p2>>), UpdateData(TRUE, 0, <<p1>>),
   UpdateData(FALSE, 1, <<p2, p1>>),
   TrimData(TRUE), TrimData(FALSE)}

Call(p, data, accounts) ==
  [kind |-> "call", program |-> p, data |-> data, accounts |-> accounts]

MCCalls ==
  {Call(p, MintData, accounts) :
     p \in MCPrograms, accounts \in {<<M, holder>>, <<M, holder, other>>, <<M, other>>, << >>}}
  \cup {Call(p2, UpdateData(FALSE, 0, <<p2>>), <<M, holder>>)}

Second(kind, mint, op, owned) == [kind |-> kind, mint |-> mint, op |-> op, owned |-> owned]

Seconds ==
  {Second("VerificationConfig", mint, op, TRUE) : mint \in {M, O}, op \in {mintOp, updateOp}}
  \cup {Second("VerificationConfig", M, mintOp, FALSE)}
  \cup {Second("MintAuthority", mint, mintOp, TRUE) : mint \in {M, O}}
  \cup {Second("Receipt", M, mintOp, TRUE)}

Thirds(second) ==
  IF second.kind = "MintAuthority" THEN {"Creator", "OtherCreator"} ELSE {"Sysvar", "ProgramId"}

AccountLists(data) ==
  IF data = MintData
    THEN {<<M, holder>>, <<M, holder, p1>>, <<M, holder, p1, p2>>, <<M, p1>>}
    ELSE {<<M, holder>>}

Instruction(data, mint, second, third, accounts) ==
  [op |-> data.op, data |-> data, mint |-> mint, second |-> second,
   third |-> third, accounts |-> accounts]

MCInstructions ==
  UNION {{Instruction(data, mint, second, third, accounts) :
            third \in Thirds(second), accounts \in AccountLists(data)} :
         data \in Datas, mint \in {M, O}, second \in Seconds}
============================================================================
