---------------------------- MODULE UpgradeProgram --------------------------
(***************************************************************************)
(* What the upgrade manager demands of the accounts of an instruction, and *)
(* what it then writes, in the conventions of EngineProgram.  Of a program *)
(* it upgrades it knows the custodian, whose ownership it takes until the  *)
(* upgrade is committed.                                                   *)
(***************************************************************************)
EXTENDS ProgramAccounts

Idl == INSTANCE UpgradeIdl

Authority(network) == Pda(UpgradeManager(network), <<"upgrade">>)
Receipt(network, program) == Pda(UpgradeManager(network), <<"receipt">> \o program)
ProgramData(program) == Pda(BpfLoader, program)
CustodianAt(program) == Pda(program, <<"emitter">>)
MatchingEngine == <<"matching-engine">>
TokenRouter == <<"token-router">>
Buffer == [authority: Pubkey]

ProgramOwnerOnly(admin, call, env) ==
    admin = [owner |-> call.by, upgradeAuthority |-> Authority(env.network)]

\* A second upgrade before the commit is for the one who made the first.  The loader
\* takes the program of the owner's buffer, once per slot.
executeUpgrade(s, program, custodian, a, call, env) ==
    LET receipt == Receipt(env.network, program)
        data == s[ProgramData(program)]
        new == ~Exists(s, receipt)
        owned == IF new
                 THEN Put(s, custodian, [s[custodian] EXCEPT
                              !.owner = Authority(env.network), !.pendingOwner = Null])
                 ELSE s
    IN  Result(
          /\ IF new THEN Exists(s, CustodianAt(program))
                             /\ s[CustodianAt(program)].owner = call.by
             ELSE s[receipt].owner = call.by
          /\ Is(s, call.buffer, Buffer) /\ s[call.buffer].authority = call.by
          /\ Exists(s, ProgramData(program))
          /\ data.upgradeAuthority = Authority(env.network) /\ data.slot < env.slot,
          /\ custodian = CustodianAt(program)
          /\ ProgramOwnerOnly(a.admin, call, env)
          /\ a.receipt = receipt /\ a.buffer = call.buffer
          /\ a.programData = ProgramData(program) /\ a.program = program
          /\ a.bpfLoaderUpgradeableProgram = BpfLoader
          /\ a.sysvars = [rent |-> Rent, clock |-> Clock],
          Close(Put(Put(owned, a.receipt, [owner |-> call.by,
                            status |-> [kind |-> "uncommitted", slot |-> env.slot]]),
                    a.programData, [data EXCEPT !.slot = env.slot]),
                {a.buffer}))

\* The new program migrates, and its custodian goes back to the owner.
commitUpgrade(s, program, custodian, a, call, env) ==
    LET receipt == Receipt(env.network, program)
    IN  Result(
          /\ Exists(s, receipt) /\ s[receipt].owner = call.by
          /\ s[receipt].status.kind = "uncommitted"
          /\ s[receipt].status.slot = s[ProgramData(program)].slot
          /\ Exists(s, CustodianAt(program))
          /\ s[CustodianAt(program)].owner = Authority(env.network),
          /\ custodian = CustodianAt(program)
          /\ ProgramOwnerOnly(a.admin, call, env)
          /\ a.receipt = receipt
          /\ a.programData = ProgramData(program) /\ a.program = program,
          Close(Put(s, custodian, [s[custodian] EXCEPT !.owner = call.by,
                                                       !.pendingOwner = Null]),
                {a.receipt}))
-----------------------------------------------------------------------------
Handle(s, ix, call, env) ==
    LET a == ix.accounts
        shape(accounts, result) == IF a \in accounts THEN result ELSE Mismatch
    IN  CASE ix.name = "executeMatchingEngineUpgrade" ->
               shape(Idl!executeMatchingEngineUpgrade,
                     executeUpgrade(s, MatchingEngine, a.matchingEngineCustodian,
                                    a.executeUpgrade, call, env))
          [] ix.name = "commitMatchingEngineUpgrade" ->
               shape(Idl!commitMatchingEngineUpgrade,
                     commitUpgrade(s, MatchingEngine, a.matchingEngineCustodian,
                                   a.commitUpgrade, call, env))
          [] ix.name = "executeTokenRouterUpgrade" ->
               shape(Idl!executeTokenRouterUpgrade,
                     executeUpgrade(s, TokenRouter, a.tokenRouterCustodian,
                                    a.executeUpgrade, call, env))
          [] ix.name = "commitTokenRouterUpgrade" ->
               shape(Idl!commitTokenRouterUpgrade,
                     commitUpgrade(s, TokenRouter, a.tokenRouterCustodian,
                                   a.commitUpgrade, call, env))
          [] OTHER -> Mismatch
=============================================================================
