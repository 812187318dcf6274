---------------------------- MODULE UpgradeClient ---------------------------
(***************************************************************************)
(* UpgradeManagerProgram, the client of the upgrade manager.  It knows its *)
(* two programs on the test network and on a local one; on the main one    *)
(* every builder throws.                                                   *)
(***************************************************************************)
EXTENDS SolanaAddresses

Throw == <<>>

ManagerOf(network) ==
    CASE network = "testnet" -> <<"ucdP9ktg">>
      [] network = "localnet" -> <<"UpgradeManager11">>
      [] OTHER -> Null
Supported(network) == ManagerOf(network) # Null

upgradeAuthorityAddress(network) == Pda(ManagerOf(network), <<"upgrade">>)
upgradeReceiptAddress(network, otherProgram) ==
    Pda(ManagerOf(network), <<"receipt">> \o otherProgram)

ownerOnlyComposite(network, owner) ==
    [owner |-> owner, upgradeAuthority |-> upgradeAuthorityAddress(network)]
requiredSysvarsComposite == [rent |-> Rent, clock |-> Clock]

executeUpgradeComposite(network, call) ==
    [payer |-> call.by, admin |-> ownerOnlyComposite(network, call.by),
     receipt |-> upgradeReceiptAddress(network, call.upgrades), buffer |-> call.buffer,
     programData |-> programDataAddress(call.upgrades), program |-> call.upgrades,
     bpfLoaderUpgradeableProgram |-> BpfLoader, systemProgram |-> SystemProgram,
     sysvars |-> requiredSysvarsComposite]

commitUpgradeComposite(network, call) ==
    [admin |-> ownerOnlyComposite(network, call.by), recipient |-> call.by,
     receipt |-> upgradeReceiptAddress(network, call.upgrades),
     programData |-> programDataAddress(call.upgrades), program |-> call.upgrades]
-----------------------------------------------------------------------------
Ix(network, name, accounts) ==
    IF Supported(network)
    THEN << [program |-> ManagerOf(network), name |-> name, accounts |-> accounts] >>
    ELSE Throw

\* The custodian of an upgraded program is that of its own client.
CustodianOf(program) == Pda(program, <<"emitter">>)

executeMatchingEngineUpgradeIx(call, network) ==
    Ix(network, "executeMatchingEngineUpgrade",
       [matchingEngineCustodian |-> CustodianOf(call.upgrades),
        executeUpgrade |-> executeUpgradeComposite(network, call)])

commitMatchingEngineUpgradeIx(call, network) ==
    Ix(network, "commitMatchingEngineUpgrade",
       [matchingEngineCustodian |-> CustodianOf(call.upgrades),
        commitUpgrade |-> commitUpgradeComposite(network, call)])

executeTokenRouterUpgradeIx(call, network) ==
    Ix(network, "executeTokenRouterUpgrade",
       [tokenRouterCustodian |-> CustodianOf(call.upgrades),
        executeUpgrade |-> executeUpgradeComposite(network, call)])

commitTokenRouterUpgradeIx(call, network) ==
    Ix(network, "commitTokenRouterUpgrade",
       [tokenRouterCustodian |-> CustodianOf(call.upgrades),
        commitUpgrade |-> commitUpgradeComposite(network, call)])
=============================================================================
