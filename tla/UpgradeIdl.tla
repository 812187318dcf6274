--------------------------------- MODULE UpgradeIdl --------------------------
(***************************************************************************)
(* The interface description of the upgrade manager, see EngineIdl.        *)
(***************************************************************************)
EXTENDS SolanaAddresses

ManagerAdmin == [owner: Pubkey, upgradeAuthority: Pubkey]
CommitUpgrade ==
    [admin: ManagerAdmin, recipient: Pubkey, receipt: Pubkey, program: Pubkey,
     programData: Pubkey]
RequiredSysvars == [clock: Pubkey, rent: Pubkey]
ExecuteUpgrade ==
    [payer: Pubkey, admin: ManagerAdmin, receipt: Pubkey, buffer: Pubkey,
     programData: Pubkey, program: Pubkey,
     bpfLoaderUpgradeableProgram: Pubkey, systemProgram: Pubkey,
     sysvars: RequiredSysvars]
-----------------------------------------------------------------------------
commitMatchingEngineUpgrade ==
    [matchingEngineCustodian: Pubkey, commitUpgrade: CommitUpgrade]
commitTokenRouterUpgrade ==
    [tokenRouterCustodian: Pubkey, commitUpgrade: CommitUpgrade]
executeMatchingEngineUpgrade ==
    [matchingEngineCustodian: Pubkey, executeUpgrade: ExecuteUpgrade]
executeTokenRouterUpgrade ==
    [tokenRouterCustodian: Pubkey, executeUpgrade: ExecuteUpgrade]
-----------------------------------------------------------------------------
upgradeStatus == [kind: {"none"}] \cup [kind: {"uncommitted"}, slot: Nat]
upgradeReceipt == [owner: Pubkey, status: upgradeStatus]
=============================================================================
