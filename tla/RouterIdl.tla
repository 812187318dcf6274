--------------------------------- MODULE RouterIdl ---------------------------
(***************************************************************************)
(* The interface description of the token router, see EngineIdl.           *)
(***************************************************************************)
EXTENDS SolanaAddresses

OwnerOnlyMut == [owner: Pubkey, custodian: Pubkey]
CheckedCustodian == [custodian: Pubkey]
UsdcMint == [mint: Pubkey]
OwnerOnly == [owner: Pubkey, custodian: CheckedCustodian]
RouterEndpoint == [endpoint: Pubkey]
LiquidityLayerVaa == [vaa: Pubkey]
CctpMintRecipient == [mintRecipient: Pubkey]
CctpReceiveMessage ==
    [mintRecipient: CctpMintRecipient, messageTransmitterAuthority: Pubkey,
     messageTransmitterConfig: Pubkey, usedNonces: Pubkey,
     messageTransmitterEventAuthority: Pubkey, tokenMessenger: Pubkey,
     remoteTokenMessenger: Pubkey, tokenMinter: Pubkey, localToken: Pubkey,
     tokenPair: Pubkey, tokenMessengerMinterCustodyToken: Pubkey,
     tokenMessengerMinterEventAuthority: Pubkey,
     tokenMessengerMinterProgram: Pubkey, messageTransmitterProgram: Pubkey]
AdminMut == [ownerOrAssistant: Pubkey, custodian: Pubkey]
-----------------------------------------------------------------------------
cancelOwnershipTransferRequest == [admin: OwnerOnlyMut]
closePreparedOrder ==
    [custodian: CheckedCustodian, orderSender: Pubkey, preparedOrder: Pubkey,
     preparedBy: Pubkey, refundToken: Pubkey, preparedCustodyToken: Pubkey,
     tokenProgram: Pubkey]
confirmOwnershipTransferRequest == [pendingOwner: Pubkey, custodian: Pubkey]
consumePreparedFill ==
    [redeemer: Pubkey, beneficiary: Pubkey, preparedFill: Pubkey,
     dstToken: Pubkey, preparedCustodyToken: Pubkey, tokenProgram: Pubkey]
initialize ==
    [owner: Pubkey, custodian: Pubkey, ownerAssistant: Pubkey,
     cctpMintRecipient: Pubkey, mint: UsdcMint, programData: Pubkey,
     upgradeManagerAuthority: Pubkey, upgradeManagerProgram: Pubkey,
     bpfLoaderUpgradeableProgram: Pubkey, systemProgram: Pubkey,
     tokenProgram: Pubkey, associatedTokenProgram: Pubkey]
migrate == [admin: OwnerOnly]
placeMarketOrderCctp ==
    [payer: Pubkey, preparedBy: Pubkey, custodian: CheckedCustodian,
     preparedOrder: Pubkey, mint: Pubkey, preparedCustodyToken: Pubkey,
     targetRouterEndpoint: RouterEndpoint, coreBridgeConfig: Pubkey,
     coreMessage: Pubkey, cctpMessage: Pubkey, coreEmitterSequence: Pubkey,
     coreFeeCollector: Pubkey, tokenMessengerMinterSenderAuthority: Pubkey,
     messageTransmitterConfig: Pubkey, tokenMessenger: Pubkey,
     remoteTokenMessenger: Pubkey, tokenMinter: Pubkey, localToken: Pubkey,
     tokenMessengerMinterEventAuthority: Pubkey, coreBridgeProgram: Pubkey,
     tokenMessengerMinterProgram: Pubkey, messageTransmitterProgram: Pubkey,
     tokenProgram: Pubkey, systemProgram: Pubkey, clock: Pubkey, rent: Pubkey]
prepareMarketOrder ==
    [payer: Pubkey, custodian: CheckedCustodian,
     programTransferAuthority: Pubkey \cup {Null}, sender: Pubkey \cup {Null},
     preparedOrder: Pubkey, senderToken: Pubkey, refundToken: Pubkey,
     preparedCustodyToken: Pubkey, usdc: UsdcMint,
     targetRouterEndpoint: RouterEndpoint, tokenProgram: Pubkey,
     systemProgram: Pubkey]
redeemCctpFill ==
    [payer: Pubkey, custodian: CheckedCustodian, fillVaa: LiquidityLayerVaa,
     preparedFill: Pubkey, preparedCustodyToken: Pubkey, usdc: UsdcMint,
     sourceRouterEndpoint: RouterEndpoint, cctp: CctpReceiveMessage,
     tokenProgram: Pubkey, systemProgram: Pubkey]
redeemFastFill ==
    [payer: Pubkey, custodian: CheckedCustodian, fastFill: Pubkey,
     preparedFill: Pubkey, preparedCustodyToken: Pubkey, usdc: UsdcMint,
     matchingEngineCustodian: Pubkey, matchingEngineFromEndpoint: Pubkey,
     matchingEngineToEndpoint: Pubkey,
     matchingEngineLocalCustodyToken: Pubkey,
     matchingEngineEventAuthority: Pubkey, matchingEngineProgram: Pubkey,
     tokenProgram: Pubkey, systemProgram: Pubkey]
setPause == [admin: AdminMut]
submitOwnershipTransferRequest == [admin: OwnerOnlyMut, newOwner: Pubkey]
updateOwnerAssistant == [admin: OwnerOnlyMut, newOwnerAssistant: Pubkey]
-----------------------------------------------------------------------------
custodian ==
    [owner: Pubkey, pendingOwner: Pubkey \cup {Null}, paused: BOOLEAN,
     ownerAssistant: Pubkey]
prepareMarketOrderArgs ==
    [amountIn: Nat, minAmountOut: Seq(Nat), targetChain: Nat,
     redeemer: Pubkey]
preparedOrderInfo ==
    [orderSender: Pubkey, preparedBy: Pubkey, refundToken: Pubkey,
     targetChain: Nat]
preparedOrder == [info: preparedOrderInfo]
preparedFillInfo == [preparedBy: Pubkey, redeemer: Pubkey]
preparedFill == [info: preparedFillInfo]
=============================================================================
