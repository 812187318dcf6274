--------------------------------- MODULE EngineIdl ---------------------------
(***************************************************************************)
(* The interface description of the matching engine: the accounts of every *)
(* instruction, with the composites they share, and the accounts the       *)
(* program keeps. An instruction is the set of the account records that it *)
(* can be called with; a record that lacks an account, has another one or  *)
(* another nesting is not in it.                                           *)
(***************************************************************************)
EXTENDS SolanaAddresses

CheckedCustodian == [custodian: Pubkey]
Admin == [ownerOrAssistant: Pubkey, custodian: CheckedCustodian]
UsdcMint == [mint: Pubkey]
LocalTokenRouter ==
    [tokenRouterProgram: Pubkey, tokenRouterEmitter: Pubkey,
     tokenRouterMintRecipient: Pubkey]
OwnerOnlyMut == [owner: Pubkey, custodian: Pubkey]
RouterEndpoint == [endpoint: Pubkey]
LiveRouterPath == [fromEndpoint: RouterEndpoint, toEndpoint: RouterEndpoint]
OwnerOnly == [owner: Pubkey, custodian: CheckedCustodian]
LiquidityLayerVaa == [vaa: Pubkey]
ActiveAuction ==
    [auction: Pubkey, custodyToken: Pubkey, config: Pubkey,
     bestOfferToken: Pubkey]
ExecuteOrder ==
    [fastVaa: LiquidityLayerVaa, activeAuction: ActiveAuction,
     executorToken: Pubkey, initialOfferToken: Pubkey,
     initialParticipant: Pubkey]
WormholePublishMessage ==
    [config: Pubkey, emitterSequence: Pubkey, feeCollector: Pubkey,
     coreBridgeProgram: Pubkey]
CctpDepositForBurn ==
    [mint: Pubkey, tokenMessengerMinterSenderAuthority: Pubkey,
     messageTransmitterConfig: Pubkey, tokenMessenger: Pubkey,
     remoteTokenMessenger: Pubkey, tokenMinter: Pubkey, localToken: Pubkey,
     tokenMessengerMinterEventAuthority: Pubkey,
     tokenMessengerMinterProgram: Pubkey, messageTransmitterProgram: Pubkey]
RequiredSysvars == [clock: Pubkey, rent: Pubkey]
FastOrderPath == [fastVaa: LiquidityLayerVaa, path: LiveRouterPath]
CctpMintRecipient == [mintRecipient: Pubkey]
CctpReceiveMessage ==
    [mintRecipient: CctpMintRecipient, messageTransmitterAuthority: Pubkey,
     messageTransmitterConfig: Pubkey, usedNonces: Pubkey,
     messageTransmitterEventAuthority: Pubkey, tokenMessenger: Pubkey,
     remoteTokenMessenger: Pubkey, tokenMinter: Pubkey, localToken: Pubkey,
     tokenPair: Pubkey, tokenMessengerMinterCustodyToken: Pubkey,
     tokenMessengerMinterEventAuthority: Pubkey,
     tokenMessengerMinterProgram: Pubkey, messageTransmitterProgram: Pubkey]
ReserveFastFillSequence ==
    [payer: Pubkey, fastOrderPath: FastOrderPath, sequencer: Pubkey,
     reserved: Pubkey, auction: Pubkey, systemProgram: Pubkey]
AdminMut == [ownerOrAssistant: Pubkey, custodian: Pubkey]
ClosePreparedOrderResponse ==
    [by: Pubkey, orderResponse: Pubkey, custodyToken: Pubkey]
-----------------------------------------------------------------------------
addCctpRouterEndpoint ==
    [payer: Pubkey, admin: Admin, routerEndpoint: Pubkey,
     localCustodyToken: Pubkey, usdc: UsdcMint, remoteTokenMessenger: Pubkey,
     tokenProgram: Pubkey, systemProgram: Pubkey]
addLocalRouterEndpoint ==
    [payer: Pubkey, admin: Admin, routerEndpoint: Pubkey,
     local: LocalTokenRouter, systemProgram: Pubkey]
cancelOwnershipTransferRequest == [admin: OwnerOnlyMut]
closeAuction ==
    [auction: Pubkey, beneficiary: Pubkey, eventAuthority: Pubkey,
     program: Pubkey]
closeProposal == [admin: Admin, proposedBy: Pubkey, proposal: Pubkey]
closeRedeemedFastFill == [preparedBy: Pubkey, fastFill: Pubkey]
completeFastFill ==
    [custodian: CheckedCustodian, fastFill: Pubkey,
     tokenRouterEmitter: Pubkey, tokenRouterCustodyToken: Pubkey,
     path: LiveRouterPath, localCustodyToken: Pubkey, tokenProgram: Pubkey,
     eventAuthority: Pubkey, program: Pubkey]
confirmOwnershipTransferRequest == [pendingOwner: Pubkey, custodian: Pubkey]
disableRouterEndpoint == [admin: OwnerOnly, routerEndpoint: RouterEndpoint]
executeFastOrderCctp ==
    [payer: Pubkey, coreMessage: Pubkey, cctpMessage: Pubkey,
     custodian: CheckedCustodian, executeOrder: ExecuteOrder,
     toRouterEndpoint: RouterEndpoint, wormhole: WormholePublishMessage,
     cctp: CctpDepositForBurn, systemProgram: Pubkey, tokenProgram: Pubkey,
     sysvars: RequiredSysvars, eventAuthority: Pubkey, program: Pubkey]
executeFastOrderLocal ==
    [payer: Pubkey, custodian: CheckedCustodian, executeOrder: ExecuteOrder,
     reservedSequence: Pubkey, reserveBeneficiary: Pubkey, fastFill: Pubkey,
     localCustodyToken: Pubkey, systemProgram: Pubkey, tokenProgram: Pubkey,
     sysvars: RequiredSysvars, eventAuthority: Pubkey, program: Pubkey]
improveOffer ==
    [transferAuthority: Pubkey, activeAuction: ActiveAuction,
     offerToken: Pubkey, tokenProgram: Pubkey, eventAuthority: Pubkey,
     program: Pubkey]
initialize ==
    [owner: Pubkey, custodian: Pubkey, auctionConfig: Pubkey,
     ownerAssistant: Pubkey, feeRecipient: Pubkey, feeRecipientToken: Pubkey,
     cctpMintRecipient: Pubkey, usdc: UsdcMint, programData: Pubkey,
     upgradeManagerAuthority: Pubkey, upgradeManagerProgram: Pubkey,
     bpfLoaderUpgradeableProgram: Pubkey, systemProgram: Pubkey,
     tokenProgram: Pubkey, associatedTokenProgram: Pubkey]
migrate == [admin: OwnerOnly]
placeInitialOfferCctp ==
    [payer: Pubkey, transferAuthority: Pubkey, custodian: CheckedCustodian,
     auctionConfig: Pubkey, fastOrderPath: FastOrderPath, auction: Pubkey,
     offerToken: Pubkey, auctionCustodyToken: Pubkey, usdc: UsdcMint,
     systemProgram: Pubkey, tokenProgram: Pubkey, eventAuthority: Pubkey,
     program: Pubkey]
prepareOrderResponseCctp ==
    [payer: Pubkey, custodian: CheckedCustodian, fastOrderPath: FastOrderPath,
     finalizedVaa: LiquidityLayerVaa, preparedOrderResponse: Pubkey,
     preparedCustodyToken: Pubkey, baseFeeToken: Pubkey, usdc: UsdcMint,
     cctp: CctpReceiveMessage, tokenProgram: Pubkey, systemProgram: Pubkey]
proposeAuctionParameters ==
    [payer: Pubkey, admin: Admin, proposal: Pubkey, systemProgram: Pubkey,
     epochSchedule: Pubkey, eventAuthority: Pubkey, program: Pubkey]
reserveFastFillSequenceActiveAuction ==
    [reserveSequence: ReserveFastFillSequence, auctionConfig: Pubkey,
     eventAuthority: Pubkey, program: Pubkey]
reserveFastFillSequenceNoAuction ==
    [reserveSequence: ReserveFastFillSequence, preparedOrderResponse: Pubkey,
     eventAuthority: Pubkey, program: Pubkey]
setPause == [admin: AdminMut]
settleAuctionComplete ==
    [beneficiary: Pubkey, baseFeeToken: Pubkey, bestOfferToken: Pubkey,
     preparedOrderResponse: Pubkey, preparedCustodyToken: Pubkey,
     auction: Pubkey, tokenProgram: Pubkey, eventAuthority: Pubkey,
     program: Pubkey]
settleAuctionNoneCctp ==
    [payer: Pubkey, coreMessage: Pubkey, cctpMessage: Pubkey,
     custodian: CheckedCustodian, feeRecipientToken: Pubkey,
     prepared: ClosePreparedOrderResponse, auction: Pubkey,
     wormhole: WormholePublishMessage, cctp: CctpDepositForBurn,
     tokenProgram: Pubkey, systemProgram: Pubkey, sysvars: RequiredSysvars,
     eventAuthority: Pubkey, program: Pubkey]
settleAuctionNoneLocal ==
    [payer: Pubkey, custodian: CheckedCustodian, feeRecipientToken: Pubkey,
     prepared: ClosePreparedOrderResponse, auction: Pubkey,
     reservedSequence: Pubkey, fastFill: Pubkey, localCustodyToken: Pubkey,
     tokenProgram: Pubkey, systemProgram: Pubkey, sysvars: RequiredSysvars,
     eventAuthority: Pubkey, program: Pubkey]
submitOwnershipTransferRequest == [admin: OwnerOnlyMut, newOwner: Pubkey]
updateAuctionParameters ==
    [payer: Pubkey, admin: OwnerOnlyMut, proposal: Pubkey,
     auctionConfig: Pubkey, systemProgram: Pubkey, eventAuthority: Pubkey,
     program: Pubkey]
updateCctpRouterEndpoint ==
    [admin: OwnerOnly, routerEndpoint: RouterEndpoint,
     remoteTokenMessenger: Pubkey]
updateFeeRecipient ==
    [admin: AdminMut, newFeeRecipientToken: Pubkey, newFeeRecipient: Pubkey]
updateLocalRouterEndpoint ==
    [admin: OwnerOnly, routerEndpoint: RouterEndpoint, local: LocalTokenRouter]
updateOwnerAssistant == [admin: OwnerOnlyMut, newOwnerAssistant: Pubkey]
-----------------------------------------------------------------------------
(* The accounts of the program, with the fields that a client reads or an  *)
(* account constraint compares.                                            *)
messageProtocol ==
    [kind: {"none", "local"}] \cup [kind: {"cctp"}, domain: Nat]
auctionParameters == [securityDepositBase: Nat, securityDepositBps: Nat]
auctionConfig == [id: Nat, parameters: auctionParameters]
auctionInfo ==
    [configId: Nat, sourceChain: Nat, bestOfferToken: Pubkey,
     initialOfferToken: Pubkey, amountIn: Nat, securityDeposit: Nat,
     offerPrice: Nat]
auctionStatus ==
    [kind: {"notStarted", "active", "settled"}]
        \cup [kind: {"completed"}, executePenalty: {"null", "some"}]
auction ==
    [vaaHash: Pubkey, targetProtocol: messageProtocol, status: auctionStatus,
     preparedBy: Pubkey, info: auctionInfo \cup {Null}]
custodian ==
    [owner: Pubkey, pendingOwner: Pubkey \cup {Null}, paused: BOOLEAN,
     ownerAssistant: Pubkey, feeRecipientToken: Pubkey, auctionConfigId: Nat,
     nextProposalId: Nat]
endpointInfo == [chain: Nat, protocol: messageProtocol]
routerEndpoint == [info: endpointInfo]
fastFillSeeds == [sourceChain: Nat, orderSender: Pubkey, sequence: Nat]
fastFillInfo == [preparedBy: Pubkey, redeemer: Pubkey]
fastFill == [seeds: fastFillSeeds, redeemed: BOOLEAN, info: fastFillInfo]
fastFillSequencerSeeds == [sourceChain: Nat, sender: Pubkey]
fastFillSequencer == [seeds: fastFillSequencerSeeds, nextSequence: Nat]
preparedOrderResponseSeeds == [fastVaaHash: Pubkey]
preparedOrderResponseInfo ==
    [preparedBy: Pubkey, baseFeeToken: Pubkey, sourceChain: Nat,
     sender: Pubkey]
preparedOrderResponse ==
    [seeds: preparedOrderResponseSeeds, info: preparedOrderResponseInfo,
     toEndpoint: endpointInfo]
reservedFastFillSequenceSeeds == [fastVaaHash: Pubkey]
reservedFastFillSequence ==
    [seeds: reservedFastFillSequenceSeeds, beneficiary: Pubkey,
     fastFillSeeds: fastFillSeeds]
proposalAction == [kind: {"updateAuctionParameters"}, id: Nat,
                   parameters: auctionParameters]
proposal ==
    [id: Nat, action: proposalAction, by: Pubkey, owner: Pubkey,
     slotProposedAt: Nat, slotEnactDelay: Nat, slotEnactedAt: Seq(Nat)]
=============================================================================
