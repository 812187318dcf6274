--------------------------- MODULE EngineBuilders ---------------------------
(***************************************************************************)
(* The instruction builders of MatchingEngineProgram, see EngineClient.    *)
(* Every builder that fetches accounts comes with its reads: the addresses *)
(* it awaits, in order.  An address that depends on an earlier answer is   *)
(* known only once that answer is in `seen`.                               *)
(***************************************************************************)
EXTENDS EngineClient

HashOf(call) == digest(Vaas[call.fastVaa])
OrderIn(call) == payload(Vaas[call.fastVaa])
AuctionOf(call) == auctionAddress(HashOf(call))
ResponseOf(call) == preparedOrderResponseAddress(HashOf(call))
ReservedOf(call) == reservedFastFillSequenceAddress(HashOf(call))
Programs == [tokenProgram |-> TokenProgram, systemProgram |-> SystemProgram]
EventCpi == [eventAuthority |-> eventAuthorityAddress, program |-> ID]
-----------------------------------------------------------------------------
(* Administration.                                                         *)
initializeIx(call, network) ==
    LET manager == upgradeManagerProgram(network)
    IN  << Ix("initialize",
        [owner |-> call.by, custodian |-> custodianAddress,
         auctionConfig |-> auctionConfigAddress(0),
         ownerAssistant |-> call.assistant, feeRecipient |-> call.feeRecipient,
         feeRecipientToken |-> Ata(call.feeRecipient),
         cctpMintRecipient |-> cctpMintRecipientAddress,
         usdc |-> usdcComposite, programData |-> programDataAddress(ID),
         upgradeManagerAuthority |-> Pda(manager, <<"upgrade">>),
         upgradeManagerProgram |-> manager,
         bpfLoaderUpgradeableProgram |-> BpfLoader,
         associatedTokenProgram |-> AssociatedTokenProgram] @@ Programs) >>

setPauseIx(call) ==
    << Ix("setPause", [admin |-> adminMutComposite(call.by)]) >>

submitOwnershipTransferIx(call) ==
    << Ix("submitOwnershipTransferRequest",
          [admin |-> ownerOnlyMutComposite(call.by), newOwner |-> call.newKey]) >>

confirmOwnershipTransferIx(call) ==
    << Ix("confirmOwnershipTransferRequest",
          [pendingOwner |-> call.by, custodian |-> custodianAddress]) >>

cancelOwnershipTransferIx(call) ==
    << Ix("cancelOwnershipTransferRequest", [admin |-> ownerOnlyMutComposite(call.by)]) >>

updateOwnerAssistantIx(call) ==
    << Ix("updateOwnerAssistant",
          [admin |-> ownerOnlyMutComposite(call.by), newOwnerAssistant |-> call.newKey]) >>

addCctpRouterEndpointIx(call) ==
    << Ix("addCctpRouterEndpoint",
          [payer |-> call.by, admin |-> adminComposite(call.by),
           routerEndpoint |-> routerEndpointAddress(call.chain),
           localCustodyToken |-> localCustodyTokenAddress(call.chain),
           remoteTokenMessenger |-> remoteTokenMessengerAddress(call.domain),
           usdc |-> usdcComposite] @@ Programs) >>

updateCctpRouterEndpointIx(call) ==
    << Ix("updateCctpRouterEndpoint",
          [admin |-> ownerOnlyComposite(call.by),
           routerEndpoint |-> routerEndpointComposite(routerEndpointAddress(call.chain)),
           remoteTokenMessenger |-> remoteTokenMessengerAddress(call.domain)]) >>

addLocalRouterEndpointIx(call) ==
    << Ix("addLocalRouterEndpoint",
          [payer |-> call.by, admin |-> adminComposite(call.by),
           routerEndpoint |-> routerEndpointAddress(Solana),
           local |-> localTokenRouterComposite(call.router),
           systemProgram |-> SystemProgram]) >>

updateLocalRouterEndpointIx(call) ==
    << Ix("updateLocalRouterEndpoint",
          [admin |-> ownerOnlyComposite(call.by),
           routerEndpoint |-> routerEndpointComposite(routerEndpointAddress(Solana)),
           local |-> localTokenRouterComposite(call.router)]) >>

disableRouterEndpointIx(call) ==
    << Ix("disableRouterEndpoint",
          [admin |-> ownerOnlyComposite(call.by),
           routerEndpoint |-> routerEndpointComposite(routerEndpointAddress(call.chain))]) >>

updateFeeRecipientIx(call) ==
    << Ix("updateFeeRecipient",
          [admin |-> adminMutComposite(call.by), newFeeRecipient |-> call.newKey,
           newFeeRecipientToken |-> Ata(call.newKey)]) >>

\* The address of a proposal defaults to that of the custodian's next one, which is
\* the pending one: the number moves on when a proposal is enacted.
proposeAuctionParametersReads == <<custodianAddress>>
proposeAuctionParametersIx(call, seen) ==
    << Ix("proposeAuctionParameters",
          [payer |-> call.by, admin |-> adminComposite(call.by),
           proposal |-> proposalAddress(seen[1].nextProposalId),
           epochSchedule |-> EpochSchedule, systemProgram |-> SystemProgram] @@ EventCpi) >>

closeProposalReads(seen) ==
    IF seen = <<>> THEN <<custodianAddress>>
    ELSE <<custodianAddress, proposalAddress(seen[1].nextProposalId)>>
closeProposalIx(call, seen) ==
    << Ix("closeProposal",
          [admin |-> adminComposite(call.by), proposedBy |-> seen[2].by,
           proposal |-> proposalAddress(seen[1].nextProposalId)]) >>

updateAuctionParametersReads == <<custodianAddress, custodianAddress>>
updateAuctionParametersIx(call, seen) ==
    << Ix("updateAuctionParameters",
          [payer |-> call.by, admin |-> ownerOnlyMutComposite(call.by),
           proposal |-> proposalAddress(seen[1].nextProposalId),
           auctionConfig |-> auctionConfigAddress(seen[2].auctionConfigId + 1),
           systemProgram |-> SystemProgram] @@ EventCpi) >>
-----------------------------------------------------------------------------
(* Offers.                                                                 *)
placeInitialOfferReads(seen) ==
    IF seen = <<>> THEN <<custodianAddress>>
    ELSE <<custodianAddress, auctionConfigAddress(seen[1].auctionConfigId)>>
placeInitialOfferCctpIx(call, seen) ==
    LET order == OrderIn(call)
        auction == AuctionOf(call)
        totalDeposit == order.amountIn + order.maxFee
            + computeNotionalSecurityDeposit(order.amountIn, seen[2].parameters)
        approval == approveTransferAuthority(call.by, auction, call.offerPrice, totalDeposit)
    IN  Approved(approval, Ix("placeInitialOfferCctp",
          [payer |-> call.by, transferAuthority |-> approval.delegate,
           custodian |-> checkedCustodianComposite,
           auctionConfig |-> auctionConfigAddress(seen[1].auctionConfigId),
           auction |-> auction, fastOrderPath |-> PathOf(call.fastVaa),
           offerToken |-> Ata(call.by),
           auctionCustodyToken |-> auctionCustodyTokenAddress(auction),
           usdc |-> usdcComposite] @@ Programs @@ EventCpi))

improveOfferReads(call) == <<AuctionOf(call)>>
improveOfferIx(call, seen) ==
    LET info == seen[1].info
        approval == approveTransferAuthority(call.by, AuctionOf(call), call.offerPrice,
                                             info.amountIn + info.securityDeposit)
    IN  IF info = Null THEN Throw
        ELSE Approved(approval, Ix("improveOffer",
               [transferAuthority |-> approval.delegate,
                activeAuction |-> activeAuctionComposite(AuctionOf(call), info),
                offerToken |-> Ata(call.by), tokenProgram |-> TokenProgram] @@ EventCpi))
-----------------------------------------------------------------------------
(* Settlement.                                                             *)
prepareOrderResponseCctpIx(call, baseFeeToken) ==
    << Ix("prepareOrderResponseCctp",
          [payer |-> call.by, custodian |-> checkedCustodianComposite,
           fastOrderPath |-> PathOf(call.fastVaa),
           finalizedVaa |-> liquidityLayerVaaComposite(call.finalizedVaa),
           preparedOrderResponse |-> ResponseOf(call),
           preparedCustodyToken |-> preparedCustodyTokenAddress(ResponseOf(call)),
           baseFeeToken |-> baseFeeToken, usdc |-> usdcComposite,
           cctp |-> [mintRecipient |-> cctpMintRecipientComposite]
               @@ receiveTokenMessengerMinterMessageAccounts(Usdc, call.cctpMessage)]
           @@ Programs) >>

settleAuctionCompleteAccounts(beneficiary, baseFeeToken, response, auction, bestOfferToken) ==
    << Ix("settleAuctionComplete",
          [beneficiary |-> beneficiary, baseFeeToken |-> baseFeeToken,
           preparedOrderResponse |-> response,
           preparedCustodyToken |-> preparedCustodyTokenAddress(response),
           auction |-> auction, bestOfferToken |-> bestOfferToken,
           tokenProgram |-> TokenProgram] @@ EventCpi) >>

settleAuctionCompleteReads(call, seen) ==
    IF seen = <<>> THEN <<ResponseOf(call)>>
    ELSE <<ResponseOf(call), auctionAddress(seen[1].seeds.fastVaaHash)>>
settleAuctionCompleteIx(call, seen) ==
    IF seen[2].info = Null THEN Throw
    ELSE settleAuctionCompleteAccounts(seen[1].info.preparedBy, seen[1].info.baseFeeToken,
             ResponseOf(call), auctionAddress(seen[1].seeds.fastVaaHash),
             seen[2].info.bestOfferToken)

\* The caller names the best offer token, which it finds in the auction.  Without a
\* penalty the beneficiary is the owner of that token and not the executor.
NoPenalty(status) == status.kind = "completed" /\ status.executePenalty = "null"
settleAuctionCompleteTxReads(call, seen) ==
    LET auction == AuctionOf(call)
    IN  IF Len(seen) >= 2 /\ seen[1].info # Null /\ NoPenalty(seen[2].status)
        THEN <<auction, auction, seen[1].info.bestOfferToken>>
        ELSE <<auction, auction>>
settleAuctionCompleteTx(call, seen) ==
    LET bestOfferToken == seen[1].info.bestOfferToken
        executor == IF NoPenalty(seen[2].status) THEN seen[3].owner ELSE call.by
    IN  IF seen[1].info = Null THEN Throw
        ELSE prepareOrderResponseCctpIx(call, bestOfferToken)
             \o settleAuctionCompleteAccounts(executor, bestOfferToken, ResponseOf(call),
                                              AuctionOf(call), bestOfferToken)

\* The fast fill is the one the reserved sequence was set aside for.
settleAuctionNoneLocalIx(call, reserved, custodian) ==
    << Ix("settleAuctionNoneLocal",
          [payer |-> call.by, custodian |-> checkedCustodianComposite,
           feeRecipientToken |-> custodian.feeRecipientToken,
           prepared |-> closePreparedOrderResponseComposite(call.by, ResponseOf(call)),
           auction |-> auctionAddress(reserved.seeds.fastVaaHash),
           reservedSequence |-> ReservedOf(call),
           fastFill |-> fastFillAddress(reserved.fastFillSeeds.sourceChain,
                            reserved.fastFillSeeds.orderSender,
                            reserved.fastFillSeeds.sequence),
           localCustodyToken |->
               localCustodyTokenAddress(reserved.fastFillSeeds.sourceChain),
           sysvars |-> requiredSysvarsComposite] @@ Programs @@ EventCpi) >>

settleAuctionNoneCctpIx(call, endpoint, custodian, network) ==
    IF ~IsCctp(endpoint) THEN Throw
    ELSE << Ix("settleAuctionNoneCctp",
          [payer |-> call.by, custodian |-> checkedCustodianComposite,
           feeRecipientToken |-> custodian.feeRecipientToken,
           prepared |-> closePreparedOrderResponseComposite(call.by, ResponseOf(call)),
           auction |-> AuctionOf(call), sysvars |-> requiredSysvarsComposite]
           @@ burnAndPublishAccounts(network, AuctionOf(call), endpoint)
           @@ Programs @@ EventCpi) >>

settleAuctionNoneTxReads(call) ==
    << custodianAddress,
       IF OrderIn(call).targetChain = Solana THEN ReservedOf(call)
       ELSE routerEndpointAddress(OrderIn(call).targetChain),
       custodianAddress >>
settleAuctionNoneTx(call, seen, network) ==
    LET settle == IF OrderIn(call).targetChain = Solana
                  THEN settleAuctionNoneLocalIx(call, seen[2], seen[3])
                  ELSE settleAuctionNoneCctpIx(call, seen[2], seen[3], network)
    IN  IF settle = Throw THEN Throw
        ELSE prepareOrderResponseCctpIx(call, seen[1].feeRecipientToken) \o settle
-----------------------------------------------------------------------------
(* Execution.                                                              *)
executeOrderComposite(call, auction) ==
    [fastVaa |-> liquidityLayerVaaComposite(call.fastVaa),
     activeAuction |-> activeAuctionComposite(AuctionOf(call), auction.info),
     executorToken |-> Ata(call.by), initialOfferToken |-> auction.info.initialOfferToken,
     initialParticipant |-> auction.preparedBy]

executeFastOrderCctpIx(call, auction, endpoint, network) ==
    IF auction.info = Null \/ ~IsCctp(endpoint) THEN Throw
    ELSE << Ix("executeFastOrderCctp",
          [payer |-> call.by, custodian |-> checkedCustodianComposite,
           executeOrder |-> executeOrderComposite(call, auction),
           toRouterEndpoint |-> routerEndpointComposite(
               routerEndpointAddress(OrderIn(call).targetChain)),
           sysvars |-> requiredSysvarsComposite]
           @@ burnAndPublishAccounts(network, AuctionOf(call), endpoint)
           @@ Programs @@ EventCpi) >>

executeFastOrderLocalIx(call, reserved, auction) ==
    LET source == emitterInfo(Vaas[call.fastVaa]).chain
    IN  IF auction.info = Null THEN Throw
        ELSE << Ix("executeFastOrderLocal",
          [payer |-> call.by, custodian |-> checkedCustodianComposite,
           executeOrder |-> executeOrderComposite(call, auction),
           reservedSequence |-> ReservedOf(call),
           reserveBeneficiary |-> reserved.beneficiary,
           fastFill |-> fastFillAddress(source, OrderIn(call).sender,
                                        reserved.fastFillSeeds.sequence),
           localCustodyToken |-> localCustodyTokenAddress(source),
           sysvars |-> requiredSysvarsComposite] @@ Programs @@ EventCpi) >>

executeFastOrderTxReads(call) ==
    IF OrderIn(call).targetChain = Solana THEN <<ReservedOf(call), AuctionOf(call)>>
    ELSE <<AuctionOf(call), routerEndpointAddress(OrderIn(call).targetChain)>>
executeFastOrderTx(call, seen, network) ==
    IF OrderIn(call).targetChain = Solana
    THEN executeFastOrderLocalIx(call, seen[1], seen[2])
    ELSE executeFastOrderCctpIx(call, seen[1], seen[2], network)
-----------------------------------------------------------------------------
(* Fast fills and closing.                                                 *)
reserveFastFillSequenceComposite(call) ==
    [payer |-> call.by, fastOrderPath |-> PathOf(call.fastVaa),
     sequencer |-> fastFillSequencerAddress(emitterInfo(Vaas[call.fastVaa]).chain,
                                            OrderIn(call).sender),
     reserved |-> ReservedOf(call), auction |-> AuctionOf(call),
     systemProgram |-> SystemProgram]

reserveActiveAuctionReads(call) == <<AuctionOf(call)>>
reserveFastFillSequenceActiveAuctionIx(call, seen) ==
    IF seen[1].info = Null THEN Throw
    ELSE << Ix("reserveFastFillSequenceActiveAuction",
               [reserveSequence |-> reserveFastFillSequenceComposite(call),
                auctionConfig |-> auctionConfigAddress(seen[1].info.configId)]
               @@ EventCpi) >>

reserveFastFillSequenceNoAuctionIx(call) ==
    << Ix("reserveFastFillSequenceNoAuction",
          [reserveSequence |-> reserveFastFillSequenceComposite(call),
           preparedOrderResponse |-> ResponseOf(call)] @@ EventCpi) >>

closeAuctionReads(call) == <<AuctionOf(call)>>
closeAuctionIx(call, seen) ==
    << Ix("closeAuction", [auction |-> AuctionOf(call), beneficiary |-> seen[1].preparedBy]
                          @@ EventCpi) >>

\* What the token router's redemption of a fast fill takes of this program.
redeemFastFillAccounts(fastFill) ==
    [custodian |-> custodianAddress,
     fromRouterEndpoint |-> routerEndpointAddress(fastFill.seeds.sourceChain),
     toRouterEndpoint |-> routerEndpointAddress(Solana),
     localCustodyToken |-> localCustodyTokenAddress(fastFill.seeds.sourceChain),
     eventAuthority |-> eventAuthorityAddress,
     matchingEngineProgram |-> ID]
=============================================================================
