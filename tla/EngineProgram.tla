---------------------------- MODULE EngineProgram ---------------------------
(***************************************************************************)
(* What the matching engine demands of the accounts of an instruction, and *)
(* what it then writes.  `s` maps the addresses that exist to their data,  *)
(* `a` is the account record of the instruction, `call` its arguments and  *)
(* `env` the clock of the chain; ProgramAccounts has the three results.    *)
(* Addresses are derived here once more, from the seeds of the program.    *)
(***************************************************************************)
EXTENDS ProgramAccounts

CONSTANT
    Vaas        \* address of a VAA account |-> its data

Idl == INSTANCE EngineIdl
Circle == INSTANCE CctpClient       \* the accounts Circle's programs look for

ID == <<"matching-engine">>

\* The digest of a posted VAA: its body hashed twice.
Digest(vaa) ==
    LET body == Circle!Body(Vaas[vaa])
    IN  Keccak256(Keccak256(U16BE(body.emitterChain) \o U64BE(body.sequence)
                            \o <<body.payload.kind>>))
Source(vaa) == Circle!Body(Vaas[vaa]).emitterChain
Order(vaa) == Circle!Body(Vaas[vaa]).payload

Custodian == Pda(ID, <<"emitter">>)
AuctionAt(vaaHash) == Pda(ID, <<"auction">> \o vaaHash)
AuctionCustody(auction) == Pda(ID, <<"auction-custody">> \o auction)
ResponseAt(vaaHash) == Pda(ID, <<"order-response">> \o vaaHash)
PreparedCustody(response) == Pda(ID, <<"prepared-custody">> \o response)
ReservedAt(vaaHash) == Pda(ID, <<"reserved-fast-fill-sequence">> \o vaaHash)
EndpointAt(chain) == Pda(ID, <<"endpoint">> \o U16BE(chain))
LocalCustody(chain) == Pda(ID, <<"local-custody">> \o U16BE(chain))
FastFillAt(seeds) ==
    Pda(ID, <<"fast-fill">> \o U16BE(seeds.sourceChain) \o seeds.orderSender
            \o U64BE(seeds.sequence))
ConfigAt(id) == Pda(ID, <<"auction-config">> \o U32BE(id))
ProposalAt(id) == Pda(ID, <<"proposal">> \o U64BE(id))

\* Accounts whose address is a constant, wherever an instruction has them.
Fixed == [tokenProgram |-> TokenProgram, systemProgram |-> SystemProgram,
          eventAuthority |-> Pda(ID, <<"__event_authority">>), program |-> ID,
          usdc |-> [mint |-> Usdc], epochSchedule |-> EpochSchedule,
          sysvars |-> [rent |-> Rent, clock |-> Clock],
          bpfLoaderUpgradeableProgram |-> BpfLoader,
          associatedTokenProgram |-> AssociatedTokenProgram]
FixedHold(a) == \A f \in DOMAIN a \cap DOMAIN Fixed : a[f] = Fixed[f]
-----------------------------------------------------------------------------
(* Composites.                                                             *)
CheckedCustodian(composite) == composite.custodian = Custodian

Live(s, chain) ==
    /\ Exists(s, EndpointAt(chain))
    /\ s[EndpointAt(chain)].info.protocol.kind # "none"
IsFastOrder(vaa) == vaa \in DOMAIN Vaas /\ Order(vaa).kind = "fastMarketOrder"
LivePath(s, vaa) ==
    IsFastOrder(vaa) /\ Live(s, Source(vaa)) /\ Live(s, Order(vaa).targetChain)
        /\ Source(vaa) # Order(vaa).targetChain
FastOrderPath(composite, vaa) ==
    /\ composite.fastVaa.vaa = vaa
    /\ composite.path.fromEndpoint.endpoint = EndpointAt(Source(vaa))
    /\ composite.path.toEndpoint.endpoint = EndpointAt(Order(vaa).targetChain)

IsActive(s, vaa) ==
    /\ Exists(s, AuctionAt(Digest(vaa)))
    /\ s[AuctionAt(Digest(vaa))].status.kind = "active"
IsBestOffer_Unchecked(composite, auction) == TRUE     \* mutant: no constraint
IsBestOffer(composite, auction) ==
    composite.bestOfferToken = auction.info.bestOfferToken
ActiveAuction(s, composite, vaa) ==
    /\ composite.auction = AuctionAt(Digest(vaa))
    /\ composite.custodyToken = AuctionCustody(composite.auction)
    /\ Is(s, composite.config, Idl!auctionConfig)
    /\ s[composite.config].id = s[composite.auction].info.configId
    /\ IsBestOffer(composite, s[composite.auction])

WormholePublishMessage(composite, network) ==
    composite = [config |-> Pda(Bridge(network), <<"Bridge">>),
                 emitterSequence |-> Pda(Bridge(network), <<"Sequence">> \o Custodian),
                 feeCollector |-> Pda(Bridge(network), <<"fee_collector">>),
                 coreBridgeProgram |-> Bridge(network)]
\* Publishing and burning for a domain, on behalf of an auction.
BurnAndPublish(a, auction, domain, network) ==
    /\ a.coreMessage = Pda(ID, <<"core-msg">> \o auction)
    /\ a.cctpMessage = Pda(ID, <<"cctp-msg">> \o auction)
    /\ WormholePublishMessage(a.wormhole, network)
    /\ a.cctp = Circle!depositForBurnWithCallerAccounts(Usdc, domain)
-----------------------------------------------------------------------------
(* Offers.                                                                 *)
TransferAuthority(auction, offerPrice) ==
    Pda(ID, <<"transfer-authority">> \o auction \o U64BE(offerPrice))

Deposit(config, order) ==
    order.amountIn + order.maxFee + config.parameters.securityDepositBase
        + (order.amountIn * config.parameters.securityDepositBps) \div 1000000

placeInitialOfferCctp(s, a, call, env) ==
    LET order == Order(call.fastVaa)
        hash == Digest(call.fastVaa)
        authority == TransferAuthority(AuctionAt(hash), call.offerPrice)
        config == s[a.auctionConfig]
        deposit == Deposit(config, order)
        info == [configId |-> config.id, sourceChain |-> Source(call.fastVaa),
                 bestOfferToken |-> a.offerToken, initialOfferToken |-> a.offerToken,
                 amountIn |-> order.amountIn, offerPrice |-> call.offerPrice,
                 securityDeposit |-> deposit - order.amountIn]
        auction == [vaaHash |-> hash, preparedBy |-> a.payer, info |-> info,
                    status |-> [kind |-> "active"],
                    targetProtocol |-> s[EndpointAt(order.targetChain)].info.protocol]
    IN  Result(
          /\ ~s[Custodian].paused /\ ~env.expired
          /\ LivePath(s, call.fastVaa)
          /\ call.offerPrice <= order.maxFee
          /\ ~Exists(s, AuctionAt(hash)),
          /\ CheckedCustodian(a.custodian)
          /\ a.transferAuthority = authority
          /\ Is(s, a.auctionConfig, Idl!auctionConfig)
          /\ config.id = s[Custodian].auctionConfigId
          /\ FastOrderPath(a.fastOrderPath, call.fastVaa)
          /\ a.auction = AuctionAt(hash)
          /\ a.auctionCustodyToken = AuctionCustody(a.auction)
          /\ IsToken(s, a.offerToken) /\ CanSpend(s, a.offerToken, authority, deposit),
          Put(Put(Spend(s, a.offerToken, deposit), a.auction, auction),
              a.auctionCustodyToken, NewToken(a.auction)))

Improves_OrEquals(price, info) == price <= info.offerPrice    \* mutant: at the same price
Improves(price, info) == price < info.offerPrice

\* The owner of the best offer moves no funds when it improves its own.
improveOffer(s, a, call, env) ==
    LET auction == AuctionAt(Digest(call.fastVaa))
        info == s[auction].info
        authority == TransferAuthority(auction, call.offerPrice)
        total == info.amountIn + info.securityDeposit
        moves == a.offerToken # info.bestOfferToken
        paid == IF moves THEN Spend(s, a.offerToken, total) ELSE s
    IN  Result(
          /\ IsActive(s, call.fastVaa) /\ env.period = "bidding"
          /\ Improves(call.offerPrice, info),
          /\ a.transferAuthority = authority
          /\ ActiveAuction(s, a.activeAuction, call.fastVaa)
          /\ IsToken(s, a.offerToken) /\ a.offerToken # a.activeAuction.custodyToken
          /\ moves => CanSpend(s, a.offerToken, authority, total),
          Put(paid, auction, [s[auction] EXCEPT !.info.bestOfferToken = a.offerToken,
                                                !.info.offerPrice = call.offerPrice]))
-----------------------------------------------------------------------------
(* Order responses and settlement.                                         *)
UsedNonces(message) == Circle!usedNoncesAddress(message.sourceDomain, message.nonce)
Received(s, message) ==
    IF Exists(s, UsedNonces(message)) THEN s[UsedNonces(message)].usedNonces ELSE {}
IsReceived(s, message) == message.nonce \in Received(s, message)
Receive(s, message) ==
    Put(s, UsedNonces(message), [usedNonces |-> Received(s, message) \cup {message.nonce}])

prepareOrderResponseCctp(s, a, call, env) ==
    LET hash == Digest(call.fastVaa)
        response == ResponseAt(hash)
        data == [seeds |-> [fastVaaHash |-> hash],
                 info |-> [preparedBy |-> a.payer, baseFeeToken |-> a.baseFeeToken,
                           sourceChain |-> Source(call.finalizedVaa),
                           sender |-> Order(call.fastVaa).sender],
                 toEndpoint |-> s[EndpointAt(Order(call.fastVaa).targetChain)].info]
        minted == Receive(s, call.cctpMessage)
    IN  Result(
          /\ LivePath(s, call.fastVaa)
          /\ Source(call.fastVaa) = Source(call.finalizedVaa)
          /\ Circle!Body(Vaas[call.fastVaa]).sequence
                 = Circle!Body(Vaas[call.finalizedVaa]).sequence + 1
          /\ Order(call.finalizedVaa).kind = "slowOrderResponse"
          /\ Exists(s, response) \/ ~IsReceived(s, call.cctpMessage),
          /\ CheckedCustodian(a.custodian)
          /\ FastOrderPath(a.fastOrderPath, call.fastVaa)
          /\ a.finalizedVaa.vaa = call.finalizedVaa
          /\ a.preparedOrderResponse = response
          /\ a.preparedCustodyToken = PreparedCustody(response)
          /\ IsToken(s, a.baseFeeToken) /\ a.baseFeeToken # a.preparedCustodyToken
          /\ a.cctp = [mintRecipient |-> [mintRecipient |-> Ata(Custodian)]]
                 @@ Circle!receiveTokenMessengerMinterMessageAccounts(Usdc, call.cctpMessage),
          IF Exists(s, response) THEN s     \* init_if_needed, and no second message
          ELSE Put(Put(minted, response, data), PreparedCustody(response),
                   NewToken(response)))

settleAuctionComplete(s, a, call, env) ==
    LET hash == Digest(call.fastVaa)
        response == ResponseAt(hash)
        auction == AuctionAt(hash)
    IN  Result(
          /\ Exists(s, response) /\ Exists(s, auction)
          /\ s[auction].status.kind = "completed"
          /\ IsToken(s, s[auction].info.bestOfferToken),
          /\ a.preparedOrderResponse = response /\ a.auction = auction
          /\ a.preparedCustodyToken = PreparedCustody(response)
          /\ a.beneficiary = s[response].info.preparedBy
          /\ a.baseFeeToken = s[response].info.baseFeeToken
          /\ a.bestOfferToken = s[auction].info.bestOfferToken,
          Close(Put(s, auction, [s[auction] EXCEPT !.status = [kind |-> "settled"]]),
                {response, PreparedCustody(response)}))

ClosePreparedOrderResponse(s, composite, response) ==
    /\ composite.orderResponse = response
    /\ composite.by = s[response].info.preparedBy
    /\ composite.custodyToken = PreparedCustody(response)
FeeRecipientToken(s, token) == token = s[Custodian].feeRecipientToken /\ IsToken(s, token)

\* An auction that never was: it keeps who prepared it and where it was going.
Placeholder(response, status) ==
    [vaaHash |-> response.seeds.fastVaaHash, targetProtocol |-> response.toEndpoint.protocol,
     status |-> [kind |-> status], preparedBy |-> response.info.preparedBy, info |-> Null]

settleAuctionNoneCctp(s, a, call, env) ==
    LET hash == Digest(call.fastVaa)
        response == ResponseAt(hash)
        auction == AuctionAt(hash)
        protocol == s[response].toEndpoint.protocol
    IN  Result(
          /\ Exists(s, response) /\ ~Exists(s, auction)
          /\ protocol.kind = "cctp",
          /\ CheckedCustodian(a.custodian)
          /\ FeeRecipientToken(s, a.feeRecipientToken)
          /\ ClosePreparedOrderResponse(s, a.prepared, response)
          /\ a.auction = auction
          /\ BurnAndPublish(a, auction, protocol.domain, env.network),
          Close(Put(s, auction, Placeholder(s[response], "settled")),
                {response, PreparedCustody(response)}))

NewFastFill(seeds, payer, redeemer) ==
    [seeds |-> seeds, redeemed |-> FALSE,
     info |-> [preparedBy |-> payer, redeemer |-> redeemer]]

settleAuctionNoneLocal(s, a, call, env) ==
    LET hash == Digest(call.fastVaa)
        response == ResponseAt(hash)
        auction == AuctionAt(hash)
        reserved == ReservedAt(hash)
        seeds == s[reserved].fastFillSeeds
        custody == LocalCustody(s[response].info.sourceChain)
    IN  Result(
          /\ Exists(s, response) /\ Exists(s, auction)
          /\ Is(s, reserved, Idl!reservedFastFillSequence)
          /\ s[auction].status.kind = "notStarted"
          /\ ~Exists(s, FastFillAt(seeds)) /\ Exists(s, custody),
          /\ CheckedCustodian(a.custodian)
          /\ FeeRecipientToken(s, a.feeRecipientToken)
          /\ ClosePreparedOrderResponse(s, a.prepared, response)
          /\ a.prepared.by = s[reserved].beneficiary
          /\ a.auction = auction /\ a.reservedSequence = reserved
          /\ a.fastFill = FastFillAt(seeds) /\ a.localCustodyToken = custody,
          Close(Put(Put(s, auction, [s[auction] EXCEPT !.status = [kind |-> "settled"]]),
                    a.fastFill, NewFastFill(seeds, a.payer, Order(call.fastVaa).redeemer)),
                {response, PreparedCustody(response), reserved}))
-----------------------------------------------------------------------------
(* Execution.                                                              *)
ExecuteOrder(s, composite, vaa) ==
    LET auction == s[AuctionAt(Digest(vaa))]
    IN  /\ composite.fastVaa.vaa = vaa
        /\ ActiveAuction(s, composite.activeAuction, vaa)
        /\ IsToken(s, composite.executorToken)
        /\ composite.initialOfferToken = auction.info.initialOfferToken
        /\ composite.initialParticipant = auction.preparedBy
CanExecute(s, vaa, env) == IsActive(s, vaa) /\ env.period # "bidding"
Completed(auction, env) ==
    [auction EXCEPT !.status = [kind |-> "completed",
        executePenalty |-> IF env.period = "late" THEN "some" ELSE "null"]]

executeFastOrderCctp(s, a, call, env) ==
    LET auction == AuctionAt(Digest(call.fastVaa))
        target == Order(call.fastVaa).targetChain
        protocol == s[EndpointAt(target)].info.protocol
    IN  Result(
          /\ CanExecute(s, call.fastVaa, env) /\ Live(s, target)
          /\ protocol = s[auction].targetProtocol /\ protocol.kind = "cctp",
          /\ CheckedCustodian(a.custodian)
          /\ ExecuteOrder(s, a.executeOrder, call.fastVaa)
          /\ a.toRouterEndpoint.endpoint = EndpointAt(target)
          /\ BurnAndPublish(a, auction, protocol.domain, env.network),
          Close(Put(s, auction, Completed(s[auction], env)), {AuctionCustody(auction)}))

executeFastOrderLocal(s, a, call, env) ==
    LET hash == Digest(call.fastVaa)
        auction == AuctionAt(hash)
        reserved == ReservedAt(hash)
        seeds == s[reserved].fastFillSeeds
    IN  Result(
          /\ CanExecute(s, call.fastVaa, env)
          /\ Is(s, reserved, Idl!reservedFastFillSequence)
          /\ ~Exists(s, FastFillAt(seeds)) /\ Exists(s, LocalCustody(Source(call.fastVaa))),
          /\ CheckedCustodian(a.custodian)
          /\ ExecuteOrder(s, a.executeOrder, call.fastVaa)
          /\ a.reservedSequence = reserved
          /\ a.reserveBeneficiary = s[reserved].beneficiary
          /\ a.fastFill = FastFillAt(seeds)
          /\ a.localCustodyToken = LocalCustody(Source(call.fastVaa)),
          Close(Put(Put(s, auction, Completed(s[auction], env)),
                    a.fastFill, NewFastFill(seeds, a.payer, Order(call.fastVaa).redeemer)),
                {reserved, AuctionCustody(auction)}))
-----------------------------------------------------------------------------
(* Reserved sequences, and the end of an auction.                          *)
SequencerAt(vaa) ==
    Pda(ID, <<"fast-fill-sequencer">> \o U16BE(Source(vaa)) \o Order(vaa).sender)

CanReserve(s, vaa) ==
    /\ LivePath(s, vaa)
    /\ s[EndpointAt(Order(vaa).targetChain)].info.protocol.kind = "local"
    /\ ~Exists(s, ReservedAt(Digest(vaa)))
ReserveFastFillSequence(composite, vaa) ==
    /\ FastOrderPath(composite.fastOrderPath, vaa)
    /\ composite.sequencer = SequencerAt(vaa)
    /\ composite.reserved = ReservedAt(Digest(vaa))
    /\ composite.auction = AuctionAt(Digest(vaa))
    /\ composite.systemProgram = SystemProgram

SetReservedSequence(s, vaa, beneficiary) ==
    LET seeds == [sourceChain |-> Source(vaa), sender |-> Order(vaa).sender]
        next == IF Exists(s, SequencerAt(vaa)) THEN s[SequencerAt(vaa)].nextSequence ELSE 0
        reserved == [seeds |-> [fastVaaHash |-> Digest(vaa)], beneficiary |-> beneficiary,
                     fastFillSeeds |-> [sourceChain |-> seeds.sourceChain,
                                        orderSender |-> seeds.sender, sequence |-> next]]
    IN  Put(Put(s, ReservedAt(Digest(vaa)), reserved),
            SequencerAt(vaa), [seeds |-> seeds, nextSequence |-> next + 1])

reserveFastFillSequenceActiveAuction(s, a, call, env) ==
    LET auction == s[AuctionAt(Digest(call.fastVaa))]
    IN  Result(
          /\ CanReserve(s, call.fastVaa) /\ IsActive(s, call.fastVaa)
          /\ auction.targetProtocol.kind = "local" /\ env.period # "bidding",
          /\ ReserveFastFillSequence(a.reserveSequence, call.fastVaa)
          /\ Is(s, a.auctionConfig, Idl!auctionConfig)
          /\ s[a.auctionConfig].id = auction.info.configId,
          SetReservedSequence(s, call.fastVaa, a.reserveSequence.payer))

reserveFastFillSequenceNoAuction(s, a, call, env) ==
    LET hash == Digest(call.fastVaa)
        response == s[ResponseAt(hash)]
    IN  Result(
          /\ CanReserve(s, call.fastVaa)
          /\ ~Exists(s, AuctionAt(hash)) /\ Exists(s, ResponseAt(hash)),
          /\ ReserveFastFillSequence(a.reserveSequence, call.fastVaa)
          /\ Is(s, a.preparedOrderResponse, Idl!preparedOrderResponse)
          /\ s[a.preparedOrderResponse].seeds.fastVaaHash = hash,
          Put(SetReservedSequence(s, call.fastVaa, response.info.preparedBy),
              AuctionAt(hash), Placeholder(response, "notStarted")))

closeAuction(s, a, call, env) ==
    LET auction == AuctionAt(Digest(call.fastVaa))
    IN  Result(
          /\ Exists(s, auction) /\ s[auction].status.kind = "settled" /\ env.expired,
          a.auction = auction /\ a.beneficiary = s[auction].preparedBy,
          Close(s, {auction}))
=============================================================================
