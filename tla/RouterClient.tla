---------------------------- MODULE RouterClient ----------------------------
(***************************************************************************)
(* TokenRouterProgram, the client of the token router: its addresses and   *)
(* instruction builders, in the conventions of EngineClient.               *)
(***************************************************************************)
EXTENDS CctpClient

CONSTANT
    Vaas        \* address of a VAA account |-> its data

Engine == INSTANCE EngineBuilders

ID == <<"token-router">>

Throw == <<>>
Ix(name, accounts) == [program |-> ID, name |-> name, accounts |-> accounts]
-----------------------------------------------------------------------------
custodianAddress == Pda(ID, <<"emitter">>)
cctpMintRecipientAddress == Ata(custodianAddress)
preparedCustodyTokenAddress(prepared) == Pda(ID, <<"prepared-custody">> \o prepared)
preparedFillAddress(fillSource) == Pda(ID, <<"fill">> \o fillSource)

\* The hash of the arguments makes the authority good for this order only.
ArgsHash(args) ==
    Keccak256(U64BE(args.amountIn)
              \o (IF args.minAmountOut = <<>> THEN <<>> ELSE U64BE(args.minAmountOut[1]))
              \o U16BE(args.targetChain) \o args.redeemer)
transferAuthorityAddress(preparedOrder, args, refundToken) ==
    Pda(ID, <<"transfer-authority">> \o preparedOrder \o ArgsHash(args) \o refundToken)

checkedCustodianComposite == [custodian |-> custodianAddress]
adminMutComposite(ownerOrAssistant) ==
    [ownerOrAssistant |-> ownerOrAssistant, custodian |-> custodianAddress]
ownerOnlyMutComposite(owner) == [owner |-> owner, custodian |-> custodianAddress]
registeredEndpointComposite(chain) == [endpoint |-> Engine!routerEndpointAddress(chain)]
Programs == [tokenProgram |-> TokenProgram, systemProgram |-> SystemProgram]
-----------------------------------------------------------------------------
\* There is no upgrade manager for the main network's router.
upgradeManagerProgram(network) ==
    CASE network = "testnet" -> <<"ucdP9ktg">>
      [] network = "localnet" -> <<"UpgradeManager11">>
      [] OTHER -> Null

publishMessageAccounts(network) ==
    LET bridge == Engine!coreBridgeProgramId(network)
    IN  [coreBridgeConfig |-> Pda(bridge, <<"Bridge">>),
         coreEmitterSequence |-> Pda(bridge, <<"Sequence">> \o custodianAddress),
         coreFeeCollector |-> Pda(bridge, <<"fee_collector">>),
         coreBridgeProgram |-> bridge]
-----------------------------------------------------------------------------
(* Orders.                                                                 *)
\* With a transfer authority the order is preceded by the approval, signed by the
\* owner the token account has when it is fetched.
prepareMarketOrderReads(call) == IF call.useAuthority THEN <<Ata(call.by)>> ELSE <<>>
prepareMarketOrderIx(call, seen) ==
    LET senderToken == Ata(call.by)
        authority == transferAuthorityAddress(call.preparedOrder, call.args, senderToken)
        prepare == Ix("prepareMarketOrder",
          [payer |-> call.by, custodian |-> checkedCustodianComposite,
           programTransferAuthority |-> IF call.useAuthority THEN authority ELSE Null,
           sender |-> IF call.useAuthority THEN Null ELSE call.by,
           preparedOrder |-> call.preparedOrder, senderToken |-> senderToken,
           refundToken |-> senderToken,
           preparedCustodyToken |-> preparedCustodyTokenAddress(call.preparedOrder),
           usdc |-> [mint |-> Usdc],
           targetRouterEndpoint |-> registeredEndpointComposite(call.args.targetChain),
           tokenProgram |-> TokenProgram, systemProgram |-> SystemProgram])
    IN  IF ~call.useAuthority THEN <<prepare>>
        ELSE << [program |-> TokenProgram, name |-> "approve",
                 accounts |-> [source |-> senderToken, delegate |-> authority,
                               owner |-> seen[1].owner, amount |-> call.args.amountIn]],
                prepare >>

closePreparedOrderReads(call) == <<call.preparedOrder>>
closePreparedOrderIx(call, seen) ==
    << Ix("closePreparedOrder",
          [preparedBy |-> seen[1].info.preparedBy, custodian |-> checkedCustodianComposite,
           orderSender |-> seen[1].info.orderSender, preparedOrder |-> call.preparedOrder,
           refundToken |-> seen[1].info.refundToken,
           preparedCustodyToken |-> preparedCustodyTokenAddress(call.preparedOrder),
           tokenProgram |-> TokenProgram]) >>

\* The domain is that of the endpoint as fetched after the order.
placeMarketOrderCctpReads(call, seen) ==
    IF seen = <<>> THEN <<call.preparedOrder>>
    ELSE <<call.preparedOrder, Engine!routerEndpointAddress(seen[1].info.targetChain)>>
placeMarketOrderCctpIx(call, seen, network) ==
    IF ~Engine!IsCctp(seen[2]) THEN Throw
    ELSE LET burn == depositForBurnWithCallerAccounts(Usdc, seen[2].info.protocol.domain)
         IN  << Ix("placeMarketOrderCctp",
          [payer |-> call.by, preparedBy |-> seen[1].info.preparedBy,
           custodian |-> checkedCustodianComposite, preparedOrder |-> call.preparedOrder,
           preparedCustodyToken |-> preparedCustodyTokenAddress(call.preparedOrder),
           targetRouterEndpoint |-> registeredEndpointComposite(seen[1].info.targetChain),
           coreMessage |-> Engine!coreMessageAddress(ID, call.preparedOrder),
           cctpMessage |-> Engine!cctpMessageAddress(ID, call.preparedOrder),
           rent |-> Rent, clock |-> Clock]
           @@ publishMessageAccounts(network) @@ burn @@ Programs) >>
-----------------------------------------------------------------------------
(* Fills.                                                                  *)
redeemCctpFillIx(call) ==
    LET preparedFill == preparedFillAddress(call.fillVaa)
        chain == emitterInfo(Vaas[call.fillVaa]).chain
    IN  << Ix("redeemCctpFill",
          [payer |-> call.by, custodian |-> checkedCustodianComposite,
           fillVaa |-> [vaa |-> call.fillVaa], preparedFill |-> preparedFill,
           preparedCustodyToken |-> preparedCustodyTokenAddress(preparedFill),
           usdc |-> [mint |-> Usdc],
           sourceRouterEndpoint |-> registeredEndpointComposite(chain),
           cctp |-> [mintRecipient |-> [mintRecipient |-> cctpMintRecipientAddress]]
               @@ receiveTokenMessengerMinterMessageAccounts(Usdc, call.cctpMessage)]
           @@ Programs) >>

redeemFastFillReads(call) == <<call.fastFill>>
redeemFastFillIx(call, seen) ==
    LET preparedFill == preparedFillAddress(call.fastFill)
        engine == Engine!redeemFastFillAccounts(seen[1])
    IN  << Ix("redeemFastFill",
          [payer |-> call.by, custodian |-> checkedCustodianComposite,
           fastFill |-> call.fastFill, preparedFill |-> preparedFill,
           preparedCustodyToken |-> preparedCustodyTokenAddress(preparedFill),
           usdc |-> [mint |-> Usdc],
           matchingEngineCustodian |-> engine.custodian,
           matchingEngineFromEndpoint |-> engine.fromRouterEndpoint,
           matchingEngineToEndpoint |-> engine.toRouterEndpoint,
           matchingEngineLocalCustodyToken |-> engine.localCustodyToken,
           matchingEngineEventAuthority |-> engine.eventAuthority,
           matchingEngineProgram |-> engine.matchingEngineProgram] @@ Programs) >>

\* Everything but the prepared fill is for the redeemer to name.
consumePreparedFillIx(call) ==
    << Ix("consumePreparedFill",
          [redeemer |-> call.by, beneficiary |-> call.beneficiary,
           preparedFill |-> preparedFillAddress(call.fastFill), dstToken |-> Ata(call.by),
           preparedCustodyToken |->
               preparedCustodyTokenAddress(preparedFillAddress(call.fastFill)),
           tokenProgram |-> TokenProgram]) >>
-----------------------------------------------------------------------------
(* Administration.                                                         *)
initializeIx(call, network) ==
    LET manager == upgradeManagerProgram(network)
    IN  IF manager = Null THEN Throw
        ELSE << Ix("initialize",
          [owner |-> call.by, custodian |-> custodianAddress,
           ownerAssistant |-> call.assistant, mint |-> [mint |-> Usdc],
           cctpMintRecipient |-> cctpMintRecipientAddress,
           programData |-> programDataAddress(ID),
           upgradeManagerAuthority |-> Pda(manager, <<"upgrade">>),
           upgradeManagerProgram |-> manager,
           bpfLoaderUpgradeableProgram |-> BpfLoader,
           associatedTokenProgram |-> AssociatedTokenProgram] @@ Programs) >>

setPauseIx(call) ==
    << Ix("setPause", [admin |-> adminMutComposite(call.by)]) >>

submitOwnershipTransferIx(call) ==
    << Ix("submitOwnershipTransferRequest",
          [admin |-> ownerOnlyMutComposite(call.by), newOwner |-> call.newKey]) >>

confirmOwnershipTransferIx(call) ==
    << Ix("confirmOwnershipTransferRequest",
          [pendingOwner |-> call.by, custodian |-> custodianAddress]) >>

cancelOwnershipTransferIx(call) ==
    << Ix("cancelOwnershipTransferRequest", [admin |-> ownerOnlyMutComposite(call.by)]) >>

updateOwnerAssistantIx(call) ==
    << Ix("updateOwnerAssistant",
          [admin |-> ownerOnlyMutComposite(call.by), newOwnerAssistant |-> call.newKey]) >>
=============================================================================
