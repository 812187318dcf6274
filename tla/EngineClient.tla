---------------------------- MODULE EngineClient ----------------------------
(***************************************************************************)
(* MatchingEngineProgram, the client of the matching engine: the addresses *)
(* it derives and the instructions it builds.  A builder takes the call,   *)
(* with the arguments of the caller, and `seen`, the accounts fetched so   *)
(* far in the order in which the builder awaits them.  What it returns is  *)
(* a sequence of instructions; an empty one stands for an exception.       *)
(*                                                                         *)
(* VAA accounts are posted before a call and never change, so reading one  *)
(* is no separate step: Vaas gives the account at an address.              *)
(***************************************************************************)
EXTENDS CctpClient

CONSTANT
    Vaas        \* address of a VAA account |-> its data

ID == <<"matching-engine">>
FEE_PRECISION_MAX == 1000000

Throw == <<>>
Ix(name, accounts) == [program |-> ID, name |-> name, accounts |-> accounts]
-----------------------------------------------------------------------------
emitterAddress(programId) == Pda(programId, <<"emitter">>)
coreMessageAddress(programId, associated) == Pda(programId, <<"core-msg">> \o associated)
cctpMessageAddress(programId, associated) == Pda(programId, <<"cctp-msg">> \o associated)

eventAuthorityAddress == Pda(ID, <<"__event_authority">>)
custodianAddress == emitterAddress(ID)
auctionConfigAddress(id) == Pda(ID, <<"auction-config">> \o U32BE(id))
cctpMintRecipientAddress == Ata(custodianAddress)
routerEndpointAddress(chain) == Pda(ID, <<"endpoint">> \o U16BE(chain))
auctionAddress(vaaHash) == Pda(ID, <<"auction">> \o vaaHash)
proposalAddress(id) == Pda(ID, <<"proposal">> \o U64BE(id))
preparedOrderResponseAddress(fastVaaHash) == Pda(ID, <<"order-response">> \o fastVaaHash)
preparedCustodyTokenAddress(response) == Pda(ID, <<"prepared-custody">> \o response)
auctionCustodyTokenAddress(auction) == Pda(ID, <<"auction-custody">> \o auction)
localCustodyTokenAddress(sourceChain) == Pda(ID, <<"local-custody">> \o U16BE(sourceChain))
fastFillAddress(sourceChain, orderSender, sequence) ==
    Pda(ID, <<"fast-fill">> \o U16BE(sourceChain) \o orderSender \o U64BE(sequence))
fastFillSequencerAddress(sourceChain, sender) ==
    Pda(ID, <<"fast-fill-sequencer">> \o U16BE(sourceChain) \o sender)
reservedFastFillSequenceAddress(fastVaaHash) ==
    Pda(ID, <<"reserved-fast-fill-sequence">> \o fastVaaHash)
\* Mutant: the price in the other byte order.
transferAuthorityAddress_LittleEndian(auction, offerPrice) ==
    Pda(ID, <<"transfer-authority">> \o auction \o U64LE(offerPrice))
transferAuthorityAddress(auction, offerPrice) ==
    Pda(ID, <<"transfer-authority">> \o auction \o U64BE(offerPrice))
-----------------------------------------------------------------------------
(* Composites: groups of accounts that instructions share.                 *)
checkedCustodianComposite == [custodian |-> custodianAddress]
adminComposite(ownerOrAssistant) ==
    [ownerOrAssistant |-> ownerOrAssistant, custodian |-> checkedCustodianComposite]
adminMutComposite(ownerOrAssistant) ==
    [ownerOrAssistant |-> ownerOrAssistant, custodian |-> custodianAddress]
ownerOnlyComposite(owner) == [owner |-> owner, custodian |-> checkedCustodianComposite]
ownerOnlyMutComposite(owner) == [owner |-> owner, custodian |-> custodianAddress]
routerEndpointComposite(addr) == [endpoint |-> addr]
liquidityLayerVaaComposite(vaa) == [vaa |-> vaa]
usdcComposite == [mint |-> Usdc]
requiredSysvarsComposite == [rent |-> Rent, clock |-> Clock]
cctpMintRecipientComposite == [mintRecipient |-> cctpMintRecipientAddress]

localTokenRouterComposite(tokenRouterProgram) ==
    [tokenRouterProgram |-> tokenRouterProgram,
     tokenRouterEmitter |-> emitterAddress(tokenRouterProgram),
     tokenRouterMintRecipient |-> Ata(emitterAddress(tokenRouterProgram))]

\* The configuration and the best offer are those of the auction as it was fetched.
activeAuctionComposite(auction, info) ==
    [custodyToken |-> auctionCustodyTokenAddress(auction),
     auction |-> auction,
     config |-> auctionConfigAddress(info.configId),
     bestOfferToken |-> info.bestOfferToken]

closePreparedOrderResponseComposite(by, orderResponse) ==
    [by |-> by, orderResponse |-> orderResponse,
     custodyToken |-> preparedCustodyTokenAddress(orderResponse)]

liveRouterPathComposite(fromEndpoint, toEndpoint) ==
    [fromEndpoint |-> routerEndpointComposite(fromEndpoint),
     toEndpoint |-> routerEndpointComposite(toEndpoint)]

fastOrderPathComposite(fastVaa, fromEndpoint, toEndpoint) ==
    [fastVaa |-> liquidityLayerVaaComposite(fastVaa),
     path |-> liveRouterPathComposite(fromEndpoint, toEndpoint)]

\* The path of the order in a fast VAA.
PathOf(fastVaa) ==
    fastOrderPathComposite(fastVaa,
        routerEndpointAddress(emitterInfo(Vaas[fastVaa]).chain),
        routerEndpointAddress(payload(Vaas[fastVaa]).targetChain))
-----------------------------------------------------------------------------
coreBridgeProgramId(network) ==
    IF network = "testnet" THEN <<"3u8hJUVT">> ELSE <<"worm2ZoG">>

upgradeManagerProgram(network) ==
    CASE network = "mainnet" -> <<"4jyJ7EEs">>
      [] network = "testnet" -> <<"ucdP9ktg">>
      [] network = "localnet" -> <<"UpgradeManager11">>

publishMessageAccounts(network) ==
    LET bridge == coreBridgeProgramId(network)
    IN  [config |-> Pda(bridge, <<"Bridge">>),
         emitterSequence |-> Pda(bridge, <<"Sequence">> \o custodianAddress),
         feeCollector |-> Pda(bridge, <<"fee_collector">>),
         coreBridgeProgram |-> bridge]

IsCctp(endpoint) == endpoint.info.protocol.kind = "cctp"

\* The accounts to burn for the chain of an endpoint, which is fetched for the
\* domain it has at that moment.
burnAndPublishAccounts(network, auction, endpoint) ==
    [coreMessage |-> coreMessageAddress(ID, auction),
     cctpMessage |-> cctpMessageAddress(ID, auction),
     wormhole |-> publishMessageAccounts(network),
     cctp |-> depositForBurnWithCallerAccounts(Usdc, endpoint.info.protocol.domain)]
-----------------------------------------------------------------------------
(* The sums the client computes for the arguments of an offer.             *)
computeNotionalSecurityDeposit(amountIn, parameters) ==
    parameters.securityDepositBase
        + (amountIn * parameters.securityDepositBps) \div FEE_PRECISION_MAX

approveTransferAuthority(owner, auction, offerPrice, totalDeposit) ==
    [source |-> Ata(owner), delegate |-> transferAuthorityAddress(auction, offerPrice),
     owner |-> owner, amount |-> totalDeposit]

\* An instruction that spends what its transaction approved just before.
Approved(approval, ix) ==
    << [program |-> TokenProgram, name |-> "approve", accounts |-> approval], ix >>
=============================================================================
