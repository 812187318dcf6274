--------------------------- MODULE MCClientSession --------------------------
(***************************************************************************)
(* What a user does with the clients: auctions for an order to another     *)
(* chain and to Solana, the administration of the matching engine, the     *)
(* deployment and upgrade of both programs, and orders and fills of the    *)
(* token router.                                                           *)
(***************************************************************************)
EXTENDS ClientSession

alice == <<"alice">>
bob == <<"bob">>
carol == <<"carol">>
EthereumChain == 2
ArbitrumChain == 23
-----------------------------------------------------------------------------
order(target) ==
    [kind |-> "fastMarketOrder", targetChain |-> target, sender |-> <<"sender">>,
     redeemer |-> alice, amountIn |-> 10, maxFee |-> 3]
encoded(body) == [kind |-> "encodedVaa", buf |-> [body |-> body]]
posted(body) == [kind |-> "postedVaa", body |-> body]
body(sequence, payload) ==
    [emitterChain |-> EthereumChain, sequence |-> sequence, payload |-> payload]

fastToArbitrum == <<"fast-arbitrum">>
fastToSolana == <<"fast-solana">>
finalized == <<"finalized">>
fillVaa == <<"fill-vaa">>

MCVaas ==
    (fastToArbitrum :> encoded(body(8, order(ArbitrumChain))))
    @@ (fastToSolana :> posted(body(8, order(Solana))))
    @@ (finalized :> encoded(body(7, [kind |-> "slowOrderResponse"])))
    @@ (fillVaa :> encoded(body(9, [kind |-> "fill", redeemer |-> alice])))

message(nonce) == [sourceDomain |-> 0, nonce |-> nonce, burnTokenAddress |-> <<"eth-usdc">>]
-----------------------------------------------------------------------------
EP == INSTANCE EngineAdminProgram WITH Vaas <- MCVaas
engineId == <<"matching-engine">>
routerId == <<"token-router">>
routerCustodian == Pda(routerId, <<"emitter">>)
parameters(bps) == [securityDepositBase |-> 1, securityDepositBps |-> bps]
cctp(chain, domain) ==
    [info |-> [chain |-> chain, protocol |-> [kind |-> "cctp", domain |-> domain]]]

\* A deployment where `owner` owns both programs and its assistant is carol.
Deployed(owner) ==
    (EP!Custodian :> [owner |-> owner, pendingOwner |-> Null, paused |-> FALSE,
                      ownerAssistant |-> carol, feeRecipientToken |-> Ata(carol),
                      auctionConfigId |-> 0, nextProposalId |-> 0])
    @@ (routerCustodian :> [owner |-> owner, pendingOwner |-> Null, paused |-> FALSE,
                            ownerAssistant |-> carol])
    @@ (EP!ConfigAt(0) :> [id |-> 0, parameters |-> parameters(0)])
    @@ (EP!EndpointAt(EthereumChain) :> cctp(EthereumChain, 0))
    @@ (EP!EndpointAt(ArbitrumChain) :> cctp(ArbitrumChain, 3))
    @@ (EP!EndpointAt(Solana) :> EP!LocalEndpoint)
    @@ (EP!LocalCustody(EthereumChain) :> NewToken(EP!Custodian))
    @@ (EP!LocalCustody(ArbitrumChain) :> NewToken(EP!Custodian))
    @@ (Ata(alice) :> NewToken(alice)) @@ (Ata(bob) :> NewToken(bob))
    @@ (Ata(carol) :> NewToken(carol)) @@ (Ata(routerCustodian) :> NewToken(routerCustodian))

\* Parameters that can be enacted at any time.
Proposed ==
    EP!ProposalAt(0) :> [id |-> 0, by |-> carol, owner |-> carol, slotProposedAt |-> 0,
                         slotEnactDelay |-> 0, slotEnactedAt |-> <<>>,
                         action |-> [kind |-> "updateAuctionParameters", id |-> 1,
                                     parameters |-> parameters(100000)]]
-----------------------------------------------------------------------------
Offer(method, by, vaa, price) ==
    [method |-> method, by |-> by, fastVaa |-> vaa, offerPrice |-> price]
OrderCall(method, by, vaa) ==
    [method |-> method, by |-> by, fastVaa |-> vaa, finalizedVaa |-> finalized,
     cctpMessage |-> message(1)]
Admin(program, method, by) ==
    [program |-> program, method |-> method, by |-> by, paused |-> TRUE,
     newKey |-> IF by = bob THEN alice ELSE bob, assistant |-> bob, feeRecipient |-> by, parameters |-> parameters(0)]
Endpoint(method, by, chain, domain) ==
    [method |-> method, by |-> by, chain |-> chain, domain |-> domain, router |-> routerId]

AuctionCalls(by, vaa, prices) ==
    {Offer("placeInitialOffer", by, vaa, 3)}
        \cup {Offer("improveOffer", by, vaa, price) : price \in prices}
        \cup {OrderCall(method, by, vaa) : method \in
                 {"executeFastOrderTx", "prepareOrderResponse", "settleAuctionComplete",
                  "settleAuctionCompleteTx", "settleAuctionNoneTx", "closeAuction"}}
ReserveCalls(by, vaa) ==
    {OrderCall(method, by, vaa) : method \in {"reserveActiveAuction", "reserveNoAuction"}}
OwnerCalls ==
    {Endpoint("updateCctpRouterEndpoint", carol, ArbitrumChain, 5),
     Endpoint("disableRouterEndpoint", carol, ArbitrumChain, 0),
     [Admin(engineId, "updateFeeRecipient", carol) EXCEPT !.newKey = bob],
     Admin(engineId, "updateAuctionParameters", carol)}

CustodianCalls(by) ==
    {Admin(program, method, by) : program \in {engineId, routerId},
         method \in {"setPause", "submitOwnership", "confirmOwnership", "cancelOwnership",
                     "updateAssistant"}}
        \cup {Admin(engineId, "updateFeeRecipient", by)}
EndpointCalls(by) ==
    {Endpoint("addCctpRouterEndpoint", by, 5, 7),
     Endpoint("updateCctpRouterEndpoint", by, ArbitrumChain, 5),
     Endpoint("updateCctpRouterEndpoint", by, 5, 8),
     Endpoint("addLocalRouterEndpoint", by, Solana, 0),
     Endpoint("updateLocalRouterEndpoint", by, Solana, 0),
     Endpoint("disableRouterEndpoint", by, ArbitrumChain, 0),
     Endpoint("disableRouterEndpoint", by, Solana, 0)}
ProposalCalls(by) ==
    {[Admin(engineId, "proposeAuctionParameters", by) EXCEPT !.parameters = parameters(bps)] :
         bps \in {1, 2}}
        \cup {Admin(engineId, method, by) :
                 method \in {"closeProposal", "updateAuctionParameters"}}

Buffer(n) == <<"buffer", ToString(n)>>
UpgradeCall(method, program, n) ==
    [method |-> method, by |-> alice, upgrades |-> program, buffer |-> Buffer(n)]
DeploymentCalls ==
    {Admin(program, "initialize", alice) : program \in {engineId, routerId}}
        \cup {UpgradeCall("executeMatchingEngineUpgrade", engineId, n) : n \in {1, 2}}
        \cup {UpgradeCall("executeTokenRouterUpgrade", routerId, n) : n \in {1, 2}}
        \cup {UpgradeCall("commitMatchingEngineUpgrade", engineId, 1),
              UpgradeCall("commitTokenRouterUpgrade", routerId, 1)}
Undeployed ==
    (programDataAddress(engineId) :> [upgradeAuthority |-> alice, slot |-> 0])
    @@ (programDataAddress(routerId) :> [upgradeAuthority |-> alice, slot |-> 0])
    @@ (Ata(alice) :> NewToken(alice))
    @@ (Buffer(1) :> [authority |-> alice]) @@ (Buffer(2) :> [authority |-> alice])

args(minAmountOut) ==
    [amountIn |-> 5, minAmountOut |-> minAmountOut, targetChain |-> ArbitrumChain,
     redeemer |-> bob]
aFastFill == EP!FastFillAt([sourceChain |-> EthereumChain, orderSender |-> <<"sender">>,
                            sequence |-> 0])
RouterCall(method, by) ==
    [method |-> method, by |-> by, preparedOrder |-> <<"prepared-order">>,
     args |-> args(<<>>), useAuthority |-> FALSE, fillVaa |-> fillVaa,
     fastFill |-> aFastFill, cctpMessage |-> message(2), beneficiary |-> bob]
RouterCalls(by) ==
    {RouterCall(method, by) : method \in
         {"prepareMarketOrder", "closePreparedOrder", "placeMarketOrder", "redeemCctpFill",
          "redeemFastFill", "consumePreparedFill"}}
        \cup {[RouterCall("prepareMarketOrder", by) EXCEPT !.useAuthority = TRUE,
                   !.args = args(min)] : min \in {<<>>, <<4>>}}
FastFills ==
    aFastFill :> [seeds |-> [sourceChain |-> EthereumChain, orderSender |-> <<"sender">>,
                             sequence |-> 0],
                  redeemed |-> FALSE, info |-> [preparedBy |-> bob, redeemer |-> alice]]
-----------------------------------------------------------------------------
Setup(net, slots, expires, accounts, calls, others_) ==
    [network |-> net, slots |-> slots, expires |-> expires, accounts |-> accounts,
     calls |-> calls, others |-> others_]
MCSetups ==
    [cctpAuction |->
         Setup("mainnet", 1, FALSE, Deployed(carol) @@ Proposed,
               AuctionCalls(alice, fastToArbitrum, {1, 2}),
               AuctionCalls(bob, fastToArbitrum, {2}) \cup OwnerCalls),
     localAuction |->
         Setup("localnet", 1, TRUE, Deployed(carol) @@ Proposed,
               AuctionCalls(alice, fastToSolana, {1, 2}) \cup ReserveCalls(alice, fastToSolana),
               AuctionCalls(bob, fastToSolana, {2}) \cup ReserveCalls(bob, fastToSolana)),
     custodian |->
         Setup("testnet", 1, FALSE, Deployed(alice), CustodianCalls(alice),
               CustodianCalls(bob) \cup CustodianCalls(alice)),
     endpoints |->
         Setup("mainnet", 1, FALSE, EP!Close(Deployed(alice), {EP!EndpointAt(Solana)}),
               EndpointCalls(alice), EndpointCalls(carol)),
     proposals |->
         Setup("mainnet", 4, FALSE, Deployed(alice), ProposalCalls(alice),
               ProposalCalls(carol)),
     deployment |-> Setup("localnet", 4, FALSE, Undeployed, DeploymentCalls, {}),
     unsupported |-> Setup("mainnet", 4, FALSE, Undeployed, DeploymentCalls, {}),
     routing |->
         Setup("mainnet", 1, FALSE, Deployed(carol) @@ FastFills, RouterCalls(alice),
               RouterCalls(bob) \cup OwnerCalls
                   \cup {Admin(routerId, "setPause", carol)})]
=============================================================================
