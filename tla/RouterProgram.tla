---------------------------- MODULE RouterProgram ---------------------------
(***************************************************************************)
(* What the token router demands of the accounts of an instruction, and    *)
(* what it then writes, in the conventions of EngineProgram.               *)
(***************************************************************************)
EXTENDS ProgramAccounts

CONSTANT
    Vaas        \* address of a VAA account |-> its data

Idl == INSTANCE RouterIdl
Engine == INSTANCE EngineProgram
Circle == INSTANCE CctpClient

ID == <<"token-router">>

Custodian == Pda(ID, <<"emitter">>)
PreparedCustody(prepared) == Pda(ID, <<"prepared-custody">> \o prepared)
FillAt(source) == Pda(ID, <<"fill">> \o source)
CheckedCustodian(composite) == composite.custodian = Custodian

Fixed == [tokenProgram |-> TokenProgram, systemProgram |-> SystemProgram,
          usdc |-> [mint |-> Usdc], mint |-> Usdc, rent |-> Rent, clock |-> Clock,
          matchingEngineProgram |-> Engine!ID,
          bpfLoaderUpgradeableProgram |-> BpfLoader,
          associatedTokenProgram |-> AssociatedTokenProgram]
FixedHold(a) ==
    \A f \in DOMAIN a \cap DOMAIN Fixed :
        a[f] = IF f = "mint" /\ "owner" \in DOMAIN a THEN [mint |-> Usdc] ELSE Fixed[f]
RegisteredEndpoint(composite, chain) == composite.endpoint = Engine!EndpointAt(chain)
-----------------------------------------------------------------------------
(* Orders.                                                                 *)
ArgsHash(args) ==
    Keccak256(U64BE(args.amountIn)
              \o (IF args.minAmountOut = <<>> THEN <<>> ELSE U64BE(args.minAmountOut[1]))
              \o U16BE(args.targetChain) \o args.redeemer)
TransferAuthority(preparedOrder, args, refundToken) ==
    Pda(ID, <<"transfer-authority">> \o preparedOrder \o ArgsHash(args) \o refundToken)

\* Either the sender signs, or its token account has delegated just the amount of the
\* order to the authority of these very arguments.
prepareMarketOrder(s, a, call, env) ==
    LET args == call.args
        authority == TransferAuthority(a.preparedOrder, args, a.refundToken)
        signed == a.sender # Null
        info == [orderSender |-> IF signed THEN a.sender ELSE s[a.senderToken].owner,
                 preparedBy |-> a.payer, refundToken |-> a.refundToken,
                 targetChain |-> args.targetChain]
        spent == IF signed THEN s ELSE Spend(s, a.senderToken, args.amountIn)
    IN  Result(
          /\ ~Exists(s, call.preparedOrder) /\ IsKey(call.preparedOrder)
          /\ Engine!Live(s, args.targetChain)
          /\ args.amountIn > 0
          /\ args.minAmountOut = <<>> \/ args.minAmountOut[1] <= args.amountIn,
          /\ CheckedCustodian(a.custodian) /\ a.preparedOrder = call.preparedOrder
          /\ signed # (a.programTransferAuthority # Null)
          /\ IsToken(s, a.senderToken) /\ IsToken(s, a.refundToken)
          /\ IF signed THEN s[a.senderToken].owner = a.sender
             ELSE /\ a.programTransferAuthority = authority
                  /\ s[a.senderToken].delegated = args.amountIn
                  /\ s[a.senderToken].delegate = authority
          /\ a.preparedCustodyToken = PreparedCustody(a.preparedOrder)
          /\ RegisteredEndpoint(a.targetRouterEndpoint, args.targetChain),
          Put(Put(spent, a.preparedOrder, [info |-> info]),
              a.preparedCustodyToken, NewToken(Custodian)))

\* The order sender has to sign, and nobody signs here but the caller.
closePreparedOrder(s, a, call, env) ==
    LET info == s[call.preparedOrder].info
    IN  Result(
          Is(s, call.preparedOrder, Idl!preparedOrder) /\ info.orderSender = call.by
              /\ IsToken(s, info.refundToken),
          /\ CheckedCustodian(a.custodian)
          /\ a.preparedOrder = call.preparedOrder
          /\ a.orderSender = info.orderSender /\ a.preparedBy = info.preparedBy
          /\ a.refundToken = info.refundToken
          /\ a.preparedCustodyToken = PreparedCustody(a.preparedOrder),
          Close(s, {a.preparedOrder, a.preparedCustodyToken}))

BurnAndPublish(a, domain, network) ==
    LET burn == Circle!depositForBurnWithCallerAccounts(Usdc, domain)
    IN  /\ \A f \in DOMAIN burn : a[f] = burn[f]
        /\ a.coreMessage = Pda(ID, <<"core-msg">> \o a.preparedOrder)
        /\ a.cctpMessage = Pda(ID, <<"cctp-msg">> \o a.preparedOrder)
        /\ a.coreBridgeProgram = Bridge(network)
        /\ a.coreBridgeConfig = Pda(Bridge(network), <<"Bridge">>)
        /\ a.coreEmitterSequence = Pda(Bridge(network), <<"Sequence">> \o Custodian)
        /\ a.coreFeeCollector = Pda(Bridge(network), <<"fee_collector">>)

placeMarketOrderCctp(s, a, call, env) ==
    LET info == s[call.preparedOrder].info
        protocol == s[Engine!EndpointAt(info.targetChain)].info.protocol
    IN  Result(
          /\ Is(s, call.preparedOrder, Idl!preparedOrder) /\ ~s[Custodian].paused
          /\ Engine!Live(s, info.targetChain) /\ protocol.kind = "cctp",
          /\ CheckedCustodian(a.custodian)
          /\ a.preparedOrder = call.preparedOrder /\ a.preparedBy = info.preparedBy
          /\ a.preparedCustodyToken = PreparedCustody(a.preparedOrder)
          /\ RegisteredEndpoint(a.targetRouterEndpoint, info.targetChain)
          /\ BurnAndPublish(a, protocol.domain, env.network),
          Close(s, {a.preparedOrder, a.preparedCustodyToken}))
-----------------------------------------------------------------------------
(* Fills.  A source that was redeemed already is no error and changes      *)
(* nothing, as long as its fill was not consumed.                          *)
NewFill(s, fill, payer, redeemer) ==
    Put(Put(s, fill, [info |-> [preparedBy |-> payer, redeemer |-> redeemer]]),
        PreparedCustody(fill), NewToken(fill))

redeemCctpFill(s, a, call, env) ==
    LET fill == FillAt(call.fillVaa)
    IN  Result(
          /\ Engine!Live(s, Engine!Source(call.fillVaa))
          /\ Exists(s, fill) \/ ~Engine!IsReceived(s, call.cctpMessage),
          /\ CheckedCustodian(a.custodian)
          /\ a.fillVaa.vaa = call.fillVaa /\ a.preparedFill = fill
          /\ a.preparedCustodyToken = PreparedCustody(fill)
          /\ RegisteredEndpoint(a.sourceRouterEndpoint, Engine!Source(call.fillVaa))
          /\ a.cctp = [mintRecipient |-> [mintRecipient |-> Ata(Custodian)]]
                 @@ Circle!receiveTokenMessengerMinterMessageAccounts(Usdc, call.cctpMessage),
          IF Exists(s, fill) THEN s
          ELSE Engine!Receive(NewFill(s, fill, a.payer, Engine!Order(call.fillVaa).redeemer),
                              call.cctpMessage))

\* The matching engine hands out a fast fill once and keeps its account.
CompleteFastFill(s, a, call) ==
    LET seeds == s[call.fastFill].seeds
    IN  /\ a.matchingEngineCustodian = Engine!Custodian
        /\ a.matchingEngineFromEndpoint = Engine!EndpointAt(seeds.sourceChain)
        /\ a.matchingEngineToEndpoint = Engine!EndpointAt(Solana)
        /\ a.matchingEngineLocalCustodyToken = Engine!LocalCustody(seeds.sourceChain)
        /\ a.matchingEngineEventAuthority = Pda(Engine!ID, <<"__event_authority">>)

redeemFastFill(s, a, call, env) ==
    LET fastFill == s[call.fastFill]
        fill == FillAt(call.fastFill)
    IN  Result(
          /\ Is(s, call.fastFill, Engine!Idl!fastFill)
          /\ \/ Exists(s, fill)
             \/ /\ ~fastFill.redeemed
                /\ Engine!Live(s, fastFill.seeds.sourceChain) /\ Engine!Live(s, Solana),
          /\ CheckedCustodian(a.custodian)
          /\ a.fastFill = call.fastFill /\ a.fastFill = Engine!FastFillAt(fastFill.seeds)
          /\ a.preparedFill = fill /\ a.preparedCustodyToken = PreparedCustody(fill)
          /\ Exists(s, fill) \/ CompleteFastFill(s, a, call),
          IF Exists(s, fill) THEN s
          ELSE Put(NewFill(s, fill, a.payer, fastFill.info.redeemer),
                   call.fastFill, [fastFill EXCEPT !.redeemed = TRUE]))

consumePreparedFill(s, a, call, env) ==
    LET fill == FillAt(call.fastFill)
    IN  Result(
          /\ Is(s, fill, Idl!preparedFill) /\ s[fill].info.redeemer = call.by
          /\ IsToken(s, Ata(call.by)),
          /\ a.preparedFill = fill /\ a.redeemer = call.by
          /\ IsToken(s, a.dstToken) /\ a.preparedCustodyToken = PreparedCustody(fill),
          Close(s, {fill, PreparedCustody(fill)}))
-----------------------------------------------------------------------------
(* Administration.                                                         *)
SetCustodian(s, custodian) == Put(s, Custodian, custodian)
Owner(s, by) == Exists(s, Custodian) /\ s[Custodian].owner = by
OwnerAdmin(s, admin, by) == admin = [owner |-> by, custodian |-> Custodian]

initialize(s, a, call, env) ==
    LET manager == UpgradeManager(env.network)
        custodian == [owner |-> a.owner, pendingOwner |-> Null, paused |-> FALSE,
                      ownerAssistant |-> a.ownerAssistant]
    IN  Result(
          /\ ~Exists(s, Custodian) /\ Exists(s, Pda(BpfLoader, ID))
          /\ s[Pda(BpfLoader, ID)].upgradeAuthority = call.by,
          /\ a.custodian = Custodian /\ a.cctpMintRecipient = Ata(Custodian)
          /\ a.programData = Pda(BpfLoader, ID)
          /\ a.upgradeManagerAuthority = Pda(manager, <<"upgrade">>)
          /\ a.upgradeManagerProgram = manager,
          Put(Put(SetCustodian(s, custodian), a.cctpMintRecipient, NewToken(Custodian)),
              a.programData, [s[a.programData] EXCEPT
                                  !.upgradeAuthority = a.upgradeManagerAuthority]))

setPause(s, a, call, env) ==
    Result(Exists(s, Custodian) /\ call.by \in {s[Custodian].owner, s[Custodian].ownerAssistant},
           a.admin = [ownerOrAssistant |-> call.by, custodian |-> Custodian],
           SetCustodian(s, [s[Custodian] EXCEPT !.paused = call.paused]))

submitOwnershipTransferRequest(s, a, call, env) ==
    Result(Owner(s, call.by) /\ call.newKey # call.by,
           OwnerAdmin(s, a.admin, call.by),
           SetCustodian(s, [s[Custodian] EXCEPT !.pendingOwner = a.newOwner]))

confirmOwnershipTransferRequest(s, a, call, env) ==
    Result(Exists(s, Custodian) /\ s[Custodian].pendingOwner = call.by,
           a.pendingOwner = call.by /\ a.custodian = Custodian,
           SetCustodian(s, [s[Custodian] EXCEPT !.owner = call.by, !.pendingOwner = Null]))

cancelOwnershipTransferRequest(s, a, call, env) ==
    Result(Owner(s, call.by), OwnerAdmin(s, a.admin, call.by),
           SetCustodian(s, [s[Custodian] EXCEPT !.pendingOwner = Null]))

updateOwnerAssistant(s, a, call, env) ==
    Result(Owner(s, call.by), OwnerAdmin(s, a.admin, call.by),
           SetCustodian(s, [s[Custodian] EXCEPT !.ownerAssistant = a.newOwnerAssistant]))
-----------------------------------------------------------------------------
Handle(s, ix, call, env) ==
    LET a == ix.accounts
        shape(accounts, result) == IF a \in accounts /\ FixedHold(a) THEN result ELSE Mismatch
    IN  CASE ix.name = "prepareMarketOrder" ->
               shape(Idl!prepareMarketOrder, prepareMarketOrder(s, a, call, env))
          [] ix.name = "closePreparedOrder" ->
               shape(Idl!closePreparedOrder, closePreparedOrder(s, a, call, env))
          [] ix.name = "placeMarketOrderCctp" ->
               shape(Idl!placeMarketOrderCctp, placeMarketOrderCctp(s, a, call, env))
          [] ix.name = "redeemCctpFill" ->
               shape(Idl!redeemCctpFill, redeemCctpFill(s, a, call, env))
          [] ix.name = "redeemFastFill" ->
               shape(Idl!redeemFastFill, redeemFastFill(s, a, call, env))
          [] ix.name = "consumePreparedFill" ->
               shape(Idl!consumePreparedFill, consumePreparedFill(s, a, call, env))
          [] ix.name = "initialize" -> shape(Idl!initialize, initialize(s, a, call, env))
          [] ix.name = "setPause" -> shape(Idl!setPause, setPause(s, a, call, env))
          [] ix.name = "submitOwnershipTransferRequest" ->
               shape(Idl!submitOwnershipTransferRequest,
                     submitOwnershipTransferRequest(s, a, call, env))
          [] ix.name = "confirmOwnershipTransferRequest" ->
               shape(Idl!confirmOwnershipTransferRequest,
                     confirmOwnershipTransferRequest(s, a, call, env))
          [] ix.name = "cancelOwnershipTransferRequest" ->
               shape(Idl!cancelOwnershipTransferRequest,
                     cancelOwnershipTransferRequest(s, a, call, env))
          [] ix.name = "updateOwnerAssistant" ->
               shape(Idl!updateOwnerAssistant, updateOwnerAssistant(s, a, call, env))
          [] OTHER -> Mismatch
=============================================================================
