------------------------- MODULE EngineAdminProgram -------------------------
(***************************************************************************)
(* The administration of the matching engine, see EngineProgram, and which *)
(* handler an instruction reaches.                                         *)
(***************************************************************************)
EXTENDS EngineProgram

Custody(s) == s[Custodian]
SetCustodian(s, custodian) == Put(s, Custodian, custodian)
Owner(s, by) == Exists(s, Custodian) /\ by = Custody(s).owner
Authorized(s, by) ==
    Exists(s, Custodian) /\ by \in {Custody(s).owner, Custody(s).ownerAssistant}
\* The admin composites of a call, read-only or not.
OwnerAdmin(s, admin, by) == admin = [owner |-> by, custodian |-> Custodian]
OwnerView(s, admin, by) == admin = [owner |-> by, custodian |-> [custodian |-> Custodian]]
AuthorityAdmin(s, admin, by) == admin = [ownerOrAssistant |-> by, custodian |-> Custodian]
AuthorityView(s, admin, by) ==
    admin = [ownerOrAssistant |-> by, custodian |-> [custodian |-> Custodian]]
-----------------------------------------------------------------------------
\* The owner is the upgrade authority of the program, and hands it to the manager.
initialize(s, a, call, env) ==
    LET manager == UpgradeManager(env.network)
        custodian == [owner |-> a.owner, pendingOwner |-> Null, paused |-> FALSE,
                      ownerAssistant |-> a.ownerAssistant,
                      feeRecipientToken |-> a.feeRecipientToken,
                      auctionConfigId |-> 0, nextProposalId |-> 0]
    IN  Result(
          /\ ~Exists(s, Custodian) /\ IsToken(s, Ata(call.feeRecipient))
          /\ Exists(s, Pda(BpfLoader, ID)) /\ s[Pda(BpfLoader, ID)].upgradeAuthority = call.by,
          /\ a.custodian = Custodian /\ a.auctionConfig = ConfigAt(0)
          /\ a.feeRecipientToken = Ata(a.feeRecipient)
          /\ a.cctpMintRecipient = Ata(Custodian)
          /\ a.programData = Pda(BpfLoader, ID)
          /\ a.upgradeManagerAuthority = Pda(manager, <<"upgrade">>)
          /\ a.upgradeManagerProgram = manager,
          Put(Put(Put(SetCustodian(s, custodian),
              a.auctionConfig, [id |-> 0, parameters |-> call.parameters]),
              a.cctpMintRecipient, NewToken(Custodian)),
              a.programData, [s[a.programData] EXCEPT !.upgradeAuthority = a.upgradeManagerAuthority]))

setPause(s, a, call, env) ==
    Result(Authorized(s, call.by), AuthorityAdmin(s, a.admin, call.by),
           SetCustodian(s, [Custody(s) EXCEPT !.paused = call.paused]))

submitOwnershipTransferRequest(s, a, call, env) ==
    Result(Owner(s, call.by) /\ call.newKey # call.by,
           OwnerAdmin(s, a.admin, call.by),
           SetCustodian(s, [Custody(s) EXCEPT !.pendingOwner = a.newOwner]))

confirmOwnershipTransferRequest(s, a, call, env) ==
    Result(Exists(s, Custodian) /\ Custody(s).pendingOwner = call.by,
           a.pendingOwner = call.by /\ a.custodian = Custodian,
           SetCustodian(s, [Custody(s) EXCEPT !.owner = a.pendingOwner,
                                              !.pendingOwner = Null]))

cancelOwnershipTransferRequest(s, a, call, env) ==
    Result(Owner(s, call.by), OwnerAdmin(s, a.admin, call.by),
           SetCustodian(s, [Custody(s) EXCEPT !.pendingOwner = Null]))

updateOwnerAssistant(s, a, call, env) ==
    Result(Owner(s, call.by), OwnerAdmin(s, a.admin, call.by),
           SetCustodian(s, [Custody(s) EXCEPT !.ownerAssistant = a.newOwnerAssistant]))

updateFeeRecipient(s, a, call, env) ==
    Result(Authorized(s, call.by) /\ IsToken(s, Ata(call.newKey)),
           /\ AuthorityAdmin(s, a.admin, call.by)
           /\ a.newFeeRecipientToken = Ata(a.newFeeRecipient),
           SetCustodian(s, [Custody(s) EXCEPT !.feeRecipientToken = a.newFeeRecipientToken]))
-----------------------------------------------------------------------------
(* Router endpoints.                                                       *)
CctpEndpoint(call) ==
    [info |-> [chain |-> call.chain, protocol |-> [kind |-> "cctp", domain |-> call.domain]]]
LocalEndpoint == [info |-> [chain |-> Solana, protocol |-> [kind |-> "local"]]]

addCctpRouterEndpoint(s, a, call, env) ==
    Result(
      /\ Authorized(s, call.by) /\ call.chain \notin {0, Solana}
      /\ ~Exists(s, EndpointAt(call.chain)) /\ ~Exists(s, LocalCustody(call.chain)),
      /\ AuthorityView(s, a.admin, call.by)
      /\ a.routerEndpoint = EndpointAt(call.chain)
      /\ a.localCustodyToken = LocalCustody(call.chain)
      /\ a.remoteTokenMessenger = Circle!remoteTokenMessengerAddress(call.domain),
      Put(Put(s, a.routerEndpoint, CctpEndpoint(call)),
          a.localCustodyToken, NewToken(a.routerEndpoint)))

updateCctpRouterEndpoint(s, a, call, env) ==
    Result(
      Owner(s, call.by) /\ call.chain # Solana /\ Exists(s, EndpointAt(call.chain)),
      /\ OwnerView(s, a.admin, call.by)
      /\ a.routerEndpoint.endpoint = EndpointAt(call.chain)
      /\ a.remoteTokenMessenger = Circle!remoteTokenMessengerAddress(call.domain),
      Put(s, a.routerEndpoint.endpoint, CctpEndpoint(call)))

LocalTokenRouter(s, local) ==
    /\ local.tokenRouterEmitter = Pda(local.tokenRouterProgram, <<"emitter">>)
    /\ local.tokenRouterMintRecipient = Ata(local.tokenRouterEmitter)
HasRouter(s, router) ==
    Exists(s, Pda(router, <<"emitter">>)) /\ IsToken(s, Ata(Pda(router, <<"emitter">>)))

addLocalRouterEndpoint(s, a, call, env) ==
    Result(
      /\ Authorized(s, call.by) /\ HasRouter(s, call.router)
      /\ ~Exists(s, EndpointAt(Solana)),
      /\ AuthorityView(s, a.admin, call.by)
      /\ a.routerEndpoint = EndpointAt(Solana) /\ LocalTokenRouter(s, a.local),
      Put(s, a.routerEndpoint, LocalEndpoint))

updateLocalRouterEndpoint(s, a, call, env) ==
    Result(
      /\ Owner(s, call.by) /\ HasRouter(s, call.router)
      /\ Exists(s, EndpointAt(Solana)),
      /\ OwnerView(s, a.admin, call.by)
      /\ a.routerEndpoint.endpoint = EndpointAt(Solana) /\ LocalTokenRouter(s, a.local),
      Put(s, a.routerEndpoint.endpoint, LocalEndpoint))

disableRouterEndpoint(s, a, call, env) ==
    Result(
      Owner(s, call.by) /\ Exists(s, EndpointAt(call.chain)),
      /\ OwnerView(s, a.admin, call.by)
      /\ a.routerEndpoint.endpoint = EndpointAt(call.chain),
      Put(s, EndpointAt(call.chain),
          [s[EndpointAt(call.chain)] EXCEPT !.info.protocol = [kind |-> "none"]]))
-----------------------------------------------------------------------------
(* Proposals.                                                              *)
Pending(s) == ProposalAt(Custody(s).nextProposalId)

proposeAuctionParameters(s, a, call, env) ==
    LET action == [kind |-> "updateAuctionParameters",
                   id |-> Custody(s).auctionConfigId + 1, parameters |-> call.parameters]
    IN  Result(
          Authorized(s, call.by) /\ ~Exists(s, Pending(s)),
          AuthorityView(s, a.admin, call.by) /\ a.proposal = Pending(s),
          Put(s, a.proposal,
              [id |-> Custody(s).nextProposalId, action |-> action, by |-> call.by,
               owner |-> Custody(s).owner, slotProposedAt |-> env.slot,
               slotEnactDelay |-> env.slot + env.enactDelay, slotEnactedAt |-> <<>>]))

\* Any proposal that was not enacted; its account is then free for another one.
closeProposal(s, a, call, env) ==
    Result(
      Authorized(s, call.by) /\ Exists(s, Pending(s)),
      /\ AuthorityView(s, a.admin, call.by)
      /\ Is(s, a.proposal, Idl!proposal) /\ s[a.proposal].slotEnactedAt = <<>>
      /\ a.proposedBy = s[a.proposal].by,
      Close(s, {a.proposal}))

DelayIsOver_Ignored(s, env) == TRUE       \* mutant: enacted at any time
DelayIsOver(s, env) == env.slot >= s[Pending(s)].slotEnactDelay

updateAuctionParameters(s, a, call, env) ==
    LET action == s[Pending(s)].action
    IN  Result(
          /\ Owner(s, call.by) /\ Exists(s, Pending(s))
          /\ s[Pending(s)].owner = call.by /\ DelayIsOver(s, env),
          /\ OwnerAdmin(s, a.admin, call.by)
          /\ a.proposal = Pending(s)
          /\ a.auctionConfig = ConfigAt(action.id),
          Put(Put(SetCustodian(s, [Custody(s) EXCEPT !.auctionConfigId = action.id,
                                                     !.nextProposalId = @ + 1]),
                  a.auctionConfig, [id |-> action.id, parameters |-> action.parameters]),
              a.proposal, [s[a.proposal] EXCEPT !.slotEnactedAt = <<env.slot>>]))
-----------------------------------------------------------------------------
\* The handler of an instruction, for accounts in the shape of its description.
Handle(s, ix, call, env) ==
    LET a == ix.accounts
        shape(accounts, result) == IF a \in accounts /\ FixedHold(a) THEN result ELSE Mismatch
    IN  CASE ix.name = "placeInitialOfferCctp" ->
               shape(Idl!placeInitialOfferCctp, placeInitialOfferCctp(s, a, call, env))
          [] ix.name = "improveOffer" ->
               shape(Idl!improveOffer, improveOffer(s, a, call, env))
          [] ix.name = "prepareOrderResponseCctp" ->
               shape(Idl!prepareOrderResponseCctp, prepareOrderResponseCctp(s, a, call, env))
          [] ix.name = "settleAuctionComplete" ->
               shape(Idl!settleAuctionComplete, settleAuctionComplete(s, a, call, env))
          [] ix.name = "settleAuctionNoneCctp" ->
               shape(Idl!settleAuctionNoneCctp, settleAuctionNoneCctp(s, a, call, env))
          [] ix.name = "settleAuctionNoneLocal" ->
               shape(Idl!settleAuctionNoneLocal, settleAuctionNoneLocal(s, a, call, env))
          [] ix.name = "executeFastOrderCctp" ->
               shape(Idl!executeFastOrderCctp, executeFastOrderCctp(s, a, call, env))
          [] ix.name = "executeFastOrderLocal" ->
               shape(Idl!executeFastOrderLocal, executeFastOrderLocal(s, a, call, env))
          [] ix.name = "reserveFastFillSequenceActiveAuction" ->
               shape(Idl!reserveFastFillSequenceActiveAuction,
                     reserveFastFillSequenceActiveAuction(s, a, call, env))
          [] ix.name = "reserveFastFillSequenceNoAuction" ->
               shape(Idl!reserveFastFillSequenceNoAuction,
                     reserveFastFillSequenceNoAuction(s, a, call, env))
          [] ix.name = "closeAuction" ->
               shape(Idl!closeAuction, closeAuction(s, a, call, env))
          [] ix.name = "initialize" -> shape(Idl!initialize, initialize(s, a, call, env))
          [] ix.name = "setPause" -> shape(Idl!setPause, setPause(s, a, call, env))
          [] ix.name = "submitOwnershipTransferRequest" ->
               shape(Idl!submitOwnershipTransferRequest,
                     submitOwnershipTransferRequest(s, a, call, env))
          [] ix.name = "confirmOwnershipTransferRequest" ->
               shape(Idl!confirmOwnershipTransferRequest,
                     confirmOwnershipTransferRequest(s, a, call, env))
          [] ix.name = "cancelOwnershipTransferRequest" ->
               shape(Idl!cancelOwnershipTransferRequest,
                     cancelOwnershipTransferRequest(s, a, call, env))
          [] ix.name = "updateOwnerAssistant" ->
               shape(Idl!updateOwnerAssistant, updateOwnerAssistant(s, a, call, env))
          [] ix.name = "updateFeeRecipient" ->
               shape(Idl!updateFeeRecipient, updateFeeRecipient(s, a, call, env))
          [] ix.name = "addCctpRouterEndpoint" ->
               shape(Idl!addCctpRouterEndpoint, addCctpRouterEndpoint(s, a, call, env))
          [] ix.name = "updateCctpRouterEndpoint" ->
               shape(Idl!updateCctpRouterEndpoint, updateCctpRouterEndpoint(s, a, call, env))
          [] ix.name = "addLocalRouterEndpoint" ->
               shape(Idl!addLocalRouterEndpoint, addLocalRouterEndpoint(s, a, call, env))
          [] ix.name = "updateLocalRouterEndpoint" ->
               shape(Idl!updateLocalRouterEndpoint, updateLocalRouterEndpoint(s, a, call, env))
          [] ix.name = "disableRouterEndpoint" ->
               shape(Idl!disableRouterEndpoint, disableRouterEndpoint(s, a, call, env))
          [] ix.name = "proposeAuctionParameters" ->
               shape(Idl!proposeAuctionParameters, proposeAuctionParameters(s, a, call, env))
          [] ix.name = "closeProposal" ->
               shape(Idl!closeProposal, closeProposal(s, a, call, env))
          [] ix.name = "updateAuctionParameters" ->
               shape(Idl!updateAuctionParameters, updateAuctionParameters(s, a, call, env))
          [] OTHER -> Mismatch      \* there is no such instruction
=============================================================================
