---------------------------- MODULE ClientSession ---------------------------
(***************************************************************************)
(* A user of the TypeScript clients and the programs on the chain.  The    *)
(* user makes one call at a time: the client fetches the accounts that the *)
(* call awaits, one after the other, builds a transaction, and the         *)
(* transaction lands later or never.  All the while others land            *)
(* transactions of their own, each built from what was then on the chain,  *)
(* and time passes.                                                        *)
(***************************************************************************)
EXTENDS ProgramAccounts, FiniteSets, SequencesExt

CONSTANTS
    Vaas,           \* address of a VAA account |-> its data
    Setups,         \* name |-> [network, accounts, calls, others, slots,
                    \*         expires]: the user's calls, those of others, the last
                    \*         slot, and whether the fast VAA can expire
    EnactDelay,     \* slots between a proposal and its enactment
    BlockhashAge,   \* slots for which a built transaction can land
    MaxOthers       \* bound on the transactions of others

\* A recent blockhash is older than no proposal that can be enacted.
ASSUME DelayOutlivesBlockhash ==
    BlockhashAge \in Nat /\ EnactDelay \in Nat /\ BlockhashAge < EnactDelay

VARIABLES
    setup,          \* what the user does with the clients
    acct,           \* the accounts of the chain
    clock,          \* [slot, period of the auction, expired VAA]
    session,        \* the call in the making
    others          \* transactions of others so far

vars == <<setup, acct, clock, session, others>>

Engine == INSTANCE EngineBuilders
Router == INSTANCE RouterClient
Upgrade == INSTANCE UpgradeClient
EngineProgram == INSTANCE EngineAdminProgram
RouterProgram == INSTANCE RouterProgram
UpgradeProgram == INSTANCE UpgradeProgram

\* A fast order names its sender.
ASSUME OrdersHaveSenders ==
    \A v \in DOMAIN Vaas :
        EngineProgram!IsFastOrder(v) => EngineProgram!Order(v).sender \in Pubkey

\* A situation begins with accounts that the programs have written: of the proposals,
\* those that were enacted and at most one that was not.
ProposalsAreKnown(s) ==
    /\ Is(s, EngineProgram!Custodian, EngineProgram!Idl!custodian)
    /\ \A x \in {y \in DOMAIN s : IsPrefix(Pda(EngineProgram!ID, <<"proposal">>), y)} :
         /\ \E n \in 0 .. s[EngineProgram!Custodian].nextProposalId :
              x = EngineProgram!ProposalAt(n)
         /\ s[x] \in EngineProgram!Idl!proposal
ASSUME SetupsAreDeployments ==
    \A name \in DOMAIN Setups : LET s == Setups[name].accounts IN
        ProposalsAreKnown(s)
            \/ \A x \in DOMAIN s : ~IsPrefix(EngineProgram!ID, x)

\* It begins before its auctions, whatever else is approved.  A price is a u64.
ASSUME SetupsPrecedeOffers ==
    \A name \in DOMAIN Setups :
        /\ \A x \in DOMAIN Setups[name].accounts :
             LET data == Setups[name].accounts[x]
             IN  /\ ~IsPrefix(Pda(EngineProgram!ID, <<"auction">>), x)
                 /\ "delegate" \in DOMAIN data =>
                      ~IsPrefix(Pda(EngineProgram!ID, <<"transfer-authority">>), data.delegate)
        /\ \A call \in Setups[name].calls \cup Setups[name].others :
             call.method \in {"placeInitialOffer", "improveOffer"} => call.offerPrice \in Nat

\* The situations the user can be in; as a definition, evaluated once.
Situations == Setups
network == Situations[setup].network
-----------------------------------------------------------------------------
(* The client.                                                             *)
Reads(call, seen) ==
    CASE call.method = "placeInitialOffer" -> Engine!placeInitialOfferReads(seen)
      [] call.method = "improveOffer" -> Engine!improveOfferReads(call)
      [] call.method = "settleAuctionComplete" -> Engine!settleAuctionCompleteReads(call, seen)
      [] call.method = "settleAuctionCompleteTx" ->
           Engine!settleAuctionCompleteTxReads(call, seen)
      [] call.method = "settleAuctionNoneTx" -> Engine!settleAuctionNoneTxReads(call)
      [] call.method = "executeFastOrderTx" -> Engine!executeFastOrderTxReads(call)
      [] call.method = "reserveActiveAuction" -> Engine!reserveActiveAuctionReads(call)
      [] call.method = "closeAuction" -> Engine!closeAuctionReads(call)
      [] call.method = "proposeAuctionParameters" -> Engine!proposeAuctionParametersReads
      [] call.method = "closeProposal" -> Engine!closeProposalReads(seen)
      [] call.method = "updateAuctionParameters" -> Engine!updateAuctionParametersReads
      [] call.method = "prepareMarketOrder" -> Router!prepareMarketOrderReads(call)
      [] call.method = "closePreparedOrder" -> Router!closePreparedOrderReads(call)
      [] call.method = "placeMarketOrder" -> Router!placeMarketOrderCctpReads(call, seen)
      [] call.method = "redeemFastFill" -> Router!redeemFastFillReads(call)
      [] OTHER -> <<>>

\* The administration that both programs have, by the client that is asked.
AdminIx(call) ==
    LET admin == call.method
    IN  IF call.program = Engine!ID
        THEN CASE admin = "setPause" -> Engine!setPauseIx(call)
               [] admin = "submitOwnership" -> Engine!submitOwnershipTransferIx(call)
               [] admin = "confirmOwnership" -> Engine!confirmOwnershipTransferIx(call)
               [] admin = "cancelOwnership" -> Engine!cancelOwnershipTransferIx(call)
               [] admin = "updateAssistant" -> Engine!updateOwnerAssistantIx(call)
               [] admin = "initialize" -> Engine!initializeIx(call, network)
               [] OTHER -> <<>>
        ELSE CASE admin = "setPause" -> Router!setPauseIx(call)
               [] admin = "submitOwnership" -> Router!submitOwnershipTransferIx(call)
               [] admin = "confirmOwnership" -> Router!confirmOwnershipTransferIx(call)
               [] admin = "cancelOwnership" -> Router!cancelOwnershipTransferIx(call)
               [] admin = "updateAssistant" -> Router!updateOwnerAssistantIx(call)
               [] admin = "initialize" -> Router!initializeIx(call, network)
               [] OTHER -> <<>>

Build(call, seen) ==
    CASE call.method = "placeInitialOffer" -> Engine!placeInitialOfferCctpIx(call, seen)
      [] call.method = "improveOffer" -> Engine!improveOfferIx(call, seen)
      [] call.method = "prepareOrderResponse" ->
           Engine!prepareOrderResponseCctpIx(call, Ata(call.by))
      [] call.method = "settleAuctionComplete" -> Engine!settleAuctionCompleteIx(call, seen)
      [] call.method = "settleAuctionCompleteTx" -> Engine!settleAuctionCompleteTx(call, seen)
      [] call.method = "settleAuctionNoneTx" ->
           Engine!settleAuctionNoneTx(call, seen, network)
      [] call.method = "executeFastOrderTx" -> Engine!executeFastOrderTx(call, seen, network)
      [] call.method = "reserveActiveAuction" ->
           Engine!reserveFastFillSequenceActiveAuctionIx(call, seen)
      [] call.method = "reserveNoAuction" -> Engine!reserveFastFillSequenceNoAuctionIx(call)
      [] call.method = "closeAuction" -> Engine!closeAuctionIx(call, seen)
      [] call.method = "addCctpRouterEndpoint" -> Engine!addCctpRouterEndpointIx(call)
      [] call.method = "updateCctpRouterEndpoint" -> Engine!updateCctpRouterEndpointIx(call)
      [] call.method = "addLocalRouterEndpoint" -> Engine!addLocalRouterEndpointIx(call)
      [] call.method = "updateLocalRouterEndpoint" -> Engine!updateLocalRouterEndpointIx(call)
      [] call.method = "disableRouterEndpoint" -> Engine!disableRouterEndpointIx(call)
      [] call.method = "updateFeeRecipient" -> Engine!updateFeeRecipientIx(call)
      [] call.method = "proposeAuctionParameters" ->
           Engine!proposeAuctionParametersIx(call, seen)
      [] call.method = "closeProposal" -> Engine!closeProposalIx(call, seen)
      [] call.method = "updateAuctionParameters" -> Engine!updateAuctionParametersIx(call, seen)
      [] call.method = "prepareMarketOrder" -> Router!prepareMarketOrderIx(call, seen)
      [] call.method = "closePreparedOrder" -> Router!closePreparedOrderIx(call, seen)
      [] call.method = "placeMarketOrder" ->
           Router!placeMarketOrderCctpIx(call, seen, network)
      [] call.method = "redeemCctpFill" -> Router!redeemCctpFillIx(call)
      [] call.method = "redeemFastFill" -> Router!redeemFastFillIx(call, seen)
      [] call.method = "consumePreparedFill" -> Router!consumePreparedFillIx(call)
      [] call.method = "executeMatchingEngineUpgrade" ->
           Upgrade!executeMatchingEngineUpgradeIx(call, network)
      [] call.method = "commitMatchingEngineUpgrade" ->
           Upgrade!commitMatchingEngineUpgradeIx(call, network)
      [] call.method = "executeTokenRouterUpgrade" ->
           Upgrade!executeTokenRouterUpgradeIx(call, network)
      [] call.method = "commitTokenRouterUpgrade" ->
           Upgrade!commitTokenRouterUpgradeIx(call, network)
      [] OTHER -> AdminIx(call)

\* What the client would fetch for the call now, as far as it is there.  No call awaits
\* more than three accounts.
FetchNext(call, seen) ==
    LET reads == Reads(call, seen)
    IN  IF Len(seen) < Len(reads) /\ Exists(acct, reads[Len(seen) + 1])
        THEN Append(seen, acct[reads[Len(seen) + 1]])
        ELSE seen
FetchAll(call) == FetchNext(call, FetchNext(call, FetchNext(call, <<>>)))
IsFetched(call, seen) == Len(seen) = Len(Reads(call, seen))
-----------------------------------------------------------------------------
(* The chain.                                                              *)
Env == [slot |-> clock.slot, period |-> clock.period, expired |-> clock.expired,
        enactDelay |-> EnactDelay, network |-> network]

Handle(s, ix, call) ==
    CASE ix.program = TokenProgram -> Approve(s, ix.accounts)
      [] ix.program = Engine!ID -> EngineProgram!Handle(s, ix, call, Env)
      [] ix.program = Router!ID -> RouterProgram!Handle(s, ix, call, Env)
      [] OTHER -> UpgradeProgram!Handle(s, ix, call, Env)

\* The instructions of a transaction, one or two, take effect together or not at all.
Outcome(call, ixs) ==
    LET first == Handle(acct, ixs[1], call)
    IN  IF Len(ixs) > 1 /\ first.kind = "done" THEN Handle(first.s, ixs[2], call)
        ELSE first

\* The auction period starts with the first offer.
StartsAuction(call) == call.method = "placeInitialOffer"
LandTransaction(call, ixs) ==
    /\ ixs # <<>>
    /\ \E outcome \in {Outcome(call, ixs)} : outcome.kind = "done" /\ acct' = outcome.s
    /\ clock' = [clock EXCEPT !.period = IF StartsAuction(call) THEN "bidding" ELSE @]
-----------------------------------------------------------------------------
Idle == [phase |-> "idle"]

Init ==
    /\ setup \in DOMAIN Setups
    /\ acct = Situations[setup].accounts
    /\ clock = [slot |-> 1, period |-> "none", expired |-> FALSE]
    /\ session = Idle
    /\ others = 0

BeginCall ==
    /\ session = Idle
    /\ \E call \in Situations[setup].calls :
         session' = [phase |-> "reading", call |-> call, seen |-> <<>>]
    /\ UNCHANGED <<setup, acct, clock, others>>

\* An account that is not there is an exception.
Fetch ==
    /\ session.phase = "reading" /\ ~IsFetched(session.call, session.seen)
    /\ LET addr == Reads(session.call, session.seen)[Len(session.seen) + 1]
       IN  session' = IF Exists(acct, addr)
                      THEN [session EXCEPT !.seen = Append(@, acct[addr])] ELSE Idle
    /\ UNCHANGED <<setup, acct, clock, others>>

\* The proposal that is pending at that moment is what its caller means.
PendingProposal ==
    IF ~Exists(acct, EngineProgram!Custodian) THEN Null
    ELSE IF Exists(acct, EngineProgram!Pending(acct)) THEN acct[EngineProgram!Pending(acct)]
    ELSE Null

BuildTransaction ==
    /\ session.phase = "reading" /\ IsFetched(session.call, session.seen)
    /\ \E ixs \in {Build(session.call, session.seen)} :
         session' = IF ixs = <<>> THEN Idle
                    ELSE [phase |-> "pending", call |-> session.call,
                          seen |-> session.seen, ixs |-> ixs, slot |-> clock.slot,
                          shown |-> PendingProposal]
    /\ UNCHANGED <<setup, acct, clock, others>>

IsPending == session.phase = "pending"
CanLand == IsPending /\ clock.slot - session.slot <= BlockhashAge

Land ==
    /\ CanLand
    /\ LandTransaction(session.call, session.ixs)
    /\ session' = Idle
    /\ UNCHANGED <<setup, others>>

\* It is rejected, gets lost, or its blockhash expires.
Drop ==
    /\ IsPending
    /\ session' = Idle
    /\ UNCHANGED <<setup, acct, clock, others>>

OthersLand ==
    /\ others < MaxOthers
    /\ others' = others + 1
    /\ \E call \in Situations[setup].others :
         \E seen \in {FetchAll(call)} :
             /\ IsFetched(call, seen)
             /\ \E ixs \in {Build(call, seen)} : LandTransaction(call, ixs)
    /\ UNCHANGED <<setup, session>>

Later(period) ==
    CASE period = "bidding" -> "grace" [] period = "grace" -> "late" [] OTHER -> period

Tick ==
    /\ \/ clock.slot < Situations[setup].slots /\ clock' = [clock EXCEPT !.slot = @ + 1]
       \/ /\ clock.period \in {"bidding", "grace"}
          /\ clock' = [clock EXCEPT !.period = Later(@)]
       \/ /\ Situations[setup].expires /\ ~clock.expired
          /\ clock' = [clock EXCEPT !.expired = TRUE]
    /\ UNCHANGED <<setup, acct, session, others>>

Next ==
    \/ BeginCall \/ Fetch \/ BuildTransaction \/ Land \/ Drop
    \/ OthersLand
    \/ Tick

Spec == Init /\ [][Next]_vars
-----------------------------------------------------------------------------
(* What the clients promise.                                               *)
IsCurrent ==
    LET reads == Reads(session.call, session.seen)
    IN  \A i \in DOMAIN reads : Exists(acct, reads[i]) /\ acct[reads[i]] = session.seen[i]
Accepted == CanLand /\ Outcome(session.call, session.ixs).kind = "done"

\* Settling takes more than the client reads: the program pays the one who prepared
\* the order response and, where nobody offered, sends to the domain of that day.
ResponseIsAsAssumed ==
    LET call == session.call
        response == Engine!ResponseOf(call)
        settle == Last(session.ixs).accounts
    IN  CASE call.method = "settleAuctionCompleteTx" ->
               IF Exists(acct, response)
               THEN /\ settle.beneficiary = acct[response].info.preparedBy
                    /\ settle.baseFeeToken = acct[response].info.baseFeeToken
               ELSE settle.beneficiary = call.by
          [] call.method = "settleAuctionNoneTx" ->
               Exists(acct, response) =>
                   /\ acct[response].info.preparedBy = call.by
                   /\ acct[response].toEndpoint = acct[EngineProgram!EndpointAt(
                          Engine!OrderIn(call).targetChain)].info
          [] OTHER -> TRUE

\* A transaction built from accounts that are still what they were names the accounts
\* the programs derive for themselves: it can come too late or too early or be none of
\* the user's business, but it never fails for an address the client got wrong.
FreshIsAccepted ==
    IsPending /\ IsCurrent /\ ResponseIsAsAssumed
        => Outcome(session.call, session.ixs).kind # "mismatch"

\* A transaction that others overtook and that is accepted all the same is the one the
\* client would build now: no stale beneficiary, best offer, configuration or domain
\* gets through.  (Where nobody offered, the domain read may be stale and be right, and
\* so may the beneficiary of a settlement that was built before the execution.)
Settled(call, ix) ==
    IF call.method = "settleAuctionCompleteTx"
    THEN [ix EXCEPT !.accounts.beneficiary = call.by] ELSE ix
AcceptedIsCurrent ==
    IsPending /\ ~IsCurrent /\ Accepted /\ session.call.method # "settleAuctionNoneTx"
        => \A now \in {FetchAll(session.call)} :
             /\ IsFetched(session.call, now)
             /\ Settled(session.call, Last(Build(session.call, now)))
                    = Settled(session.call, Last(session.ixs))

\* The instruction that enacts a proposal names an address and no parameters, and a
\* closed proposal leaves its address to the next one.  What is enacted is the proposal
\* there was when the transaction was built.
UnseenProposalsAreNotEnacted ==
    IsPending /\ session.call.method = "updateAuctionParameters" /\ Accepted
        => acct[EngineProgram!Pending(acct)] = session.shown

\* Improving one's own offer spends nothing of what the transaction approved.  Nobody,
\* and anyone may present a transfer authority, can move funds with what is left.
LeftoversCannotBeSpent ==
    \A token \in {x \in DOMAIN acct : IsToken(acct, x) /\ acct[x].delegated > 0},
       call \in {c \in Situations[setup].others : c.method = "improveOffer"} :
         \A seen \in {FetchAll(call)} : IsFetched(call, seen) =>
           \A ix \in Range(Build(call, seen)) : ix.program = Engine!ID =>
             \A a \in {[ix.accounts EXCEPT !.offerToken = token]} :
               Handle(acct, [ix EXCEPT !.accounts = a], call).kind = "done"
                   => token = a.activeAuction.bestOfferToken
=============================================================================
