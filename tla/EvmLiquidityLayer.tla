-------------------------- MODULE EvmLiquidityLayer --------------------------
(***************************************************************************)
(* The EVM contracts: a token router on every chain and one matching       *)
(* engine, on the chain Hub.  A fast order leaves its source router as two *)
(* messages, a CCTP transfer of the order's own USDC to the engine, which   *)
(* waits for finality, and the order itself, which does not.  On the hub   *)
(* anybody may auction the order off, execute it after the auction with    *)
(* the winner's USDC, and at any time deliver the slow message.            *)
(*                                                                         *)
(* An action is one transaction; one that reverts changes nothing.  The    *)
(* checked arithmetic of Solidity is a guard of the action.  Every message *)
(* of a router may be delivered at any time after it was published, in any *)
(* order, and again and again.  Block numbers and timestamps are one clock. *)
(***************************************************************************)
EXTENDS Integers, FiniteSetsExt

CONSTANTS
    Orders,             \* calls of place(Fast)MarketOrder that succeed
    Target,             \* their target chains,
    AmountIn,           \* amounts,
    MaxFee,             \* largest fees, for fast orders,
    Deadlines,          \* and deadlines (0 is none)
    Accounts,           \* bidders, relayers and fee recipients on the hub
    Chains, Hub,        \* the chains, and that of the matching engine
    Engine,             \* the matching engine, as an owner of endpoints
    AuctionDuration, AuctionGracePeriod, AuctionPenaltyBlocks,
    UserPenaltyRewardBps, InitialPenaltyBps, MAX_BPS_FEE,
    MIN_FAST_TRANSFER_AMOUNT,
    UINT64_MAX,
    NoAccount,          \* address(0)
    FirstFeeRecipient,
    FirstParameters,    \* fast transfer parameters of the routers
    Parameters,         \* what updateFastTransferParameters may be called with
    Unregistered,       \* endpoints <<contract, chain>> not yet added
    Managed,            \* endpoints that change
    Adjusted,           \* chains whose routers are paused or adjusted
    MaxBlock,           \* bound on the clock
    MaxCalls            \* bound on orders placed, auctions begun and calls of
                        \* owners and assistants, together

FastTransferParameters ==
    [enabled : BOOLEAN, maxAmount : Nat, baseFee : Nat, initAuctionFee : Nat]

\* The constructors check the first four; the fifth keeps every product of
\* calculateDynamicPenalty inside a uint64, which the code does not check: it
\* reverts for a deposit of 18.4 million USDC or more.
ASSUME EvmAssumption ==
    /\ AuctionDuration \in Nat \ {0}
    /\ AuctionGracePeriod \in Nat /\ AuctionGracePeriod > AuctionDuration
    /\ UserPenaltyRewardBps \in 0 .. MAX_BPS_FEE
    /\ InitialPenaltyBps \in 0 .. MAX_BPS_FEE
    /\ \A o \in Orders : /\ MaxFee[o] * MAX_BPS_FEE <= UINT64_MAX
                         /\ MaxFee[o] * AuctionPenaltyBlocks <= UINT64_MAX
    /\ AuctionPenaltyBlocks \in Nat /\ MAX_BPS_FEE \in Nat \ {0}
    /\ MIN_FAST_TRANSFER_AMOUNT \in Nat /\ UINT64_MAX \in Nat
    /\ Hub \in Chains /\ Engine \notin Chains
    /\ Target \in [Orders -> Chains]
    /\ AmountIn \in [Orders -> Nat] /\ MaxFee \in [Orders -> Nat]
    /\ Deadlines \in [Orders -> SUBSET Nat]
    /\ Parameters \subseteq FastTransferParameters /\ Adjusted \subseteq Chains
    /\ FirstParameters \in FastTransferParameters
    /\ NoAccount \notin Accounts /\ FirstFeeRecipient \in Accounts
    /\ MaxBlock \in Nat /\ MaxCalls \in Nat

VARIABLES
    now,            \* the clock
    \* Token routers
    paused,         \* Paused of each router
    params,         \* FastTransferParameters of each router
    endpoint,       \* RouterEndpoints of the routers and the engine
    sequence,       \* next Wormhole sequence number of each router
    order,          \* the messages published for each order
    \* Matching engine
    auction,        \* LiveAuctionInfo, by fast order
    held,           \* USDC of the engine, by the order it came with
    feeRecipient,   \* FeeRecipient
    \* Transport
    received,       \* orders whose CCTP transfer the engine has received
    fill,           \* the message that fills each order, and its redemption
    \* Nothing reads these.
    net,            \* USDC each account gained by each order
    fast, slow,     \* fills by auction and by the order's own USDC
    paid,           \* USDC sent to the user of each order
    calls

routerVars == <<paused, params, sequence, order>>
engineVars == <<auction, held, received, fill, net, fast, slow, paid>>
adminVars == <<feeRecipient, endpoint>>
vars == <<now, routerVars, engineVars, adminVars, calls>>
-----------------------------------------------------------------------------
Contracts == Chains \cup {Engine}

\* RouterEndpoint: "router" is the address of the chain's token router, "other"
\* any other; added is mintRecipient # 0.
Endpoints == [router : {"zero", "router", "other"}, added : BOOLEAN]

NoEndpoint == [router |-> "zero", added |-> FALSE]

Registered == [router |-> "router", added |-> TRUE]

\* What the messages of an order say, besides its constants: the sequence number
\* of the message with the CCTP transfer, that of the FastMarketOrder after it,
\* the timestamp of both, and their fees.
Messages ==
    [kind : {"none", "market", "fast"}, source : Chains, sequence : Nat,
     fastSequence : Nat, timestamp : Nat, baseFee : Nat, maxFee : Nat,
     initAuctionFee : Nat, deadline : Nat]

NoOrder ==
    [kind |-> "none", source |-> Hub, sequence |-> 0, fastSequence |-> 0,
     timestamp |-> 0, baseFee |-> 0, maxFee |-> 0, initAuctionFee |-> 0,
     deadline |-> 0]

LiveAuctionData ==
    [status : {"None", "Active", "Completed"},
     highestBidder : Accounts \cup {NoAccount},
     initialBidder : Accounts \cup {NoAccount},
     startBlock : Nat, amount : Nat, securityDeposit : Nat, bidPrice : Nat]

NoAuction ==
    [status |-> "None", highestBidder |-> NoAccount, initialBidder |-> NoAccount,
     startBlock |-> 0, amount |-> 0, securityDeposit |-> 0, bidPrice |-> 0]

\* A Fill, burned and published to the router of the target chain, or a FastFill,
\* published by the engine to the router on its own chain.
Fills ==
    [type : {"none", "Fill", "FastFill"}, emitter : Contracts,
     router : {"zero", "router", "other"}, amount : Nat, redeemed : BOOLEAN]

NoFill ==
    [type |-> "none", emitter |-> Engine, router |-> "zero", amount |-> 0,
     redeemed |-> FALSE]

Init ==
    /\ now = 0
    /\ paused = [c \in Chains |-> FALSE]
    /\ params = [c \in Chains |-> FirstParameters]
    /\ endpoint =
          [k \in Contracts |->
             [c \in Chains |-> IF k = c \/ <<k, c>> \in Unregistered
                               THEN NoEndpoint ELSE Registered]]
    /\ sequence = [c \in Chains |-> 0]
    /\ order = [o \in Orders |-> NoOrder]
    /\ auction = [o \in Orders |-> NoAuction]
    /\ held = [o \in Orders |-> 0]
    /\ feeRecipient = FirstFeeRecipient
    /\ received = [o \in Orders |-> FALSE]
    /\ fill = [o \in Orders |-> NoFill]
    /\ net = [o \in Orders |-> [a \in Accounts |-> 0]]
    /\ fast = [o \in Orders |-> 0]
    /\ slow = [o \in Orders |-> 0]
    /\ paid = [o \in Orders |-> 0]
    /\ calls = 0

Call == calls < MaxCalls /\ calls' = calls + 1
-----------------------------------------------------------------------------
(* Placing orders (PlaceMarketOrder.sol) *)

\* _verifyTarget
VerifyTarget(c, o) == endpoint[c][Target[o]].router # "zero"

\* placeMarketOrder: the USDC is burned for the router of the target chain.
PlaceMarketOrder(o, c) ==
    /\ Call
    /\ order[o].kind = "none"
    /\ ~paused[c]
    /\ AmountIn[o] > 0
    /\ VerifyTarget(c, o)
    /\ order' = [order EXCEPT ![o] = [NoOrder EXCEPT !.kind = "market",
                                                     !.source = c,
                                                     !.sequence = sequence[c],
                                                     !.timestamp = now]]
    /\ sequence' = [sequence EXCEPT ![c] = @ + 1]
    /\ fill' = [fill EXCEPT ![o] = [type |-> "Fill", emitter |-> c,
                                    router |-> endpoint[c][Target[o]].router,
                                    amount |-> AmountIn[o], redeemed |-> FALSE]]
    /\ slow' = [slow EXCEPT ![o] = @ + 1]
    /\ paid' = [paid EXCEPT ![o] = @ + AmountIn[o]]
    /\ UNCHANGED <<now, paused, params, auction, held, received, net, fast,
                   adminVars>>

\* The checks of _handleFastOrder on the amounts.
VerifyFees(p, o) ==
    /\ p.enabled
    /\ AmountIn[o] <= p.maxAmount
    /\ MaxFee[o] >= p.baseFee + p.initAuctionFee + 1
    /\ AmountIn[o] > MaxFee[o]
    /\ AmountIn[o] >= MIN_FAST_TRANSFER_AMOUNT

\* Mutation: the bidders may compete for the whole of the user's fee.
BidLimit_Whole(o, p) == MaxFee[o]

\* What is left for the bidders of the user's fee after that of the initial one.
BidLimit(o, p) == MaxFee[o] - p.initAuctionFee

\* placeFastMarketOrder: the USDC is burned for the engine with the base fee of
\* this moment, and the order published after it.
PlaceFastMarketOrder(o, c, deadline) ==
    /\ Call
    /\ order[o].kind = "none"
    /\ ~paused[c]
    /\ c # Hub
    /\ VerifyFees(params[c], o)
    /\ VerifyTarget(c, o)
    /\ order' = [order EXCEPT ![o] =
          [kind |-> "fast", source |-> c, sequence |-> sequence[c],
           fastSequence |-> sequence[c] + 1, timestamp |-> now,
           baseFee |-> params[c].baseFee,
           maxFee |-> BidLimit(o, params[c]),
           initAuctionFee |-> params[c].initAuctionFee, deadline |-> deadline]]
    /\ sequence' = [sequence EXCEPT ![c] = @ + 2]
    /\ UNCHANGED <<now, paused, params, engineVars, adminVars>>
-----------------------------------------------------------------------------
(* Auctions (MatchingEngineFastOrders.sol) *)

\* _verifyRouterPath
VerifyRouterPath(o) ==
    /\ endpoint[Engine][order[o].source].router = "router"
    /\ endpoint[Engine][Target[o]].router # "zero"

Elapsed(o) == now - auction[o].startBlock

\* What account a gets of a payment of x to b.
Share(a, b, x) == IF a = b THEN x ELSE 0

StartAuction(o, bidder, feeBid) ==
    LET deposit == AmountIn[o] + order[o].maxFee
    IN  /\ Call
        /\ auction' = [auction EXCEPT ![o] =
              [status |-> "Active", startBlock |-> now, highestBidder |-> bidder,
               initialBidder |-> bidder, amount |-> AmountIn[o],
               securityDeposit |-> order[o].maxFee, bidPrice |-> feeBid]]
        /\ held' = [held EXCEPT ![o] = @ + deposit]
        /\ net' = [net EXCEPT ![o] = [a \in Accounts |->
                                     @[a] - Share(a, bidder, deposit)]]

BidTransfer(o) == auction[o].amount + auction[o].securityDeposit

\* _improveBid: the new bidder pays the old one back.
Improve(o, bidder, feeBid) ==
    /\ auction[o].status = "Active"
    /\ Elapsed(o) <= AuctionDuration
    /\ feeBid < auction[o].bidPrice
    /\ auction' = [auction EXCEPT ![o].highestBidder = bidder,
                                  ![o].bidPrice = feeBid]
    /\ net' = [net EXCEPT ![o] = [a \in Accounts |->
                 IF bidder = auction[o].highestBidder
                 THEN @[a]
                 ELSE @[a] - Share(a, bidder, BidTransfer(o))
                           + Share(a, auction[o].highestBidder, BidTransfer(o))]]
    /\ UNCHANGED <<held, calls>>

PlaceInitialBid(o, bidder, feeBid) ==
    /\ order[o].kind = "fast"
    /\ order[o].deadline = 0 \/ now < order[o].deadline
    /\ feeBid <= order[o].maxFee
    /\ VerifyRouterPath(o)
    /\ \/ auction[o].status = "None" /\ StartAuction(o, bidder, feeBid)
       \/ auction[o].status # "None" /\ Improve(o, bidder, feeBid)
    /\ UNCHANGED <<now, routerVars, received, fill, fast, slow, paid, adminVars>>

ImproveBid(o, bidder, feeBid) ==
    /\ Improve(o, bidder, feeBid)
    /\ UNCHANGED <<now, routerVars, received, fill, fast, slow, paid, adminVars>>
-----------------------------------------------------------------------------
(* Penalties (State.sol) *)

\* amount * bps / MAX_BPS_FEE
MulBps(amount, bps) == (amount * bps) \div MAX_BPS_FEE

\* The part of a deposit that is lost late blocks after the grace period.
LostDeposit(amount, late) ==
    IF late >= AuctionPenaltyBlocks \/ InitialPenaltyBps = MAX_BPS_FEE
    THEN amount
    ELSE LET base == MulBps(amount, InitialPenaltyBps)
         IN  base + ((amount - base) * late) \div AuctionPenaltyBlocks

\* What a deposit of amount costs its bidder, and how it is divided between the
\* caller and the user.
CalculateDynamicPenalty(amount, blocksElapsed) ==
    IF blocksElapsed <= AuctionGracePeriod
    THEN [penalty |-> 0, userReward |-> 0]
    ELSE LET lost   == LostDeposit(amount, blocksElapsed - AuctionGracePeriod)
             reward == MulBps(lost, UserPenaltyRewardBps)
         IN  [penalty |-> lost - reward, userReward |-> reward]

\* Neither product of calculateDynamicPenalty overflows.
PenaltyFits(amount, blocksElapsed) ==
    LET late == blocksElapsed - AuctionGracePeriod
        lost == LostDeposit(amount, late)
    IN  late > 0 =>
          /\ lost * UserPenaltyRewardBps <= UINT64_MAX
          /\ late < AuctionPenaltyBlocks /\ InitialPenaltyBps < MAX_BPS_FEE =>
               /\ amount * InitialPenaltyBps <= UINT64_MAX
               /\ (amount - MulBps(amount, InitialPenaltyBps)) * late <= UINT64_MAX

PenaltyOf(o) == CalculateDynamicPenalty(auction[o].securityDeposit, Elapsed(o))
-----------------------------------------------------------------------------
(* Settlement (MatchingEngineFastOrders.sol) *)

Local(o) == Target[o] = Hub

\* depositForBurnWithCaller reverts when destinationCaller is zero.
CanBurn(o) == endpoint[Engine][Target[o]].router # "zero"

\* _handleCctpTransfer: a FastFill for the router of the hub, whose USDC stays
\* with the engine, or a burn for the router of another chain.
HandleCctpTransfer(o, amount) ==
    /\ Local(o) \/ CanBurn(o)
    /\ fill' = [fill EXCEPT ![o] =
          [type |-> IF Local(o) THEN "FastFill" ELSE "Fill", emitter |-> Engine,
           router |-> endpoint[Engine][Target[o]].router, amount |-> amount,
           redeemed |-> FALSE]]
    /\ paid' = [paid EXCEPT ![o] = @ + amount]

\* Mutation: the USDC of a FastFill leaves the engine too.
Burned_Always(o, amount) == amount

\* What leaves the engine with a fill.
Burned(o, amount) == IF Local(o) THEN 0 ELSE amount

\* Every subtraction of executeFastOrder, all of them checked.
ExecutionFits(o) ==
    LET a == auction[o]
        p == PenaltyOf(o)
    IN  /\ PenaltyFits(a.securityDeposit, Elapsed(o))
        /\ p.penalty + p.userReward <= a.bidPrice + a.securityDeposit
        /\ a.bidPrice + order[o].initAuctionFee <= a.amount

ExecuteFastOrder(o, caller) ==
    LET a    == auction[o]
        p    == PenaltyOf(o)
        back == a.bidPrice + a.securityDeposit - (p.penalty + p.userReward)
        user == a.amount - a.bidPrice - order[o].initAuctionFee + p.userReward
    IN  /\ order[o].kind = "fast"
        /\ a.status = "Active"
        /\ Elapsed(o) > AuctionDuration
        /\ ExecutionFits(o)
        /\ net' = [net EXCEPT ![o] = [b \in Accounts |->
                     @[b] + Share(b, caller, p.penalty)
                          + Share(b, a.highestBidder, back)
                          + Share(b, a.initialBidder, order[o].initAuctionFee)]]
        /\ HandleCctpTransfer(o, user)
        /\ held' = [held EXCEPT ![o] = @ - p.penalty - back
                                         - order[o].initAuctionFee
                                         - Burned(o, user)]
        /\ auction' = [auction EXCEPT ![o].status = "Completed"]
        /\ fast' = [fast EXCEPT ![o] = @ + 1]
        /\ UNCHANGED <<now, routerVars, received, slow, adminVars, calls>>

\* Mutation: the two messages need not be neighbours.
Paired_AnySequence(o, s) ==
    /\ order[o].source = order[s].source
    /\ order[o].timestamp = order[s].timestamp

\* The fast message of o belongs to the slow message of s.
Paired(o, s) ==
    /\ order[o].source = order[s].source
    /\ order[o].fastSequence = order[s].sequence + 1
    /\ order[o].timestamp = order[s].timestamp

\* verifyVaaAndMint: the USDC of the slow message is minted to the engine, once.
\* It comes with s and out leaves with o.
MintAndSpend(o, s, out) ==
    /\ order[o].kind = "fast" /\ order[s].kind = "fast"
    /\ ~received[s]
    /\ Paired(o, s)
    /\ received' = [received EXCEPT ![s] = TRUE]
    /\ held' = [x \in Orders |-> held[x] + (IF x = s THEN AmountIn[s] ELSE 0)
                                         - (IF x = o THEN out ELSE 0)]

\* Mutation: the order may still be auctioned.
SettledStatus_None == "None"

\* The status of an order after it was filled without an auction.
SettledStatus == "Completed"

\* executeSlowOrderAndRedeem, auction.status == None
ExecuteSlowUnauctioned(o, s) ==
    LET user == AmountIn[o] - order[s].baseFee
    IN  /\ auction[o].status = "None"
        /\ VerifyRouterPath(o)
        /\ user >= 0
        /\ MintAndSpend(o, s, Burned(o, user) + order[s].baseFee)
        /\ HandleCctpTransfer(o, user)
        /\ net' = [net EXCEPT ![o] = [b \in Accounts |->
                     @[b] + Share(b, feeRecipient, order[s].baseFee)]]
        /\ auction' = [auction EXCEPT ![o].status = SettledStatus]
        /\ slow' = [slow EXCEPT ![o] = @ + 1]
        /\ UNCHANGED <<now, routerVars, fast, adminVars, calls>>

\* Every subtraction of executeSlowOrderAndRedeem with an active auction.
SlowFits(o, baseFee) ==
    LET a == auction[o]
        p == PenaltyOf(o)
    IN  /\ PenaltyFits(a.securityDeposit, Elapsed(o))
        /\ p.penalty + p.userReward <= a.amount + a.securityDeposit
        /\ baseFee <= a.amount

\* executeSlowOrderAndRedeem, auction.status == Active
ExecuteSlowActive(o, s, caller) ==
    LET a    == auction[o]
        p    == PenaltyOf(o)
        back == a.amount + a.securityDeposit - (p.penalty + p.userReward)
        user == a.amount - order[s].baseFee + p.userReward
    IN  /\ a.status = "Active"
        /\ SlowFits(o, order[s].baseFee)
        /\ MintAndSpend(o, s, p.penalty + order[s].baseFee + back + Burned(o, user))
        /\ net' = [net EXCEPT ![o] = [b \in Accounts |->
                     @[b] + Share(b, caller, p.penalty + order[s].baseFee)
                          + Share(b, a.highestBidder, back)]]
        /\ HandleCctpTransfer(o, user)
        /\ auction' = [auction EXCEPT ![o].status = "Completed"]
        /\ slow' = [slow EXCEPT ![o] = @ + 1]
        /\ UNCHANGED <<now, routerVars, fast, adminVars, calls>>

\* Mutation: the order's own USDC goes to whoever began the auction.
RepaidBidder_Initial(o) == auction[o].initialBidder

RepaidBidder(o) == auction[o].highestBidder

\* executeSlowOrderAndRedeem, auction.status == Completed
ExecuteSlowCompleted(o, s) ==
    /\ auction[o].status = "Completed"
    /\ MintAndSpend(o, s, auction[o].amount)
    /\ net' = [net EXCEPT ![o] = [b \in Accounts |->
                 @[b] + Share(b, RepaidBidder(o), auction[o].amount)]]
    /\ UNCHANGED <<now, routerVars, auction, fill, fast, slow, paid, adminVars, calls>>
-----------------------------------------------------------------------------
(* Redeeming fills (RedeemFill.sol) *)

\* Mutation: fastFills.redeemed is not looked at.
NotRedeemed_Unchecked(o) == TRUE

\* fastFills.redeemed of the engine
NotRedeemed(o) == ~fill[o].redeemed

\* _handleFastFill of the hub's router, through redeemFastFill of the engine,
\* which pays no other router.
RedeemFastFill(o) ==
    /\ fill[o].type = "FastFill"
    /\ NotRedeemed(o)
    /\ endpoint[Engine][Hub].router = "router"
    /\ fill' = [fill EXCEPT ![o].redeemed = TRUE]
    /\ held' = [held EXCEPT ![o] = @ - fill[o].amount]
    /\ UNCHANGED <<now, routerVars, auction, received, net, fast, slow, paid,
                   adminVars, calls>>

\* Mutation: only routers send fills.
KnownEmitter_Routers(o) ==
    /\ fill[o].emitter # Engine
    /\ endpoint[Target[o]][fill[o].emitter].router = "router"

\* The emitter is the matching engine or the known router of its chain.
KnownEmitter(o) ==
    fill[o].emitter # Engine =>
        endpoint[Target[o]][fill[o].emitter].router = "router"

\* _handleFill: CCTP mints once, for the router the transfer names.
RedeemFill(o) ==
    /\ fill[o].type = "Fill" /\ fill[o].router = "router"
    /\ ~fill[o].redeemed
    /\ KnownEmitter(o)
    /\ fill' = [fill EXCEPT ![o].redeemed = TRUE]
    /\ UNCHANGED <<now, routerVars, auction, held, received, net, fast, slow, paid,
                   adminVars, calls>>
-----------------------------------------------------------------------------
(* Administration (MatchingEngineAdmin.sol, TokenRouterAdmin.sol, Admin.sol) *)

AdminCall ==
    /\ Call
    /\ UNCHANGED <<now, sequence, order, engineVars>>

\* A router keeps no endpoint for its own chain.
AddRouterEndpoint(k, c, address) ==
    /\ AdminCall
    /\ k # c
    /\ ~endpoint[k][c].added
    /\ endpoint' = [endpoint EXCEPT ![k][c] = [router |-> address, added |-> TRUE]]
    /\ UNCHANGED <<paused, params, feeRecipient>>

UpdateRouterEndpoint(k, c, address) ==
    /\ AdminCall
    /\ k # c
    /\ endpoint' = [endpoint EXCEPT ![k][c] = [router |-> address, added |-> TRUE]]
    /\ UNCHANGED <<paused, params, feeRecipient>>

\* The mint recipient stays.
DisableRouterEndpoint(k, c) ==
    /\ AdminCall
    /\ endpoint' = [endpoint EXCEPT ![k][c].router = "zero"]
    /\ UNCHANGED <<paused, params, feeRecipient>>

UpdateFeeRecipient(a) ==
    /\ AdminCall
    /\ feeRecipient' = a
    /\ UNCHANGED <<paused, params, endpoint>>

UpdateFastTransferParameters(c, p) ==
    /\ AdminCall
    /\ p.maxAmount > p.baseFee + p.initAuctionFee
    /\ params' = [params EXCEPT ![c] = p]
    /\ UNCHANGED <<paused, feeRecipient, endpoint>>

EnableFastTransfers(c, enable) ==
    /\ AdminCall
    /\ params' = [params EXCEPT ![c].enabled = enable]
    /\ UNCHANGED <<paused, feeRecipient, endpoint>>

SetPause(c, pause) ==
    /\ AdminCall
    /\ paused' = [paused EXCEPT ![c] = pause]
    /\ UNCHANGED <<params, feeRecipient, endpoint>>

Tick ==
    /\ now < MaxBlock
    /\ now' = now + 1
    /\ UNCHANGED <<routerVars, engineVars, adminVars, calls>>

PlaceOrder(o) ==
    \E c \in Chains :
        \/ PlaceMarketOrder(o, c)
        \/ \E d \in Deadlines[o] : PlaceFastMarketOrder(o, c, d)

Bid(o) ==
    \E bidder \in Accounts, feeBid \in 0 .. order[o].maxFee :
        PlaceInitialBid(o, bidder, feeBid) \/ ImproveBid(o, bidder, feeBid)

ExecuteSlowOrderAndRedeem(o) ==
    \E s \in Orders :
        \/ ExecuteSlowUnauctioned(o, s)
        \/ \E caller \in Accounts : ExecuteSlowActive(o, s, caller)
        \/ ExecuteSlowCompleted(o, s)

Redeem(o) == RedeemFastFill(o) \/ RedeemFill(o)

Administer ==
    \/ \E kc \in Managed, address \in {"router", "other"} :
          \/ AddRouterEndpoint(kc[1], kc[2], address)
          \/ UpdateRouterEndpoint(kc[1], kc[2], address)
    \/ \E kc \in Managed : DisableRouterEndpoint(kc[1], kc[2])
    \/ \E a \in Accounts : UpdateFeeRecipient(a)
    \/ \E c \in Adjusted :
          \/ \E p \in Parameters : UpdateFastTransferParameters(c, p)
          \/ \E b \in BOOLEAN : EnableFastTransfers(c, b) \/ SetPause(c, b)

Next ==
    \/ \E o \in Orders :
          \/ PlaceOrder(o)
          \/ Bid(o)
          \/ \E caller \in Accounts : ExecuteFastOrder(o, caller)
          \/ ExecuteSlowOrderAndRedeem(o)
          \/ Redeem(o)
    \/ Administer
    \/ Tick

\* Somebody delivers the slow message of every order: the relayer earns the base
\* fee, and a solver its money back.  Redeemers collect their fills.
Fairness ==
    \A o \in Orders : WF_vars(ExecuteSlowOrderAndRedeem(o)) /\ WF_vars(Redeem(o))

Spec == Init /\ [][Next]_vars

FairSpec == Spec /\ Fairness
-----------------------------------------------------------------------------
(* Safety *)

\* The state has the shape of the contracts' storage; no account of the engine is
\* overdrawn (held) although redeemers, relayers and bidders call it in any order
\* and as often as they like.
TypeOK ==
    /\ now \in Nat
    /\ paused \in [Chains -> BOOLEAN]
    /\ params \in [Chains -> FastTransferParameters]
    /\ endpoint \in [Contracts -> [Chains -> Endpoints]]
    /\ sequence \in [Chains -> Nat]
    /\ order \in [Orders -> Messages]
    /\ auction \in [Orders -> LiveAuctionData]
    /\ held \in [Orders -> Nat]
    /\ feeRecipient \in Accounts
    /\ received \in [Orders -> BOOLEAN]
    /\ fill \in [Orders -> Fills]
    /\ net \in [Orders -> [Accounts -> Int]]
    /\ fast \in [Orders -> Nat]
    /\ slow \in [Orders -> Nat]
    /\ paid \in [Orders -> Nat]
    /\ calls \in Nat

\* The USDC of a FastFill that its router has not redeemed.
Unredeemed(o) ==
    IF fill[o].type = "FastFill" /\ ~fill[o].redeemed THEN fill[o].amount ELSE 0

\* The engine has for every order exactly what it owes on it: the winner's amount
\* and deposit while the auction is active, the user's USDC until a FastFill is
\* redeemed, and nothing else; no order is ever paid with the USDC of another.
EngineHoldsWhatItOwes ==
    \A o \in Orders :
        held[o] = (IF auction[o].status = "Active"
                   THEN auction[o].amount + auction[o].securityDeposit ELSE 0)
                    + Unredeemed(o)

\* No settlement of an active auction, nor of an order without one, ever reverts
\* for arithmetic, at any block: fees that were checked by a router, with the
\* parameters it had then, always fit when the engine subtracts them.
SettlementNeverReverts ==
    \A o \in Orders :
        /\ auction[o].status = "Active" =>
             ExecutionFits(o) /\ SlowFits(o, order[o].baseFee)
        /\ order[o].kind = "fast" => order[o].baseFee <= AmountIn[o]

\* While an auction is active only the highest bidder is out of pocket (whoever
\* was outbid has everything back), and once the order's own USDC has arrived
\* nobody has lost anything but the highest bidder, at most the deposit.
BiddersAreWhole ==
    \A o \in Orders, a \in Accounts :
        /\ auction[o].status = "Active" =>
             net[o][a] = -Share(a, auction[o].highestBidder,
                                auction[o].amount + auction[o].securityDeposit)
        /\ received[o] =>
             net[o][a] >= -Share(a, auction[o].highestBidder,
                                 auction[o].securityDeposit)

-----------------------------------------------------------------------------
(* Refinement *)

\* The least that the users agreed to.
LeastAmounts == [o \in Orders |-> AmountIn[o] - MaxFee[o]]

\* Where the USDC of the orders is: the engine spends it as it receives it.
Funds ==
    [o \in Orders |-> IF received[o] \/ order[o].kind = "market"
                      THEN "spent" ELSE "source"]

Lifecycle == INSTANCE OrderLifecycle WITH MinAmount <- LeastAmounts, funds <- Funds

\* The EVM contracts keep the promise of OrderLifecycle: every order is filled at
\* most once, with at least its amount less the user's largest fee, and its own
\* USDC is spent once.
ImplementsLifecycle == Lifecycle!Spec
-----------------------------------------------------------------------------
(* Liveness *)

\* The engine knows the routers of the order's source and target.
PathOpen(o) ==
    /\ endpoint[Engine][order[o].source].router = "router"
    /\ endpoint[Engine][Target[o]].router = "router"

\* The order's USDC arrived, and the user has the fill unless it was sent, on the
\* owner's word, to another router.
Delivered(o) ==
    /\ received[o]
    /\ \/ fill[o].redeemed
       \/ fill[o].type = "Fill" /\ fill[o].router = "other"

\* Whatever bidders and executors do or leave undone, every fast order is filled,
\* redeemed and its own USDC received, if its path is open in the end.
EveryOrderSettles ==
    \A o \in Orders :
        <>[]PathOpen(o) => (order[o].kind = "fast" ~> Delivered(o))
=============================================================================
