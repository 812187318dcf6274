--------------------------- MODULE MatchingEngine ---------------------------
(***************************************************************************)
(* The Solana matching engine (solana/programs/matching-engine): the life  *)
(* of the auction of a fast market order, from the initial offer to the    *)
(* closing of its account, with the USDC that moves at each instruction.   *)
(*                                                                         *)
(* An action is one instruction and is atomic, as a Solana transaction is. *)
(* Any instruction may be sent by anyone in any order, which is how the    *)
(* program is exposed; what it refuses (an account constraint, an error, a *)
(* token transfer that fails) is a guard.  An order is known by its fast   *)
(* VAA; Order gives what the VAA and its finalized counterpart carry.      *)
(*                                                                         *)
(* Rent (lamports) and events are left out.                                *)
(***************************************************************************)
EXTENDS AuctionMath, FiniteSetsExt

CONSTANTS
    Vaas,               \* fast market orders, one per fast VAA
    Order,              \* what each VAA carries (see Orders)
    Accounts,           \* USDC token accounts of participants
    Payers,             \* fee payers of transactions
    NoKey,              \* Pubkey::default()
    FeeRecipientToken,  \* custodian.fee_recipient_token
    InitialBalance,     \* USDC in each token account at the start
    Chains, SolanaChain, Senders, Addresses, Domains,
    InitialEndpoint,    \* registered router endpoints at the start
    LastConfig, Config, \* auction configurations 0 .. LastConfig
    VAA_AUCTION_EXPIRATION_TIME,
    EXECUTE_FAST_ORDER_LOCAL_ADDITIONAL_GRACE_PERIOD

\* Bounds and scope of an instance.
CONSTANTS
    MaxSlot,            \* slots are 0 .. MaxSlot
    MaxStartSlot,       \* no auction starts after this slot
    MaxTime,            \* unix timestamps are 0 .. MaxTime
    MaxDonations,       \* how many times someone sends 1 USDC to a custody
    VolatileAccounts,   \* token accounts that may be frozen or closed
    AdminSteps          \* whether the owner intervenes

Orders ==
    [amountIn : Nat, maxFee : Nat, initAuctionFee : Nat, baseFee : Nat,
     deadline : Nat, timestamp : Nat,
     source : Chains, emitter : Addresses, sender : Senders, target : Chains]

Protocols == {"None", "Local"} \cup Domains

Endpoints == [protocol : Protocols, address : Addresses \cup {NoKey}]

ASSUME ConstantsAssumption ==
    /\ Accounts # {} /\ FeeRecipientToken \in Accounts
    /\ NoKey \notin Accounts \cup Payers \cup Addresses
    /\ VolatileAccounts \subseteq Accounts
    /\ SolanaChain \in Chains
    /\ "None" \notin Domains /\ "Local" \notin Domains
    /\ InitialBalance \in [Accounts -> Nat]
    /\ InitialEndpoint \in [Chains -> Endpoints]
    /\ LastConfig \in Nat
    /\ Config \in [0 .. LastConfig -> AuctionParameters]
    /\ VAA_AUCTION_EXPIRATION_TIME \in Nat
    /\ EXECUTE_FAST_ORDER_LOCAL_ADDITIONAL_GRACE_PERIOD \in U64
    /\ MaxSlot \in U64 /\ MaxStartSlot \in U64 /\ MaxTime \in Nat
    /\ MaxDonations \in Nat
    /\ AdminSteps \in BOOLEAN

\* What the token router of the source chain guarantees of an order it emits
\* (TokenRouter's PlaceMarketOrder.sol, _handleFastOrder): the fees fit in the
\* amount, and the base fee is below the maximum fee.
ASSUME OrderAssumption ==
    /\ Order \in [Vaas -> Orders]
    /\ \A v \in Vaas :
        /\ Order[v].amountIn \in U64
        /\ Order[v].amountIn > Order[v].maxFee + Order[v].initAuctionFee
        /\ Order[v].baseFee < Order[v].maxFee

\* There are finitely many orders, token accounts and chains to sum over.
ASSUME FinitenessAssumption ==
    IsFiniteSet(Vaas) /\ IsFiniteSet(Accounts) /\ IsFiniteSet(Chains)
-----------------------------------------------------------------------------
VARIABLES
    slot, now,          \* the Clock sysvar: slot and unix_timestamp
    paused, configId,   \* the custodian's paused and auction_config_id
    endpoint,           \* router endpoint of each chain
    auction,            \* auction account of each VAA
    response,           \* prepared order response of each VAA
    minted,             \* CCTP transfers of finalized VAAs already received
    sequencer,          \* next fast fill sequence of each (chain, sender)
    reserved,           \* reserved fast fill sequence of each VAA
    fastFills,          \* fast fill accounts
    accountState,       \* of the participants' token accounts
    balance,            \* USDC of the participants' token accounts
    custody,            \* USDC of the auction custody token of each VAA
    localCustody,       \* USDC of the local custody token of each source chain
    donations,
    \* What has left the engine, which the target chains observe.
    released,           \* USDC burned by CCTP or handed to the local token router
    fastFilled,         \* fills sent for an executed auction
    slowFilled,         \* fills sent by a settlement without an auction
    delivered           \* USDC sent to the user of each VAA

clockVars == <<slot, now>>
adminVars == <<paused, configId, endpoint>>
sequenceVars == <<sequencer, reserved, fastFills>>
tokenVars == <<accountState, balance, custody, localCustody>>
outputVars == <<released, fastFilled, slowFilled, delivered>>
vars == <<clockVars, adminVars, auction, response, minted, sequenceVars,
          tokenVars, donations, outputVars>>
-----------------------------------------------------------------------------
AuctionStatus == {"Absent", "NotStarted", "Active", "Completed", "Settled"}

\* The auction account.  Its info is meaningful from "Active" on; penalty is
\* that of Completed, whose Option is None exactly when it is 0.
Auctions ==
    [status : AuctionStatus, target : Protocols, config : 0 .. LastConfig,
     best : Accounts \cup {NoKey}, initial : Accounts \cup {NoKey},
     startSlot : U64, securityDeposit : U64, offerPrice : U64, penalty : Nat]

NoAuction ==
    [status |-> "Absent", target |-> "None", config |-> 0,
     best |-> NoKey, initial |-> NoKey, startSlot |-> 0,
     securityDeposit |-> 0, offerPrice |-> 0, penalty |-> 0]

Responses ==
    [exists : BOOLEAN, preparedBy : Payers \cup {NoKey},
     baseFeeToken : Accounts \cup {NoKey}, target : Protocols, custody : Nat]

NoResponse ==
    [exists |-> FALSE, preparedBy |-> NoKey, baseFeeToken |-> NoKey,
     target |-> "None", custody |-> 0]

Reservations ==
    [exists : BOOLEAN, beneficiary : Payers \cup {NoKey}, sequence : Nat]

NoReservation == [exists |-> FALSE, beneficiary |-> NoKey, sequence |-> 0]

FastFills ==
    [source : Chains, sender : Senders, sequence : Nat, amount : Nat,
     redeemed : BOOLEAN]

Init ==
    /\ slot = 0 /\ now = 0
    /\ paused = FALSE
    /\ configId = 0
    /\ endpoint = InitialEndpoint
    /\ auction = [v \in Vaas |-> NoAuction]
    /\ response = [v \in Vaas |-> NoResponse]
    /\ minted = [v \in Vaas |-> FALSE]
    /\ sequencer = [k \in Chains \X Senders |-> 0]
    /\ reserved = [v \in Vaas |-> NoReservation]
    /\ fastFills = {}
    /\ accountState = [a \in Accounts |-> "Open"]
    /\ balance = InitialBalance
    /\ custody = [v \in Vaas |-> 0]
    /\ localCustody = [c \in Chains |-> 0]
    /\ donations = 0
    /\ released = 0
    /\ fastFilled = [v \in Vaas |-> 0]
    /\ slowFilled = [v \in Vaas |-> 0]
    /\ delivered = [v \in Vaas |-> 0]
-----------------------------------------------------------------------------
(* Helpers shared by the instructions. *)

\* utils::checked_deserialize_token_account: the account can receive USDC.
Usable(a) == accountState[a] = "Open"

\* Anchor deserializes a token account, frozen or not.
Exists(a) == accountState[a] # "Closed"

ConfigOf(v) == Config[auction[v].config]

\* AuctionInfo::total_deposit
DepositOf(v) == TotalDeposit(Order[v].amountIn, auction[v].securityDeposit)

AuctionEnded(v) ==
    ~WithinAuctionDuration(ConfigOf(v), auction[v].startSlot, slot)

ExpirationTime(v) == Order[v].timestamp + VAA_AUCTION_EXPIRATION_TIME

LiveRouterEndpoint(c) == endpoint[c].protocol # "None"

\* The order comes from a registered router and goes to a live one.
FastOrderPath(v) ==
    /\ LiveRouterEndpoint(Order[v].source)
    /\ LiveRouterEndpoint(Order[v].target)
    /\ Order[v].source # Order[v].target
    /\ endpoint[Order[v].source].address = Order[v].emitter

\* Mutation: the auction account is created with init_if_needed.
AuctionAccountFree_InitIfNeeded(v) == auction[v].status # "Active"

\* The auction account is created by this instruction ("init", or an all-zero
\* vaa_hash after init_if_needed): there must be none.
AuctionAccountFree(v) == auction[v].status = "Absent"

\* Mutation: no account is too young to be closed.
AuctionExpired_Never(v) == auction[v].status # "Absent"

\* From here on close_auction is allowed and an initial offer is not.
AuctionExpired(v) == now >= ExpirationTime(v)

\* Mutation: the transfer does not look at the balance.
CanPay_Unfunded(a, amount) == Usable(a) /\ amount > 0

\* A token transfer out of a participant's account succeeds.
CanPay(a, amount) == Usable(a) /\ balance[a] >= amount

\* Pay amounts[a] into each participant's account.
Credit(amounts) == balance' = [a \in Accounts |-> balance[a] + amounts[a]]
-----------------------------------------------------------------------------
(* Offers *)

\* place_initial_offer_cctp
PlaceInitialOfferCctp(v, a, offerPrice) ==
    LET config == Config[configId]
        securityDeposit ==
            SaturatingAdd(Order[v].maxFee,
                ComputeNotionalSecurityDeposit(config, Order[v].amountIn))
        total == Order[v].amountIn + securityDeposit
    IN  /\ slot <= MaxStartSlot
        /\ ~paused
        /\ FastOrderPath(v)
        /\ Order[v].deadline = 0 \/ now < Order[v].deadline
        /\ now < ExpirationTime(v)
        /\ offerPrice <= Order[v].maxFee
        /\ AuctionAccountFree(v)
        /\ total <= U64_MAX
        /\ CanPay(a, total)
        /\ auction' = [auction EXCEPT ![v] =
              [status |-> "Active", target |-> endpoint[Order[v].target].protocol,
               config |-> configId, best |-> a, initial |-> a,
               startSlot |-> slot, securityDeposit |-> securityDeposit,
               offerPrice |-> offerPrice, penalty |-> 0]]
        /\ balance' = [balance EXCEPT ![a] = @ - total]
        /\ custody' = [custody EXCEPT ![v] = total]
        /\ UNCHANGED <<clockVars, adminVars, response, minted, sequenceVars,
                       accountState, localCustody, donations, outputVars>>

\* Mutation: an improved offer comes without its security deposit.
OfferDeposit_AmountOnly(v) == Order[v].amountIn

\* What a better offer transfers to the auction's custody.
OfferDeposit(v) == DepositOf(v)

\* An outbid participant gets the deposit back if its account can still receive
\* it; otherwise the deposit stays in the auction's custody.
Refund(v) == IF Usable(auction[v].best) THEN DepositOf(v) ELSE 0

\* Mutation: the auction moves to the custodian's current configuration.
Improved_Reconfigured(v, a, offerPrice) ==
    [auction[v] EXCEPT !.best = a, !.offerPrice = offerPrice, !.config = configId]

Improved(v, a, offerPrice) ==
    [auction[v] EXCEPT !.best = a, !.offerPrice = offerPrice]

\* improve_offer
ImproveOffer(v, a, offerPrice) ==
    LET best  == auction[v].best
        total == OfferDeposit(v)
    IN  /\ auction[v].status = "Active"
        /\ ~AuctionEnded(v)
        /\ offerPrice < ComputeMinAllowedOffer(ConfigOf(v), auction[v].offerPrice)
        /\ Exists(a)
        /\ \/ /\ a = best
              /\ UNCHANGED <<balance, custody>>
           \/ /\ a # best
              /\ Refund(v) <= custody[v]
              /\ CanPay(a, total)
              /\ balance' = [balance EXCEPT ![best] = @ + Refund(v),
                                            ![a] = @ - total]
              /\ custody' = [custody EXCEPT ![v] = @ - Refund(v) + total]
        /\ auction' = [auction EXCEPT ![v] = Improved(v, a, offerPrice)]
        /\ UNCHANGED <<clockVars, adminVars, response, minted, sequenceVars,
                       accountState, localCustody, donations, outputVars>>
-----------------------------------------------------------------------------
(* Execution *)

\* Orders to Solana need a sequence to be reserved first, hence the extra slots.
AdditionalGracePeriod(v) ==
    IF auction[v].target = "Local"
    THEN EXECUTE_FAST_ORDER_LOCAL_ADDITIONAL_GRACE_PERIOD ELSE 0

DepositPenalty(v) ==
    ComputeDepositPenalty(ConfigOf(v), auction[v].startSlot,
                          auction[v].securityDeposit, slot,
                          AdditionalGracePeriod(v))

\* In what follows d is the DepositPenalty of executing now.

\* Mutation: the user's reward is taken from the user.
UserAmount_RewardTaken(v, d) ==
    SaturatingSub(
        SaturatingSub(SaturatingSub(Order[v].amountIn, auction[v].offerPrice),
                      Order[v].initAuctionFee),
        d.userReward)

UserAmount(v, d) ==
    SaturatingAdd(
        SaturatingSub(SaturatingSub(Order[v].amountIn, auction[v].offerPrice),
                      Order[v].initAuctionFee),
        d.userReward)

\* The initiator of an auction is paid a fee if its account can receive it.
InitialPaid(v) ==
    IF Usable(auction[v].initial) /\ auction[v].best # auction[v].initial
    THEN Order[v].initAuctionFee ELSE 0

\* Mutation: the fee paid to the initiator is not accounted for.
RemainingCustodied_FeeForgotten(v, d) ==
    SaturatingSub(custody[v], UserAmount(v, d))

RemainingCustodied(v, d) ==
    SaturatingSub(SaturatingSub(custody[v], UserAmount(v, d)), InitialPaid(v))

\* What the best offer is due when someone else executes.
DepositAndFee(v, executor, d) ==
    LET a == auction[v]
    IN  SaturatingSub(
            SaturatingSub(SaturatingAdd(a.offerPrice, a.securityDeposit),
                          d.userReward),
            IF a.best # executor THEN d.penalty ELSE 0)
          + (IF Usable(a.initial) /\ a.best = a.initial
             THEN Order[v].initAuctionFee ELSE 0)

BestPaid(v, executor, d) ==
    IF auction[v].best = executor THEN RemainingCustodied(v, d)
    ELSE IF Usable(auction[v].best) THEN DepositAndFee(v, executor, d) ELSE 0

ExecutorPaid(v, executor, d) ==
    IF auction[v].best = executor THEN 0
    ELSE SaturatingSub(RemainingCustodied(v, d), BestPaid(v, executor, d))

\* handle_execute_fast_order: who gets what out of the auction's custody.
Execution(v, executor, d) ==
    [userAmount    |-> UserAmount(v, d),
     penalty       |-> d.penalty,
     depositAndFee |-> DepositAndFee(v, executor, d),
     initialPaid   |-> InitialPaid(v),
     bestPaid      |-> BestPaid(v, executor, d),
     executorPaid  |-> ExecutorPaid(v, executor, d)]

\* Every transfer of the execution is covered and nothing is left in the
\* custody account, which can then be closed.
Balances(v, x) ==
    /\ x.depositAndFee <= U64_MAX
    /\ x.initialPaid + x.bestPaid + x.executorPaid + x.userAmount = custody[v]

\* Mutation: an execution must be able to pay the best offer.
ExecutorAccepted_BestRequired(v, executor, x) ==
    /\ Exists(executor)
    /\ Usable(auction[v].best)
    /\ x.executorPaid > 0 => Usable(executor)

\* The executor's account exists, and can receive what it is paid.
ExecutorAccepted(v, executor, x) ==
    /\ Exists(executor)
    /\ executor = auction[v].best => Usable(executor)
    /\ x.executorPaid > 0 => Usable(executor)

\* The part of an execution that both protocols share (ExecuteOrder accounts and
\* handle_execute_fast_order); sending userAmount on is left to the caller.
HandleExecuteFastOrder(v, executor, x) ==
    /\ AuctionEnded(v)
    /\ ExecutorAccepted(v, executor, x)
    /\ Balances(v, x)
    /\ Credit([a \in Accounts |->
                 (IF a = auction[v].initial THEN x.initialPaid ELSE 0)
                   + (IF a = auction[v].best THEN x.bestPaid ELSE 0)
                   + (IF a = executor THEN x.executorPaid ELSE 0)])
    /\ custody' = [custody EXCEPT ![v] = 0]
    /\ auction' = [auction EXCEPT ![v].status = "Completed",
                                  ![v].penalty = x.penalty]
    /\ fastFilled' = [fastFilled EXCEPT ![v] = @ + 1]
    /\ delivered' = [delivered EXCEPT ![v] = @ + x.userAmount]

\* execute_fast_order_cctp: some live endpoint still has the protocol that the
\* auction started with; the user's amount is burned.
ExecuteFastOrderCctp(v, executor) ==
    /\ auction[v].status = "Active"
    /\ auction[v].target \in Domains
    /\ \E c \in Chains : endpoint[c].protocol = auction[v].target
    /\ \E d \in {DepositPenalty(v)} : \E x \in {Execution(v, executor, d)} :
          /\ HandleExecuteFastOrder(v, executor, x)
          /\ released' = released + x.userAmount
    /\ UNCHANGED <<clockVars, adminVars, response, minted, sequenceVars,
                   accountState, localCustody, donations, slowFilled>>

\* FastFill accounts are created with "init" at an address derived from the
\* source chain, the order sender and the reserved sequence.
FastFillAddressFree(v) ==
    \A f \in fastFills : ~ /\ f.source = Order[v].source
                           /\ f.sender = Order[v].sender
                           /\ f.sequence = reserved[v].sequence

\* Create the fast fill, move the amount to the local custody of the source
\* chain and close the reserved sequence.
SendLocalFill(v, amount) ==
    /\ reserved[v].exists
    /\ FastFillAddressFree(v)
    /\ fastFills' = fastFills \cup
          {[source |-> Order[v].source, sender |-> Order[v].sender,
            sequence |-> reserved[v].sequence, amount |-> amount,
            redeemed |-> FALSE]}
    /\ localCustody' = [localCustody EXCEPT ![Order[v].source] = @ + amount]
    /\ reserved' = [reserved EXCEPT ![v] = NoReservation]

\* execute_fast_order_local
ExecuteFastOrderLocal(v, executor) ==
    /\ auction[v].status = "Active"
    /\ \E d \in {DepositPenalty(v)} : \E x \in {Execution(v, executor, d)} :
          /\ HandleExecuteFastOrder(v, executor, x)
          /\ SendLocalFill(v, x.userAmount)
    /\ UNCHANGED <<clockVars, adminVars, response, minted, sequencer,
                   accountState, donations, released, slowFilled>>
-----------------------------------------------------------------------------
(* Settlement *)

\* Mutation: CCTP lets a transfer be received again.
Receivable_Again(v) == minted[v] \in BOOLEAN

\* CCTP has not yet delivered the transfer of the finalized VAA (used_nonces).
Receivable(v) == ~minted[v]

\* prepare_order_response_cctp: the finalized transfer is received from CCTP,
\* which lets a transfer be received once.  With a response in place the
\* instruction does nothing.
PrepareOrderResponseCctp(v, payer, baseFeeToken) ==
    /\ FastOrderPath(v)
    /\ Exists(baseFeeToken)
    /\ ~response[v].exists
    /\ Receivable(v)
    /\ minted' = [minted EXCEPT ![v] = TRUE]
    /\ response' = [response EXCEPT ![v] =
          [exists |-> TRUE, preparedBy |-> payer, baseFeeToken |-> baseFeeToken,
           target |-> endpoint[Order[v].target].protocol,
           custody |-> Order[v].amountIn]]
    /\ UNCHANGED <<clockVars, adminVars, auction, sequenceVars, tokenVars,
                   donations, outputVars>>

\* settle_auction_complete: how the received transfer is divided.
Repayment(v) ==
    LET best == auction[v].best
        base == response[v].baseFeeToken
        all  == response[v].custody
    IN  IF \/ auction[v].penalty = 0
           \/ base = best
           \/ ~Usable(base)
        THEN [ok |-> Usable(best), best |-> all, base |-> 0]
        ELSE IF ~Usable(best)
        THEN [ok |-> TRUE, best |-> 0, base |-> all]
        ELSE [ok |-> TRUE, best |-> SaturatingSub(all, Order[v].baseFee),
              base |-> Order[v].baseFee]

SettleAuctionComplete(v) ==
    LET r == Repayment(v)
    IN  /\ response[v].exists
        /\ auction[v].status = "Completed"
        /\ r.ok
        /\ r.best + r.base = response[v].custody
        /\ Credit([a \in Accounts |->
                     (IF a = auction[v].best THEN r.best ELSE 0)
                       + (IF a = response[v].baseFeeToken THEN r.base ELSE 0)])
        /\ auction' = [auction EXCEPT ![v].status = "Settled"]
        /\ response' = [response EXCEPT ![v] = NoResponse]
        /\ UNCHANGED <<clockVars, adminVars, minted, sequenceVars, accountState,
                       custody, localCustody, donations, outputVars>>

\* PreparedOrderResponse::new_auction_placeholder
NewAuctionPlaceholder(v) ==
    [NoAuction EXCEPT !.status = "NotStarted", !.target = response[v].target]

\* settle_none_and_prepare_fill: the fees go to the protocol's fee recipient and
\* the rest to the user.
SettleNoneFee(v) == SaturatingAdd(Order[v].baseFee, Order[v].initAuctionFee)

SettleNoneUserAmount(v) == SaturatingSub(response[v].custody, SettleNoneFee(v))

SettleNoneAndPrepareFill(v) ==
    /\ response[v].exists
    /\ Usable(FeeRecipientToken)
    /\ SettleNoneFee(v) <= response[v].custody
    /\ balance' = [balance EXCEPT ![FeeRecipientToken] = @ + SettleNoneFee(v)]
    /\ auction' = [auction EXCEPT ![v] =
                      [NewAuctionPlaceholder(v) EXCEPT !.status = "Settled"]]
    /\ response' = [response EXCEPT ![v] = NoResponse]
    /\ slowFilled' = [slowFilled EXCEPT ![v] = @ + 1]
    /\ delivered' = [delivered EXCEPT ![v] = @ + SettleNoneUserAmount(v)]

\* settle_auction_none_cctp: creates the auction account, so there was none.
SettleAuctionNoneCctp(v) ==
    /\ response[v].target \in Domains
    /\ AuctionAccountFree(v)
    /\ SettleNoneAndPrepareFill(v)
    /\ released' = released + SettleNoneUserAmount(v)
    /\ UNCHANGED <<clockVars, adminVars, minted, sequenceVars, accountState,
                   custody, localCustody, donations, fastFilled>>

\* Mutation: like its CCTP counterpart, expects no auction account.
IsPlaceholder_Absent(v) == auction[v].status = "Absent"

IsPlaceholder(v) == auction[v].status = "NotStarted"

\* settle_auction_none_local: the auction account is the placeholder written when
\* the sequence was reserved.
SettleAuctionNoneLocal(v) ==
    /\ response[v].preparedBy = reserved[v].beneficiary
    /\ IsPlaceholder(v)
    /\ SettleNoneAndPrepareFill(v)
    /\ SendLocalFill(v, SettleNoneUserAmount(v))
    /\ UNCHANGED <<clockVars, adminVars, minted, sequencer, accountState,
                   custody, donations, released, fastFilled>>

\* Mutation: only auctions that were executed and not repaid are closed.
Closable_Completed(v) == auction[v].status = "Completed"

Closable(v) == auction[v].status = "Settled"

\* close_auction
CloseAuction(v) ==
    /\ Closable(v)
    /\ AuctionExpired(v)
    /\ auction' = [auction EXCEPT ![v] = NoAuction]
    /\ UNCHANGED <<clockVars, adminVars, response, minted, sequenceVars,
                   tokenVars, donations, outputVars>>
-----------------------------------------------------------------------------
(* Fast fills to Solana *)

\* Mutation: the sequence is not advanced.
NextSequence_Same(sequence) == sequence

\* checked_add(1)
NextSequence(sequence) == sequence + 1

\* ReserveFastFillSequence and set_reserved_sequence_data.
ReserveSequence(v, beneficiary) ==
    LET key == <<Order[v].source, Order[v].sender>>
    IN  /\ FastOrderPath(v)
        /\ endpoint[Order[v].target].protocol = "Local"
        /\ ~reserved[v].exists
        /\ NextSequence(sequencer[key]) <= U64_MAX
        /\ reserved' = [reserved EXCEPT ![v] =
              [exists |-> TRUE, beneficiary |-> beneficiary,
               sequence |-> sequencer[key]]]
        /\ sequencer' = [sequencer EXCEPT ![key] = NextSequence(@)]

\* reserve_fast_fill_sequence_active_auction
ReserveFastFillSequenceActiveAuction(v, payer) ==
    /\ auction[v].status = "Active"
    /\ auction[v].target = "Local"
    /\ AuctionEnded(v)
    /\ ReserveSequence(v, payer)
    /\ UNCHANGED <<clockVars, adminVars, auction, response, minted, fastFills,
                   tokenVars, donations, outputVars>>

\* Mutation: whoever pays for the reservation is its beneficiary.
ReserveFastFillSequenceNoAuction_PayerBenefits(v) ==
    /\ AuctionAccountFree(v)
    /\ response[v].exists
    /\ \E payer \in Payers : ReserveSequence(v, payer)
    /\ auction' = [auction EXCEPT ![v] = NewAuctionPlaceholder(v)]
    /\ UNCHANGED <<clockVars, adminVars, response, minted, fastFills,
                   tokenVars, donations, outputVars>>

\* reserve_fast_fill_sequence_no_auction: the placeholder keeps an auction from
\* starting once the sequence is reserved.
ReserveFastFillSequenceNoAuction(v) ==
    /\ AuctionAccountFree(v)
    /\ response[v].exists
    /\ ReserveSequence(v, response[v].preparedBy)
    /\ auction' = [auction EXCEPT ![v] = NewAuctionPlaceholder(v)]
    /\ UNCHANGED <<clockVars, adminVars, response, minted, fastFills,
                   tokenVars, donations, outputVars>>

\* Mutation: a redeemed fast fill may be redeemed until its account is closed.
Redeemable_UntilClosed(f) == f.redeemed \in BOOLEAN

Redeemable(f) == ~f.redeemed

\* complete_fast_fill, called by the registered local token router.
CompleteFastFill(f) ==
    /\ Redeemable(f)
    /\ LiveRouterEndpoint(f.source)
    /\ LiveRouterEndpoint(SolanaChain)
    /\ f.source # SolanaChain
    /\ f.amount <= localCustody[f.source]
    /\ fastFills' = (fastFills \ {f}) \cup {[f EXCEPT !.redeemed = TRUE]}
    /\ localCustody' = [localCustody EXCEPT ![f.source] = @ - f.amount]
    /\ released' = released + f.amount
    /\ UNCHANGED <<clockVars, adminVars, auction, response, minted, sequencer,
                   reserved, accountState, balance, custody, donations,
                   fastFilled, slowFilled, delivered>>

\* close_redeemed_fast_fill
CloseRedeemedFastFill(f) ==
    /\ f.redeemed
    /\ fastFills' = fastFills \ {f}
    /\ UNCHANGED <<clockVars, adminVars, auction, response, minted, sequencer,
                   reserved, tokenVars, donations, outputVars>>
-----------------------------------------------------------------------------
(* The owner: set_pause, update_auction_parameters and the router endpoints.   *)
(* Who may send these, and when a proposal may be enacted, is left out here.   *)

ownerFrame == <<clockVars, auction, response, minted, sequenceVars, tokenVars,
                donations, outputVars>>

SetPause ==
    /\ paused' = ~paused
    /\ UNCHANGED <<ownerFrame, configId, endpoint>>

UpdateAuctionParameters ==
    /\ configId < LastConfig
    /\ configId' = configId + 1
    /\ UNCHANGED <<ownerFrame, paused, endpoint>>

DisableRouterEndpoint(c) ==
    /\ endpoint' = [endpoint EXCEPT ![c] = [protocol |-> "None", address |-> NoKey]]
    /\ UNCHANGED <<ownerFrame, paused, configId>>

UpdateCctpRouterEndpoint(c, domain, address) ==
    /\ c # SolanaChain
    /\ endpoint' = [endpoint EXCEPT ![c] =
                       [protocol |-> domain, address |-> address]]
    /\ UNCHANGED <<ownerFrame, paused, configId>>

UpdateLocalRouterEndpoint(address) ==
    /\ endpoint' = [endpoint EXCEPT ![SolanaChain] =
                       [protocol |-> "Local", address |-> address]]
    /\ UNCHANGED <<ownerFrame, paused, configId>>

OwnerStep ==
    /\ AdminSteps
    /\ \/ SetPause
       \/ UpdateAuctionParameters
       \/ \E c \in Chains : DisableRouterEndpoint(c)
       \/ \E c \in Chains, d \in Domains, r \in Addresses :
             UpdateCctpRouterEndpoint(c, d, r)
       \/ \E r \in Addresses : UpdateLocalRouterEndpoint(r)
-----------------------------------------------------------------------------
(* The world outside the program: the clock and the SPL token program. *)

environmentFrame == <<adminVars, auction, response, minted, sequenceVars,
                      outputVars>>

AdvanceSlot ==
    /\ slot < MaxSlot
    /\ slot' = slot + 1
    /\ UNCHANGED <<environmentFrame, now, tokenVars, donations>>

AdvanceTime ==
    /\ now < MaxTime
    /\ now' = now + 1
    /\ UNCHANGED <<environmentFrame, slot, tokenVars, donations>>

\* Circle freezes or thaws an account; an owner closes an empty one or opens it
\* again at the same address.
ChangeAccountState(a, s) ==
    /\ \/ accountState[a] = "Open" /\ s = "Frozen"
       \/ accountState[a] = "Frozen" /\ s = "Open"
       \/ accountState[a] = "Open" /\ s = "Closed" /\ balance[a] = 0
       \/ accountState[a] = "Closed" /\ s = "Open"
    /\ accountState' = [accountState EXCEPT ![a] = s]
    /\ UNCHANGED <<environmentFrame, clockVars, balance, custody, localCustody,
                   donations>>

\* Anyone may send USDC to a custody account of the program.
Donate(a, v) ==
    /\ donations < MaxDonations
    /\ Usable(a)
    /\ balance[a] >= 1
    /\ balance' = [balance EXCEPT ![a] = @ - 1]
    /\ donations' = donations + 1
    /\ \/ /\ auction[v].status = "Active"
          /\ custody' = [custody EXCEPT ![v] = @ + 1]
          /\ UNCHANGED <<response, localCustody>>
       \/ /\ response[v].exists
          /\ response' = [response EXCEPT ![v].custody = @ + 1]
          /\ UNCHANGED <<custody, localCustody>>
       \/ /\ localCustody' = [localCustody EXCEPT ![Order[v].source] = @ + 1]
          /\ UNCHANGED <<custody, response>>
    /\ UNCHANGED <<clockVars, adminVars, auction, minted, sequenceVars,
                   accountState, outputVars>>

EnvironmentStep ==
    \/ AdvanceSlot
    \/ AdvanceTime
    \/ \E a \in VolatileAccounts, s \in {"Open", "Frozen", "Closed"} :
          ChangeAccountState(a, s)
    \/ \E a \in Accounts, v \in Vaas : Donate(a, v)
-----------------------------------------------------------------------------
AuctionStep(v) ==
    \/ \E a \in Accounts, p \in 0 .. Order[v].maxFee :
          \/ PlaceInitialOfferCctp(v, a, p)
          \/ ImproveOffer(v, a, p)
    \/ \E e \in Accounts :
          \/ ExecuteFastOrderCctp(v, e)
          \/ ExecuteFastOrderLocal(v, e)
    \/ \E payer \in Payers :
          \/ \E b \in Accounts : PrepareOrderResponseCctp(v, payer, b)
          \/ ReserveFastFillSequenceActiveAuction(v, payer)
    \/ ReserveFastFillSequenceNoAuction(v)
    \/ SettleAuctionComplete(v)
    \/ SettleAuctionNoneCctp(v)
    \/ SettleAuctionNoneLocal(v)
    \/ CloseAuction(v)

FastFillStep(f) ==
    \/ CompleteFastFill(f)
    \/ CloseRedeemedFastFill(f)

Next ==
    \/ \E v \in Vaas : AuctionStep(v)
    \/ \E f \in fastFills : FastFillStep(f)
    \/ OwnerStep
    \/ EnvironmentStep

Spec == Init /\ [][Next]_vars

\* Every instruction is permissionless and pays whoever sends it (a share of the
\* fees, or the deposit back); the relayers of solver/ watch for exactly these
\* events and send them.  Offers and owner instructions are not owed by anyone.
Fairness ==
    /\ WF_vars(AdvanceSlot)
    /\ WF_vars(AdvanceTime)
    /\ \A v \in Vaas :
        /\ WF_vars(\E e \in Accounts : \/ ExecuteFastOrderCctp(v, e)
                                       \/ ExecuteFastOrderLocal(v, e))
        /\ WF_vars(\/ ReserveFastFillSequenceNoAuction(v)
                   \/ \E payer \in Payers :
                         ReserveFastFillSequenceActiveAuction(v, payer))
        /\ WF_vars(\E payer \in Payers, b \in Accounts :
                         PrepareOrderResponseCctp(v, payer, b))
        /\ WF_vars(\/ SettleAuctionComplete(v)
                   \/ SettleAuctionNoneCctp(v)
                   \/ SettleAuctionNoneLocal(v))
        /\ WF_vars(CloseAuction(v))

FairSpec == Spec /\ Fairness
-----------------------------------------------------------------------------
(* Safety *)

ClockTypeOK == slot \in 0 .. MaxSlot /\ now \in 0 .. MaxTime

CustodianTypeOK ==
    /\ paused \in BOOLEAN
    /\ configId \in 0 .. LastConfig
    /\ endpoint \in [Chains -> Endpoints]

AuctionTypeOK ==
    /\ auction \in [Vaas -> Auctions]
    /\ \A v \in Vaas : auction[v].status \in {"Active", "Completed"} =>
          auction[v].best \in Accounts /\ auction[v].initial \in Accounts

ResponseTypeOK ==
    /\ response \in [Vaas -> Responses]
    /\ \A v \in Vaas : response[v].exists => response[v].baseFeeToken \in Accounts
    /\ minted \in [Vaas -> BOOLEAN]

SequenceTypeOK ==
    /\ sequencer \in [Chains \X Senders -> Nat]
    /\ reserved \in [Vaas -> Reservations]
    /\ fastFills \subseteq FastFills

TokenTypeOK ==
    /\ accountState \in [Accounts -> {"Open", "Frozen", "Closed"}]
    /\ balance \in [Accounts -> Nat]
    /\ custody \in [Vaas -> Nat]
    /\ localCustody \in [Chains -> Nat]
    /\ donations \in 0 .. MaxDonations

OutputTypeOK ==
    /\ released \in Nat
    /\ fastFilled \in [Vaas -> Nat]
    /\ slowFilled \in [Vaas -> Nat]
    /\ delivered \in [Vaas -> Nat]

\* Type invariant: the contents of every account the program keeps.  An auction
\* that will pay its offers names their accounts, and a response names the
\* account of its base fee.
TypeOK ==
    /\ ClockTypeOK
    /\ CustodianTypeOK
    /\ AuctionTypeOK
    /\ ResponseTypeOK
    /\ SequenceTypeOK
    /\ TokenTypeOK
    /\ OutputTypeOK

\* An order is filled at most once, by an executed auction or by a settlement
\* without one, although its auction account can be closed and its address used
\* again ("init" in place_initial/cctp.rs and settle/none/cctp.rs).
FilledAtMostOnce ==
    \A v \in Vaas : fastFilled[v] + slowFilled[v] <= 1

\* Which fills the state of the auction account of an order allows.
FillsMatch(v) ==
    LET fills == fastFilled[v] + slowFilled[v]
    IN  /\ auction[v].status \in {"NotStarted", "Active"} => fills = 0
        /\ auction[v].status = "NotStarted" => response[v].exists
        /\ auction[v].status = "Completed"
              => fastFilled[v] = 1 /\ slowFilled[v] = 0
        /\ auction[v].status = "Settled"
              => fills = 1 /\ minted[v] /\ ~response[v].exists
        /\ auction[v].status = "Absent" /\ fills # 0
              => /\ fills = 1 /\ minted[v] /\ ~response[v].exists
                 /\ now >= ExpirationTime(v)
        /\ response[v].exists => minted[v]

\* What makes FilledAtMostOnce inductive: an order that still has an auction or a
\* placeholder is not filled, one that is executed or settled is filled once, and
\* the account of a filled order is only gone when neither a late offer nor a
\* second response can bring it back.
FillsMatchAuction == \A v \in Vaas : FillsMatch(v)

\* The custody account of an active auction holds the best offer's deposit,
\* whatever happened to the accounts of the participants who were outbid.
CustodyCoversDeposit ==
    \A v \in Vaas : auction[v].status = "Active" => custody[v] >= DepositOf(v)

\* No sequence of offers, frozen or closed accounts and gifts leaves an auction
\* that cannot be executed: whoever executes, at whatever slot, the transfers of
\* handle_execute_fast_order are covered and empty the custody account exactly,
\* so that close_account succeeds.
ExecutionAlwaysBalances ==
    \A v \in Vaas : auction[v].status = "Active" =>
        \A e \in Accounts : Balances(v, Execution(v, e, DepositPenalty(v)))

\* The user receives at least the amount in minus the fees it agreed to, on
\* every path (executed, late or not, or settled without an auction).
UserReceivesMinimum ==
    \A v \in Vaas :
        fastFilled[v] + slowFilled[v] > 0 =>
            delivered[v] >= Order[v].amountIn - Order[v].maxFee
                                - Order[v].initAuctionFee

\* The fast fills of a chain that the token router may still redeem.
Unredeemed(c) == {f \in fastFills : f.source = c /\ ~f.redeemed}

\* The local custody of a chain covers every fast fill that the token router may
\* still redeem from it.
LocalCustodySolvent ==
    \A c \in Chains :
        localCustody[c] >= SumFunction([f \in Unredeemed(c) |-> f.amount])

\* A reserved sequence is never the address of an existing fast fill nor reserved
\* for another order, so that "init" of the fast fill succeeds.
ReservedSequencesAreFree ==
    \A v \in Vaas : reserved[v].exists =>
        /\ FastFillAddressFree(v)
        /\ \A w \in Vaas \ {v} :
              /\ reserved[w].exists
              /\ Order[w].source = Order[v].source
              /\ Order[w].sender = Order[v].sender
              => reserved[w].sequence # reserved[v].sequence

\* A placeholder auction can be settled: the response it was made from and the
\* sequence reserved with it are there and name the same preparer.  (No offer can
\* be placed on a placeholder, so this is the order's only way out.)
PlaceholderCanSettle ==
    \A v \in Vaas : auction[v].status = "NotStarted" =>
        /\ response[v].exists /\ reserved[v].exists
        /\ response[v].preparedBy = reserved[v].beneficiary
        /\ SettleNoneFee(v) <= response[v].custody

\* The USDC of the prepared order responses, and of the CCTP transfers received.
Prepared == [v \in Vaas |-> response[v].custody]
Arrived == [v \in Vaas |-> IF minted[v] THEN Order[v].amountIn ELSE 0]

\* All the USDC of the participants and of the program, and what left it.
UsdcHeld ==
    SumFunction(balance) + SumFunction(custody) + SumFunction(localCustody)
        + SumFunction(Prepared) + released

\* USDC is neither created nor lost by any instruction.
UsdcConserved == UsdcHeld = SumFunction(InitialBalance) + SumFunction(Arrived)
-----------------------------------------------------------------------------
(* What a step may never do *)

Executes(v) == auction[v].status = "Active" /\ auction'[v].status = "Completed"

\* What the best offer may forfeit: nothing up to the end of the grace period,
\* then what compute_deposit_penalty says.
GraceEnd(v) ==
    GracePeriodEndSlot(ConfigOf(v), auction[v].startSlot,
                       AdditionalGracePeriod(v))

\* Whoever executes the order, a best offer whose account can receive it gets its
\* security deposit and its price back in full up to the end of the grace period,
\* and never less than the price afterwards.
BestOfferIsReimbursed ==
    [][\A v \in Vaas :
          LET a == auction[v]
          IN  Executes(v) /\ Usable(a.best) =>
                balance'[a.best] >= balance[a.best] + a.offerPrice
                    + (IF slot <= GraceEnd(v) THEN a.securityDeposit ELSE 0)]_vars

-----------------------------------------------------------------------------
(* Refinement *)

\* Where the order's own money is: the CCTP transfer of the finalized VAA is
\* received when the response is prepared and leaves with it.
FundsOf(v) ==
    IF response[v].exists THEN "engine"
    ELSE IF minted[v] THEN "spent" ELSE "source"

Funds == [v \in Vaas |-> FundsOf(v)]

\* What the user of an order agreed to receive at least.
LeastAmounts ==
    [v \in Vaas |-> Order[v].amountIn - Order[v].maxFee - Order[v].initAuctionFee]

Lifecycle ==
    INSTANCE OrderLifecycle
    WITH Orders    <- Vaas,
         MinAmount <- LeastAmounts,
         fast      <- fastFilled,
         slow      <- slowFilled,
         paid      <- delivered,
         funds     <- Funds

\* The matching engine keeps the promise of OrderLifecycle: one fill per order of
\* at least the agreed amount, and the finalized money spent once, after it came.
ImplementsLifecycle == Lifecycle!Spec
-----------------------------------------------------------------------------
(* Liveness *)

\* An active auction is executed, even if the accounts of its offers are frozen
\* or closed at any moment.
ActiveIsExecuted ==
    \A v \in Vaas : auction[v].status = "Active" ~> fastFilled[v] = 1

\* Every order is filled.
OrderIsFilled ==
    \A v \in Vaas : <>(fastFilled[v] + slowFilled[v] = 1)

\* An executed order is repaid from the finalized transfer, and its accounts are
\* closed in the end.
AccountsAreClosed ==
    \A v \in Vaas : <>[](/\ auction[v].status = "Absent"
                         /\ ~response[v].exists /\ ~reserved[v].exists)
=============================================================================
