----------------------- MODULE MatchingEngineProofs -----------------------
(***************************************************************************)
(* Proofs about the Solana matching engine for every set of orders,        *)
(* accounts, configurations and clock values.                              *)
(*                                                                         *)
(* What the auction arithmetic guarantees, the types, one fill per order   *)
(* and the sequences of fast fills come first. Then the money of an order: *)
(* it is there when it is needed and goes where it was promised, an active *)
(* auction holds its deposit and can always be executed, a placeholder can *)
(* be settled, the user and the best offer get what they are due, and the  *)
(* engine implements OrderLifecycle. The totals come last: the local       *)
(* custody of a chain covers the fast fills that are paid from it, and no  *)
(* instruction creates or loses USDC. They rest on what an invariant about *)
(* a total needs to know of SumFunctionOnSet, the sum over a finite set of *)
(* the community modules.                                                  *)
(***************************************************************************)
EXTENDS MatchingEngine, FiniteSetTheorems, WellFoundedInduction, TLAPS
-----------------------------------------------------------------------------
(* The auction arithmetic, for every u64 input.                            *)

\* a * b / m does not exceed a when b <= m: the fact behind every "downcast is
\* safe" note of utils/auction.rs.
LEMMA DivBound ==
    ASSUME NEW a \in Nat, NEW b \in Nat, NEW m \in Nat \ {0}, b <= m
    PROVE  /\ (a * b) \div m \in Nat
           /\ (a * b) \div m <= a
<1> DEFINE q == (a * b) \div m
<1>1. a * b \in Nat
  OBVIOUS
<1>2. q \in Nat /\ q * m <= a * b
  BY <1>1
<1>3. a * b <= a * m
  OBVIOUS
<1>4. q * m <= a * m
  BY <1>1, <1>2, <1>3
<1>5. ~(q > a)
  <2>1. SUFFICES ASSUME q >= a + 1 PROVE FALSE
    BY <1>2
  <2>2. q * m >= (a + 1) * m
    BY <2>1, <1>2
  <2>3. (a + 1) * m = a * m + m
    OBVIOUS
  <2>. QED BY <2>2, <2>3, <1>4, <1>2
<1>. QED BY <1>2, <1>5

LEMMA CastIdentity ==
    ASSUME NEW a \in U64
    PROVE  CastToU64(a) = a
BY LimitsAssumption DEF CastToU64, U64

\* mul_bps_unsafe never returns more than its amount, so its cast loses nothing.
LEMMA MulBpsBound ==
    ASSUME NEW amount \in U64, NEW bps \in 0 .. FEE_PRECISION_MAX
    PROVE  MulBps(amount, bps) \in 0 .. amount
<1> DEFINE q == (amount * bps) \div FEE_PRECISION_MAX
<1>1. q \in Nat /\ q <= amount
  BY DivBound, LimitsAssumption DEF U64
<1>2. q \in U64
  BY <1>1, LimitsAssumption DEF U64
<1>. HIDE DEF q
<1>3. CastToU64(q) = q
  BY <1>2, CastIdentity
<1>. QED BY <1>1, <1>3 DEF MulBps, q

\* compute_min_allowed_offer never exceeds the price on the table: an offer below
\* it is an improvement.
LEMMA MinAllowedOfferBound ==
    ASSUME NEW params \in AuctionParameters, NEW offerPrice \in U64
    PROVE  ComputeMinAllowedOffer(params, offerPrice) \in 0 .. offerPrice
<1>1. MulBps(offerPrice, params.minOfferDeltaBps) \in 0 .. offerPrice
  BY MulBpsBound DEF AuctionParameters
<1>. QED BY <1>1 DEF ComputeMinAllowedOffer, SaturatingSub, U64

\* split_user_penalty_reward loses and creates nothing.
LEMMA SplitIsExact ==
    ASSUME NEW params \in AuctionParameters, NEW amount \in U64
    PROVE  LET s == SplitUserPenaltyReward(params, amount)
           IN  /\ s.penalty \in 0 .. amount
               /\ s.userReward \in 0 .. amount
               /\ s.penalty + s.userReward = amount
<1> DEFINE r == MulBps(amount, params.userPenaltyRewardBps)
<1>1. r \in 0 .. amount
  BY MulBpsBound DEF AuctionParameters
<1>2. amount \in Nat
  BY LimitsAssumption DEF U64
<1>3. SplitUserPenaltyReward(params, amount)
        = [penalty |-> SaturatingSub(amount, r), userReward |-> r]
  BY DEF SplitUserPenaltyReward
<1>. HIDE DEF r
<1>4. SaturatingSub(amount, r) = amount - r
  BY <1>1, <1>2 DEF SaturatingSub
<1>. QED BY <1>1, <1>2, <1>3, <1>4

\* Inside the penalty period no more than the deposit is forfeited, so neither the
\* cast nor the saturating addition changes the value.
LEMMA ScaledForfeitBound ==
    ASSUME NEW params \in AuctionParameters, NEW deposit \in U64,
           NEW lateSlots \in 0 .. params.penaltyPeriod
    PROVE  ScaledForfeit(params, deposit, lateSlots) \in 0 .. deposit
<1> DEFINE base == MulBps(deposit, params.initialPenaltyBps)
           rest == SaturatingSub(deposit, base)
           scaled == (rest * lateSlots) \div params.penaltyPeriod
<1>1. base \in 0 .. deposit
  BY MulBpsBound DEF AuctionParameters
<1>2. deposit \in Nat /\ deposit <= U64_MAX
  BY LimitsAssumption DEF U64
<1>. HIDE DEF base
<1>3. rest = deposit - base /\ rest \in Nat
  BY <1>1, <1>2 DEF SaturatingSub
<1>. HIDE DEF rest
<1>4. params.penaltyPeriod \in Nat \ {0} /\ lateSlots \in Nat
      /\ lateSlots <= params.penaltyPeriod
  BY LimitsAssumption DEF AuctionParameters, U64
<1>5. scaled \in Nat /\ scaled <= rest
  BY <1>3, <1>4, DivBound
<1>. HIDE DEF scaled
<1>6. scaled \in U64
  BY <1>1, <1>2, <1>3, <1>5, LimitsAssumption DEF U64
<1>7. CastToU64(scaled) = scaled
  BY <1>6, CastIdentity
<1>8. ScaledForfeit(params, deposit, lateSlots)
        = SaturatingAdd(base, CastToU64(scaled))
  BY DEF ScaledForfeit, base, rest, scaled
<1>9. SaturatingAdd(base, scaled) = base + scaled
  BY <1>1, <1>2, <1>3, <1>5, LimitsAssumption DEF SaturatingAdd
<1>. QED BY <1>1, <1>2, <1>3, <1>5, <1>7, <1>8, <1>9

\* compute_deposit_penalty: what the executor and the user take from a security
\* deposit never exceeds it, for every slot and every valid configuration.
THEOREM PenaltyWithinDeposit ==
    ASSUME NEW params \in AuctionParameters, NEW startSlot \in U64,
           NEW deposit \in U64, NEW current \in U64, NEW additional \in U64
    PROVE  LET d == ComputeDepositPenalty(params, startSlot, deposit, current,
                                          additional)
           IN  /\ d.penalty \in Nat
               /\ d.userReward \in Nat
               /\ d.penalty + d.userReward <= deposit
<1> DEFINE grace == GracePeriodEndSlot(params, startSlot, additional)
           end == PenaltyPeriodEndSlot(params, startSlot, additional)
           d == ComputeDepositPenalty(params, startSlot, deposit, current, additional)
           late == SaturatingSub(current, grace)
<1>0. deposit \in Nat /\ deposit <= U64_MAX /\ current \in Nat
      /\ params.penaltyPeriod \in Nat
  BY LimitsAssumption DEF U64, AuctionParameters
<1>1. CASE current <= grace
  BY <1>0, <1>1 DEF ComputeDepositPenalty, WithinGracePeriod, NoDepositPenalty
<1>2. CASE /\ ~(current <= grace)
           /\ current >= end \/ params.initialPenaltyBps = FEE_PRECISION_MAX
  <2>1. d = SplitUserPenaltyReward(params, deposit)
    BY <1>2 DEF ComputeDepositPenalty, WithinGracePeriod
  <2>. QED BY <2>1, <1>0, SplitIsExact
<1>3. CASE /\ ~(current <= grace)
           /\ ~(current >= end)
           /\ params.initialPenaltyBps # FEE_PRECISION_MAX
  <2>1. d = SplitUserPenaltyReward(params, ScaledForfeit(params, deposit, late))
    BY <1>3 DEF ComputeDepositPenalty, WithinGracePeriod
  <2>2. grace \in Nat
    BY LimitsAssumption
    DEF GracePeriodEndSlot, AuctionEndSlot, SaturatingAdd, U64, AuctionParameters
  <2>3. end <= grace + params.penaltyPeriod /\ end \in Nat
    <3>. HIDE DEF grace
    <3>1. end = SaturatingAdd(grace, params.penaltyPeriod)
      BY DEF PenaltyPeriodEndSlot, grace
    <3>. QED BY <3>1, <2>2, <1>0, LimitsAssumption DEF SaturatingAdd
  <2>4. late \in 0 .. params.penaltyPeriod
    <3>. HIDE DEF grace, end
    <3>. QED BY <1>0, <1>3, <2>2, <2>3 DEF SaturatingSub
  <2>. HIDE DEF late, d
  <2>5. ScaledForfeit(params, deposit, late) \in 0 .. deposit
    BY <2>4, ScaledForfeitBound
  <2>6. ScaledForfeit(params, deposit, late) \in U64
    BY <2>5, <1>0, LimitsAssumption DEF U64
  <2>7. /\ d.penalty \in Nat
        /\ d.userReward \in Nat
        /\ d.penalty + d.userReward = ScaledForfeit(params, deposit, late)
    BY <2>1, <2>5, <2>6, <1>0, SplitIsExact
  <2>. QED BY <2>5, <2>7, <1>0 DEF d
<1>. QED BY <1>1, <1>2, <1>3
-----------------------------------------------------------------------------
\* The arithmetic of an order: its parts are u64 amounts.
LEMMA OrderFacts ==
    ASSUME NEW v \in Vaas
    PROVE  /\ Order[v] \in Orders
           /\ Order[v].amountIn \in U64
           /\ Order[v].maxFee \in U64
           /\ Order[v].initAuctionFee \in U64
           /\ Order[v].baseFee \in U64
           /\ Order[v].amountIn > Order[v].maxFee + Order[v].initAuctionFee
           /\ Order[v].baseFee < Order[v].maxFee
BY OrderAssumption, LimitsAssumption DEF Orders, U64

LEMMA SaturatingTypes ==
    ASSUME NEW a \in Nat, NEW b \in Nat
    PROVE  /\ SaturatingAdd(a, b) \in U64
           /\ SaturatingSub(a, b) \in Nat
           /\ SaturatingSub(a, b) <= a
BY LimitsAssumption DEF SaturatingAdd, SaturatingSub, U64

\* Init establishes the type invariant.
LEMMA InitTypeOK == Init => TypeOK
<1> SUFFICES ASSUME Init PROVE TypeOK
  OBVIOUS
<1> USE ConstantsAssumption, LimitsAssumption
<1>1. NoAuction \in Auctions
  BY DEF NoAuction, Auctions, AuctionStatus, Protocols, U64
<1>2. NoResponse \in Responses
  BY DEF NoResponse, Responses, Protocols
<1>3. NoReservation \in Reservations
  BY DEF NoReservation, Reservations
<1>4. ClockTypeOK
  BY DEF Init, ClockTypeOK, U64
<1>5. CustodianTypeOK
  <2>1. paused \in BOOLEAN
    BY Zenon DEF Init
  <2>2. configId \in 0 .. LastConfig /\ endpoint \in [Chains -> Endpoints]
    BY DEF Init
  <2>. QED BY <2>1, <2>2, Zenon DEF CustodianTypeOK
<1>6. AuctionTypeOK
  BY <1>1 DEF Init, AuctionTypeOK, NoAuction
<1>7. ResponseTypeOK
  BY <1>2 DEF Init, ResponseTypeOK, NoResponse
<1>8. SequenceTypeOK
  BY <1>3 DEF Init, SequenceTypeOK
<1>9. TokenTypeOK
  BY DEF Init, TokenTypeOK
<1>10. OutputTypeOK
  BY DEF Init, OutputTypeOK
<1>. QED
  BY <1>4, <1>5, <1>6, <1>7, <1>8, <1>9, <1>10 DEF TypeOK

-----------------------------------------------------------------------------
(* What an action leaves alone keeps its type. *)

LEMMA SameClock == ClockTypeOK /\ UNCHANGED clockVars => ClockTypeOK'
BY DEF ClockTypeOK, clockVars

LEMMA SameCustodian == CustodianTypeOK /\ UNCHANGED adminVars => CustodianTypeOK'
BY Zenon DEF CustodianTypeOK, adminVars

LEMMA SameAuctions == AuctionTypeOK /\ UNCHANGED auction => AuctionTypeOK'
BY DEF AuctionTypeOK

LEMMA SameResponses ==
    ResponseTypeOK /\ UNCHANGED <<response, minted>> => ResponseTypeOK'
BY DEF ResponseTypeOK

LEMMA SameSequences == SequenceTypeOK /\ UNCHANGED sequenceVars => SequenceTypeOK'
BY DEF SequenceTypeOK, sequenceVars

LEMMA SameTokens ==
    TokenTypeOK /\ UNCHANGED <<tokenVars, donations>> => TokenTypeOK'
BY DEF TokenTypeOK, tokenVars

LEMMA SameOutputs == OutputTypeOK /\ UNCHANGED outputVars => OutputTypeOK'
BY DEF OutputTypeOK, outputVars

-----------------------------------------------------------------------------
(* Offers *)

LEMMA DepositType ==
    ASSUME NEW i \in 0 .. LastConfig, NEW amount \in U64
    PROVE  ComputeNotionalSecurityDeposit(Config[i], amount) \in U64
<1>1. Config[i] \in AuctionParameters
  BY ConstantsAssumption
<1>2. MulBps(amount, Config[i].securityDepositBps) \in Nat
  BY <1>1, MulBpsBound DEF AuctionParameters
<1>3. Config[i].securityDepositBase \in Nat
  BY <1>1, LimitsAssumption DEF AuctionParameters, U64
<1>. QED BY <1>2, <1>3, SaturatingTypes DEF ComputeNotionalSecurityDeposit

LEMMA PlaceInitialOfferType ==
    ASSUME TypeOK, NEW v \in Vaas, NEW a \in Accounts,
           NEW p \in 0 .. Order[v].maxFee, PlaceInitialOfferCctp(v, a, p)
    PROVE  TypeOK'
<1> DEFINE deposit == SaturatingAdd(Order[v].maxFee,
                         ComputeNotionalSecurityDeposit(Config[configId],
                                                        Order[v].amountIn))
           total == Order[v].amountIn + deposit
<1>1. deposit \in U64
  <2>1. ComputeNotionalSecurityDeposit(Config[configId], Order[v].amountIn) \in Nat
    BY DepositType, OrderFacts, LimitsAssumption DEF TypeOK, CustodianTypeOK, U64
  <2>2. Order[v].maxFee \in Nat
    BY OrderFacts DEF Orders
  <2>. QED BY <2>1, <2>2, SaturatingTypes
<1>. HIDE DEF deposit
<1>2. total \in Nat
  BY <1>1, OrderFacts, LimitsAssumption DEF U64
<1>3. AuctionTypeOK'
  <2>1. endpoint[Order[v].target].protocol \in Protocols
    BY OrderFacts DEF TypeOK, CustodianTypeOK, Endpoints, Orders
  <2>2. slot \in U64 /\ p \in U64
    BY OrderFacts, ConstantsAssumption, LimitsAssumption
    DEF TypeOK, ClockTypeOK, U64, PlaceInitialOfferCctp
  <2>3. configId \in 0 .. LastConfig
    BY DEF TypeOK, CustodianTypeOK
  <2>. DEFINE new == [status |-> "Active",
                      target |-> endpoint[Order[v].target].protocol,
                      config |-> configId, best |-> a, initial |-> a,
                      startSlot |-> slot, securityDeposit |-> deposit,
                      offerPrice |-> p, penalty |-> 0]
  <2>4. new \in Auctions
    BY <1>1, <2>1, <2>2, <2>3 DEF Auctions, AuctionStatus
  <2>5. auction' = [auction EXCEPT ![v] = new]
    BY DEF PlaceInitialOfferCctp, deposit
  <2>. QED BY <2>4, <2>5 DEF TypeOK, AuctionTypeOK
<1>4. TokenTypeOK'
  <2>1. balance' = [balance EXCEPT ![a] = @ - total] /\ balance[a] >= total
    BY DEF PlaceInitialOfferCctp, CanPay, deposit
  <2>2. custody' = [custody EXCEPT ![v] = total]
    BY DEF PlaceInitialOfferCctp, deposit
  <2>3. UNCHANGED <<accountState, localCustody, donations>>
    BY DEF PlaceInitialOfferCctp
  <2>. HIDE DEF total
  <2>. QED BY <1>2, <2>1, <2>2, <2>3 DEF TypeOK, TokenTypeOK
<1>5. UNCHANGED <<clockVars, adminVars, response, minted, sequenceVars, outputVars>>
  BY DEF PlaceInitialOfferCctp
<1>. QED BY <1>3, <1>4, <1>5, SameClock, SameCustodian, SameResponses,
            SameSequences, SameOutputs, Zenon DEF TypeOK

\* The deposit behind an auction's offers is a u64 amount.
LEMMA DepositOfType ==
    ASSUME TypeOK, NEW v \in Vaas
    PROVE  DepositOf(v) \in U64
BY OrderFacts, SaturatingTypes, LimitsAssumption
DEF TypeOK, AuctionTypeOK, Auctions, DepositOf, TotalDeposit, U64

LEMMA ImproveOfferType ==
    ASSUME TypeOK, NEW v \in Vaas, NEW a \in Accounts,
           NEW p \in 0 .. Order[v].maxFee, ImproveOffer(v, a, p)
    PROVE  TypeOK'
<1> DEFINE best == auction[v].best
           total == DepositOf(v)
           refund == Refund(v)
<1>1. total \in Nat /\ refund \in Nat
  BY DepositOfType, LimitsAssumption DEF Refund, U64
<1>. HIDE DEF total, refund
<1>2. best \in Accounts
  BY DEF TypeOK, AuctionTypeOK, ImproveOffer
<1>3. AuctionTypeOK'
  <2>1. p \in U64
    BY OrderFacts, LimitsAssumption DEF U64
  <2>2. Improved(v, a, p) \in Auctions
    BY <2>1 DEF TypeOK, AuctionTypeOK, Improved, Auctions
  <2>3. auction' = [auction EXCEPT ![v] = Improved(v, a, p)]
    BY DEF ImproveOffer
  <2>4. Improved(v, a, p).best \in Accounts /\ Improved(v, a, p).initial \in Accounts
    BY DEF TypeOK, AuctionTypeOK, Improved, Auctions, ImproveOffer
  <2>. QED BY <2>2, <2>3, <2>4 DEF TypeOK, AuctionTypeOK
<1>4. TokenTypeOK'
  <2>1. UNCHANGED <<accountState, localCustody, donations>>
    BY DEF ImproveOffer
  <2>2. CASE a = best
    <3>1. UNCHANGED <<balance, custody>>
      BY <2>2 DEF ImproveOffer
    <3>. QED BY <2>1, <3>1 DEF TypeOK, TokenTypeOK
  <2>3. CASE a # best
    <3>1. /\ balance' = [balance EXCEPT ![best] = @ + refund, ![a] = @ - total]
          /\ balance[a] >= total
          /\ custody' = [custody EXCEPT ![v] = @ - refund + total]
          /\ refund <= custody[v]
      BY <2>3 DEF ImproveOffer, OfferDeposit, CanPay, total, refund
    <3>. HIDE DEF best
    <3>. QED BY <1>1, <1>2, <2>1, <2>3, <3>1 DEF TypeOK, TokenTypeOK
  <2>. QED BY <2>2, <2>3
<1>5. UNCHANGED <<clockVars, adminVars, response, minted, sequenceVars, outputVars>>
  BY DEF ImproveOffer
<1>. QED BY <1>3, <1>4, <1>5, SameClock, SameCustodian, SameResponses,
            SameSequences, SameOutputs, Zenon DEF TypeOK

-----------------------------------------------------------------------------
(* Execution *)

\* The penalty and the reward of an execution fit in the security deposit.
LEMMA DepositPenaltyFacts ==
    ASSUME TypeOK, NEW v \in Vaas
    PROVE  /\ DepositPenalty(v).penalty \in Nat
           /\ DepositPenalty(v).userReward \in Nat
           /\ DepositPenalty(v).penalty + DepositPenalty(v).userReward
                <= auction[v].securityDeposit
<1>1. ConfigOf(v) \in AuctionParameters
  BY ConstantsAssumption DEF TypeOK, AuctionTypeOK, Auctions, ConfigOf
<1>2. auction[v].startSlot \in U64 /\ auction[v].securityDeposit \in U64
  BY DEF TypeOK, AuctionTypeOK, Auctions
<1>3. slot \in U64
  BY ConstantsAssumption, LimitsAssumption DEF TypeOK, ClockTypeOK, U64
<1>4. AdditionalGracePeriod(v) \in U64
  BY ConstantsAssumption, LimitsAssumption DEF AdditionalGracePeriod, U64
<1>. QED BY <1>1, <1>2, <1>3, <1>4, PenaltyWithinDeposit DEF DepositPenalty

\* The amounts of an execution are natural numbers.
LEMMA ExecutionTypes ==
    ASSUME TypeOK, NEW v \in Vaas, NEW e \in Accounts
    PROVE  LET x == Execution(v, e, DepositPenalty(v))
           IN  /\ x.userAmount \in Nat
               /\ x.penalty \in Nat
               /\ x.initialPaid \in Nat
               /\ x.bestPaid \in Nat
               /\ x.executorPaid \in Nat
<1> DEFINE d == DepositPenalty(v)
<1>1. d.penalty \in Nat /\ d.userReward \in Nat
  BY DepositPenaltyFacts
<1>. HIDE DEF d
<1>2. /\ auction[v].offerPrice \in Nat
      /\ auction[v].securityDeposit \in Nat
      /\ custody[v] \in Nat
  BY LimitsAssumption DEF TypeOK, AuctionTypeOK, Auctions, TokenTypeOK, U64
<1>3. /\ Order[v].amountIn \in Nat
      /\ Order[v].initAuctionFee \in Nat
  BY OrderFacts DEF Orders
<1>4. UserAmount(v, d) \in Nat
  BY <1>1, <1>2, <1>3, LimitsAssumption
  DEF UserAmount, SaturatingSub, SaturatingAdd
<1>5. InitialPaid(v) \in Nat
  BY <1>3 DEF InitialPaid
<1>6. RemainingCustodied(v, d) \in Nat
  BY <1>2, <1>4, <1>5, SaturatingTypes DEF RemainingCustodied
<1>7. DepositAndFee(v, e, d) \in Nat
  BY <1>1, <1>2, <1>3, LimitsAssumption
  DEF DepositAndFee, SaturatingSub, SaturatingAdd
<1>8. BestPaid(v, e, d) \in Nat
  BY <1>6, <1>7 DEF BestPaid
<1>9. ExecutorPaid(v, e, d) \in Nat
  BY <1>6, <1>8, SaturatingTypes DEF ExecutorPaid
<1>. QED BY <1>1, <1>4, <1>5, <1>8, <1>9 DEF Execution, d

\* Crediting natural amounts keeps every balance natural.
LEMMA CreditType ==
    ASSUME TypeOK, NEW f \in [Accounts -> Nat], Credit(f)
    PROVE  balance' \in [Accounts -> Nat]
BY DEF TypeOK, TokenTypeOK, Credit

\* What both kinds of execution do to the auctions, the tokens and the outputs.
LEMMA HandleExecuteType ==
    ASSUME TypeOK, NEW v \in Vaas, NEW e \in Accounts,
           auction[v].status = "Active",
           HandleExecuteFastOrder(v, e, Execution(v, e, DepositPenalty(v)))
    PROVE  /\ AuctionTypeOK'
           /\ balance' \in [Accounts -> Nat]
           /\ custody' \in [Vaas -> Nat]
           /\ fastFilled' \in [Vaas -> Nat]
           /\ delivered' \in [Vaas -> Nat]
<1> DEFINE x == Execution(v, e, DepositPenalty(v))
           f == [a \in Accounts |->
                   (IF a = auction[v].initial THEN x.initialPaid ELSE 0)
                     + (IF a = auction[v].best THEN x.bestPaid ELSE 0)
                     + (IF a = e THEN x.executorPaid ELSE 0)]
<1>1. /\ x.userAmount \in Nat /\ x.penalty \in Nat /\ x.initialPaid \in Nat
      /\ x.bestPaid \in Nat /\ x.executorPaid \in Nat
  BY ExecutionTypes
<1>2. /\ Credit(f)
      /\ custody' = [custody EXCEPT ![v] = 0]
      /\ auction' = [auction EXCEPT ![v].status = "Completed",
                                    ![v].penalty = x.penalty]
      /\ fastFilled' = [fastFilled EXCEPT ![v] = @ + 1]
      /\ delivered' = [delivered EXCEPT ![v] = @ + x.userAmount]
  BY DEF HandleExecuteFastOrder
<1>. HIDE DEF x
<1>3. f \in [Accounts -> Nat]
  BY <1>1
<1>. HIDE DEF f
<1>4. balance' \in [Accounts -> Nat]
  BY <1>2, <1>3, CreditType
<1>5. AuctionTypeOK'
  <2>1. auction[v].best \in Accounts /\ auction[v].initial \in Accounts
    BY DEF TypeOK, AuctionTypeOK
  <2>2. [auction[v] EXCEPT !.status = "Completed", !.penalty = x.penalty] \in Auctions
    BY <1>1 DEF TypeOK, AuctionTypeOK, Auctions, AuctionStatus
  <2>3. auction' = [auction EXCEPT ![v] =
           [auction[v] EXCEPT !.status = "Completed", !.penalty = x.penalty]]
    BY <1>2 DEF TypeOK, AuctionTypeOK
  <2>. QED BY <2>1, <2>2, <2>3 DEF TypeOK, AuctionTypeOK, Auctions
<1>. QED BY <1>1, <1>2, <1>4, <1>5 DEF TypeOK, TokenTypeOK, OutputTypeOK

LEMMA ExecuteCctpType ==
    ASSUME TypeOK, NEW v \in Vaas, NEW e \in Accounts, ExecuteFastOrderCctp(v, e)
    PROVE  TypeOK'
<1> DEFINE x == Execution(v, e, DepositPenalty(v))
<1>1. auction[v].status = "Active" /\ HandleExecuteFastOrder(v, e, x)
  BY DEF ExecuteFastOrderCctp
<1>2. x.userAmount \in Nat
  BY ExecutionTypes
<1>3. released' = released + x.userAmount
  BY DEF ExecuteFastOrderCctp
<1>. HIDE DEF x
<1>4. UNCHANGED <<clockVars, adminVars, response, minted, sequenceVars,
                  accountState, localCustody, donations, slowFilled>>
  BY DEF ExecuteFastOrderCctp
<1>5. /\ AuctionTypeOK'
      /\ balance' \in [Accounts -> Nat] /\ custody' \in [Vaas -> Nat]
      /\ fastFilled' \in [Vaas -> Nat] /\ delivered' \in [Vaas -> Nat]
  BY <1>1, HandleExecuteType DEF x
<1>6. TokenTypeOK'
  BY <1>4, <1>5 DEF TypeOK, TokenTypeOK
<1>7. OutputTypeOK'
  BY <1>2, <1>3, <1>4, <1>5 DEF TypeOK, OutputTypeOK
<1>. QED BY <1>4, <1>5, <1>6, <1>7, SameClock, SameCustodian, SameResponses,
            SameSequences, Zenon DEF TypeOK

\* A fast fill of a natural amount keeps the fast fills and the local custody
\* well typed.
LEMMA SendLocalFillType ==
    ASSUME TypeOK, NEW v \in Vaas, NEW amount \in Nat,
           SendLocalFill(v, amount), UNCHANGED sequencer
    PROVE  SequenceTypeOK' /\ localCustody' \in [Chains -> Nat]
<1>1. Order[v].source \in Chains /\ Order[v].sender \in Senders
  BY OrderFacts DEF Orders
<1>2. NoReservation \in Reservations
  BY DEF NoReservation, Reservations
<1>3. localCustody' \in [Chains -> Nat]
  BY <1>1 DEF TypeOK, TokenTypeOK, SendLocalFill
<1>4. reserved' \in [Vaas -> Reservations]
  BY <1>2 DEF TypeOK, SequenceTypeOK, SendLocalFill
<1>5. reserved[v].sequence \in Nat
  BY DEF TypeOK, SequenceTypeOK, Reservations
<1>6. fastFills' \subseteq FastFills
  <2>. DEFINE new == [source |-> Order[v].source, sender |-> Order[v].sender,
                      sequence |-> reserved[v].sequence, amount |-> amount,
                      redeemed |-> FALSE]
  <2>1. FALSE \in BOOLEAN
    OBVIOUS
  <2>2. new \in FastFills
    BY <1>1, <1>5, <2>1, Zenon DEF FastFills
  <2>3. fastFills' = fastFills \cup {new}
    BY DEF SendLocalFill
  <2>. HIDE DEF new
  <2>. QED BY <2>2, <2>3 DEF TypeOK, SequenceTypeOK
<1>. QED BY <1>3, <1>4, <1>6 DEF TypeOK, SequenceTypeOK

LEMMA ExecuteLocalType ==
    ASSUME TypeOK, NEW v \in Vaas, NEW e \in Accounts, ExecuteFastOrderLocal(v, e)
    PROVE  TypeOK'
<1> DEFINE x == Execution(v, e, DepositPenalty(v))
<1>1. auction[v].status = "Active" /\ HandleExecuteFastOrder(v, e, x)
  BY DEF ExecuteFastOrderLocal
<1>2. x.userAmount \in Nat
  BY ExecutionTypes
<1>3. SendLocalFill(v, x.userAmount)
  BY DEF ExecuteFastOrderLocal
<1>. HIDE DEF x
<1>4. UNCHANGED <<clockVars, adminVars, response, minted, sequencer,
                  accountState, donations, released, slowFilled>>
  BY DEF ExecuteFastOrderLocal
<1>5. /\ AuctionTypeOK'
      /\ balance' \in [Accounts -> Nat] /\ custody' \in [Vaas -> Nat]
      /\ fastFilled' \in [Vaas -> Nat] /\ delivered' \in [Vaas -> Nat]
  BY <1>1, HandleExecuteType DEF x
<1>6. SequenceTypeOK' /\ localCustody' \in [Chains -> Nat]
  BY <1>2, <1>3, <1>4, SendLocalFillType
<1>7. TokenTypeOK'
  BY <1>4, <1>5, <1>6 DEF TypeOK, TokenTypeOK
<1>8. OutputTypeOK'
  BY <1>4, <1>5 DEF TypeOK, OutputTypeOK
<1>. QED BY <1>4, <1>5, <1>6, <1>7, <1>8, SameClock, SameCustodian,
            SameResponses, Zenon DEF TypeOK

-----------------------------------------------------------------------------
(* Settlement *)

LEMMA PrepareOrderResponseType ==
    ASSUME TypeOK, NEW v \in Vaas, NEW payer \in Payers, NEW b \in Accounts,
           PrepareOrderResponseCctp(v, payer, b)
    PROVE  TypeOK'
<1>1. ResponseTypeOK'
  <2>. DEFINE new == [exists |-> TRUE, preparedBy |-> payer, baseFeeToken |-> b,
                      target |-> endpoint[Order[v].target].protocol,
                      custody |-> Order[v].amountIn]
  <2>1. endpoint[Order[v].target].protocol \in Protocols
    BY OrderFacts DEF TypeOK, CustodianTypeOK, Endpoints, Orders
  <2>2. Order[v].amountIn \in Nat
    BY OrderFacts DEF Orders
  <2>3. new \in Responses /\ new.baseFeeToken = b
    BY <2>1, <2>2, Zenon DEF Responses
  <2>4. /\ response' = [response EXCEPT ![v] = new]
        /\ minted' = [minted EXCEPT ![v] = TRUE]
    BY DEF PrepareOrderResponseCctp
  <2>. HIDE DEF new
  <2>5. minted' \in [Vaas -> BOOLEAN]
    BY <2>4 DEF TypeOK, ResponseTypeOK
  <2>. QED BY <2>3, <2>4, <2>5 DEF TypeOK, ResponseTypeOK
<1>2. UNCHANGED <<clockVars, adminVars, auction, sequenceVars, tokenVars,
                  donations, outputVars>>
  BY DEF PrepareOrderResponseCctp
<1>. QED BY <1>1, <1>2, SameClock, SameCustodian, SameAuctions, SameSequences,
            SameTokens, SameOutputs, Zenon DEF TypeOK

\* A response that was spent is gone.
LEMMA NoResponseType ==
    ASSUME TypeOK, NEW v \in Vaas,
           response' = [response EXCEPT ![v] = NoResponse], UNCHANGED minted
    PROVE  ResponseTypeOK'
<1>1. NoResponse \in Responses /\ ~NoResponse.exists
  BY DEF NoResponse, Responses, Protocols
<1>. QED BY <1>1 DEF TypeOK, ResponseTypeOK

LEMMA SettleCompleteType ==
    ASSUME TypeOK, NEW v \in Vaas, SettleAuctionComplete(v)
    PROVE  TypeOK'
<1> DEFINE r == Repayment(v)
           f == [a \in Accounts |->
                   (IF a = auction[v].best THEN r.best ELSE 0)
                     + (IF a = response[v].baseFeeToken THEN r.base ELSE 0)]
<1>1. r.best \in Nat /\ r.base \in Nat
  <2>1. response[v].custody \in Nat
    BY DEF TypeOK, ResponseTypeOK, Responses
  <2>2. Order[v].baseFee \in Nat
    BY OrderFacts DEF Orders
  <2>. QED BY <2>1, <2>2 DEF Repayment, SaturatingSub
<1>2. Credit(f)
  BY DEF SettleAuctionComplete
<1>. HIDE DEF r
<1>3. f \in [Accounts -> Nat]
  BY <1>1
<1>. HIDE DEF f
<1>4. balance' \in [Accounts -> Nat]
  BY <1>2, <1>3, CreditType
<1>5. UNCHANGED <<clockVars, adminVars, minted, sequenceVars, accountState,
                  custody, localCustody, donations, outputVars>>
  BY DEF SettleAuctionComplete
<1>6. AuctionTypeOK'
  BY DEF TypeOK, AuctionTypeOK, Auctions, AuctionStatus, SettleAuctionComplete
<1>7. ResponseTypeOK'
  BY <1>5, NoResponseType DEF SettleAuctionComplete
<1>8. TokenTypeOK'
  BY <1>4, <1>5 DEF TypeOK, TokenTypeOK
<1>. QED BY <1>5, <1>6, <1>7, <1>8, SameClock, SameCustodian, SameSequences,
            SameOutputs, Zenon DEF TypeOK

\* The placeholder auction of a response, as written when a sequence is reserved
\* and when the order is settled.
LEMMA PlaceholderType ==
    ASSUME TypeOK, NEW v \in Vaas
    PROVE  /\ NewAuctionPlaceholder(v) \in Auctions
           /\ NewAuctionPlaceholder(v).status = "NotStarted"
           /\ [NewAuctionPlaceholder(v) EXCEPT !.status = "Settled"] \in Auctions
<1>1. response[v].target \in Protocols
  BY DEF TypeOK, ResponseTypeOK, Responses
<1>2. NoAuction \in Auctions
  BY ConstantsAssumption, LimitsAssumption
  DEF NoAuction, Auctions, AuctionStatus, Protocols, U64
<1>. QED BY <1>1, <1>2 DEF NewAuctionPlaceholder, Auctions, AuctionStatus

LEMMA SettleNoneAmounts ==
    ASSUME TypeOK, NEW v \in Vaas
    PROVE  SettleNoneFee(v) \in Nat /\ SettleNoneUserAmount(v) \in Nat
<1>1. Order[v].baseFee \in Nat /\ Order[v].initAuctionFee \in Nat
  BY OrderFacts DEF Orders
<1>2. response[v].custody \in Nat
  BY DEF TypeOK, ResponseTypeOK, Responses
<1>. QED BY <1>1, <1>2, LimitsAssumption
         DEF SettleNoneFee, SettleNoneUserAmount, SaturatingAdd, SaturatingSub

LEMMA SettleNoneType ==
    ASSUME TypeOK, NEW v \in Vaas, SettleNoneAndPrepareFill(v), UNCHANGED minted
    PROVE  /\ AuctionTypeOK'
           /\ ResponseTypeOK'
           /\ balance' \in [Accounts -> Nat]
           /\ slowFilled' \in [Vaas -> Nat]
           /\ delivered' \in [Vaas -> Nat]
<1>1. SettleNoneFee(v) \in Nat /\ SettleNoneUserAmount(v) \in Nat
  BY SettleNoneAmounts
<1>2. AuctionTypeOK'
  <2>. DEFINE new == [NewAuctionPlaceholder(v) EXCEPT !.status = "Settled"]
  <2>1. new \in Auctions /\ new.status = "Settled"
    BY PlaceholderType DEF NewAuctionPlaceholder, Auctions
  <2>2. auction' = [auction EXCEPT ![v] = new]
    BY DEF SettleNoneAndPrepareFill
  <2>. HIDE DEF new
  <2>. QED BY <2>1, <2>2 DEF TypeOK, AuctionTypeOK
<1>3. ResponseTypeOK'
  BY NoResponseType DEF SettleNoneAndPrepareFill
<1>4. balance' \in [Accounts -> Nat]
  BY <1>1, ConstantsAssumption DEF TypeOK, TokenTypeOK, SettleNoneAndPrepareFill
<1>5. slowFilled' \in [Vaas -> Nat] /\ delivered' \in [Vaas -> Nat]
  BY <1>1 DEF TypeOK, OutputTypeOK, SettleNoneAndPrepareFill
<1>. QED BY <1>2, <1>3, <1>4, <1>5

LEMMA SettleNoneCctpType ==
    ASSUME TypeOK, NEW v \in Vaas, SettleAuctionNoneCctp(v)
    PROVE  TypeOK'
<1>1. UNCHANGED <<clockVars, adminVars, minted, sequenceVars, accountState,
                  custody, localCustody, donations, fastFilled>>
  BY DEF SettleAuctionNoneCctp
<1>2. /\ AuctionTypeOK' /\ ResponseTypeOK'
      /\ balance' \in [Accounts -> Nat]
      /\ slowFilled' \in [Vaas -> Nat] /\ delivered' \in [Vaas -> Nat]
  BY <1>1, SettleNoneType DEF SettleAuctionNoneCctp
<1>3. TokenTypeOK'
  BY <1>1, <1>2 DEF TypeOK, TokenTypeOK
<1>4. OutputTypeOK'
  BY <1>1, <1>2, SettleNoneAmounts DEF TypeOK, OutputTypeOK, SettleAuctionNoneCctp
<1>. QED BY <1>1, <1>2, <1>3, <1>4, SameClock, SameCustodian, SameSequences,
            Zenon DEF TypeOK

LEMMA SettleNoneLocalType ==
    ASSUME TypeOK, NEW v \in Vaas, SettleAuctionNoneLocal(v)
    PROVE  TypeOK'
<1>1. UNCHANGED <<clockVars, adminVars, minted, sequencer, accountState,
                  custody, donations, released, fastFilled>>
  BY DEF SettleAuctionNoneLocal
<1>2. /\ AuctionTypeOK' /\ ResponseTypeOK'
      /\ balance' \in [Accounts -> Nat]
      /\ slowFilled' \in [Vaas -> Nat] /\ delivered' \in [Vaas -> Nat]
  BY <1>1, SettleNoneType DEF SettleAuctionNoneLocal
<1>3. SequenceTypeOK' /\ localCustody' \in [Chains -> Nat]
  BY <1>1, SettleNoneAmounts, SendLocalFillType DEF SettleAuctionNoneLocal
<1>4. TokenTypeOK'
  BY <1>1, <1>2, <1>3 DEF TypeOK, TokenTypeOK
<1>5. OutputTypeOK'
  BY <1>1, <1>2 DEF TypeOK, OutputTypeOK
<1>. QED BY <1>1, <1>2, <1>3, <1>4, <1>5, SameClock, SameCustodian, Zenon
         DEF TypeOK

LEMMA CloseAuctionType ==
    ASSUME TypeOK, NEW v \in Vaas, CloseAuction(v)
    PROVE  TypeOK'
<1>1. AuctionTypeOK'
  <2>1. NoAuction \in Auctions /\ NoAuction.status = "Absent"
    BY ConstantsAssumption, LimitsAssumption
    DEF NoAuction, Auctions, AuctionStatus, Protocols, U64
  <2>. QED BY <2>1 DEF TypeOK, AuctionTypeOK, CloseAuction
<1>2. UNCHANGED <<clockVars, adminVars, response, minted, sequenceVars,
                  tokenVars, donations, outputVars>>
  BY DEF CloseAuction
<1>. QED BY <1>1, <1>2, SameClock, SameCustodian, SameResponses, SameSequences,
            SameTokens, SameOutputs, Zenon DEF TypeOK

-----------------------------------------------------------------------------
(* Fast fills *)

LEMMA ReserveSequenceType ==
    ASSUME TypeOK, NEW v \in Vaas, NEW b \in Payers \cup {NoKey},
           ReserveSequence(v, b), UNCHANGED fastFills
    PROVE  SequenceTypeOK'
<1> DEFINE key == <<Order[v].source, Order[v].sender>>
           new == [exists |-> TRUE, beneficiary |-> b, sequence |-> sequencer[key]]
<1>1. key \in Chains \X Senders
  BY OrderFacts DEF Orders
<1>2. /\ reserved' = [reserved EXCEPT ![v] = new]
      /\ sequencer' = [sequencer EXCEPT ![key] = NextSequence(@)]
  BY DEF ReserveSequence
<1>. HIDE DEF key
<1>3. sequencer[key] \in Nat
  BY <1>1 DEF TypeOK, SequenceTypeOK
<1>4. new \in Reservations
  BY <1>3, Zenon DEF Reservations
<1>. HIDE DEF new
<1>5. reserved' \in [Vaas -> Reservations]
  BY <1>2, <1>4 DEF TypeOK, SequenceTypeOK
<1>6. sequencer' \in [Chains \X Senders -> Nat]
  BY <1>1, <1>2, <1>3 DEF TypeOK, SequenceTypeOK, NextSequence
<1>. QED BY <1>5, <1>6, Zenon DEF TypeOK, SequenceTypeOK

LEMMA ReserveActiveType ==
    ASSUME TypeOK, NEW v \in Vaas, NEW payer \in Payers,
           ReserveFastFillSequenceActiveAuction(v, payer)
    PROVE  TypeOK'
<1>1. UNCHANGED <<clockVars, adminVars, auction, response, minted, fastFills,
                  tokenVars, donations, outputVars>>
  BY DEF ReserveFastFillSequenceActiveAuction
<1>2. SequenceTypeOK'
  BY <1>1, ReserveSequenceType DEF ReserveFastFillSequenceActiveAuction
<1>. QED BY <1>1, <1>2, SameClock, SameCustodian, SameAuctions, SameResponses,
            SameTokens, SameOutputs, Zenon DEF TypeOK

LEMMA ReserveNoneType ==
    ASSUME TypeOK, NEW v \in Vaas, ReserveFastFillSequenceNoAuction(v)
    PROVE  TypeOK'
<1>1. UNCHANGED <<clockVars, adminVars, response, minted, fastFills,
                  tokenVars, donations, outputVars>>
  BY DEF ReserveFastFillSequenceNoAuction
<1>2. SequenceTypeOK'
  <2>1. response[v].preparedBy \in Payers \cup {NoKey}
    BY DEF TypeOK, ResponseTypeOK, Responses
  <2>. QED BY <1>1, <2>1, ReserveSequenceType DEF ReserveFastFillSequenceNoAuction
<1>3. AuctionTypeOK'
  BY PlaceholderType
  DEF TypeOK, AuctionTypeOK, ReserveFastFillSequenceNoAuction
<1>. QED BY <1>1, <1>2, <1>3, SameClock, SameCustodian, SameResponses,
            SameTokens, SameOutputs, Zenon DEF TypeOK

LEMMA FastFillStepType ==
    ASSUME TypeOK, NEW f \in fastFills, FastFillStep(f)
    PROVE  TypeOK'
<1>1. /\ f \in FastFills /\ f.source \in Chains /\ f.amount \in Nat
      /\ localCustody[f.source] \in Nat
  BY DEF TypeOK, SequenceTypeOK, TokenTypeOK, FastFills
<1>2. CASE CompleteFastFill(f)
  <2>. DEFINE new == [f EXCEPT !.redeemed = TRUE]
  <2>1. new \in FastFills
    BY <1>1 DEF FastFills
  <2>2. /\ fastFills' = (fastFills \ {f}) \cup {new}
        /\ localCustody' = [localCustody EXCEPT ![f.source] = @ - f.amount]
        /\ f.amount <= localCustody[f.source]
        /\ released' = released + f.amount
        /\ UNCHANGED <<clockVars, adminVars, auction, response, minted, sequencer,
                       reserved, accountState, balance, custody, donations,
                       fastFilled, slowFilled, delivered>>
    BY <1>2 DEF CompleteFastFill
  <2>. HIDE DEF new
  <2>3. SequenceTypeOK'
    BY <2>1, <2>2 DEF TypeOK, SequenceTypeOK
  <2>4. TokenTypeOK'
    BY <1>1, <2>2 DEF TypeOK, TokenTypeOK
  <2>5. OutputTypeOK'
    BY <1>1, <2>2 DEF TypeOK, OutputTypeOK
  <2>. QED BY <2>2, <2>3, <2>4, <2>5, SameClock, SameCustodian, SameAuctions,
              SameResponses, Zenon DEF TypeOK
<1>3. CASE CloseRedeemedFastFill(f)
  <2>1. UNCHANGED <<clockVars, adminVars, auction, response, minted, sequencer,
                    reserved, tokenVars, donations, outputVars>>
    BY <1>3 DEF CloseRedeemedFastFill
  <2>2. SequenceTypeOK'
    BY <1>3, <2>1 DEF TypeOK, SequenceTypeOK, CloseRedeemedFastFill
  <2>. QED BY <2>1, <2>2, SameClock, SameCustodian, SameAuctions, SameResponses,
              SameTokens, SameOutputs, Zenon DEF TypeOK
<1>. QED BY <1>2, <1>3 DEF FastFillStep
-----------------------------------------------------------------------------
(* The owner and the environment *)

LEMMA OwnerStepType ==
    ASSUME TypeOK, OwnerStep
    PROVE  TypeOK'
<1>1. UNCHANGED ownerFrame
  BY Zenon DEF OwnerStep, SetPause, UpdateAuctionParameters, DisableRouterEndpoint,
     UpdateCctpRouterEndpoint, UpdateLocalRouterEndpoint
<1>2. CustodianTypeOK'
  <2>1. paused' \in BOOLEAN
    BY Zenon DEF TypeOK, CustodianTypeOK, OwnerStep, SetPause,
       UpdateAuctionParameters, DisableRouterEndpoint, UpdateCctpRouterEndpoint,
       UpdateLocalRouterEndpoint
  <2>2. configId' \in 0 .. LastConfig
    <3>1. CASE UpdateAuctionParameters
      BY <3>1, ConstantsAssumption
      DEF TypeOK, CustodianTypeOK, UpdateAuctionParameters
    <3>2. CASE UNCHANGED configId
      BY <3>2 DEF TypeOK, CustodianTypeOK
    <3>. QED BY <3>1, <3>2 DEF OwnerStep, SetPause, DisableRouterEndpoint,
                UpdateCctpRouterEndpoint, UpdateLocalRouterEndpoint
  <2>3. endpoint' \in [Chains -> Endpoints]
    <3>1. CASE UNCHANGED endpoint
      BY <3>1 DEF TypeOK, CustodianTypeOK
    <3>2. ASSUME NEW c \in Chains, DisableRouterEndpoint(c)
          PROVE  endpoint' \in [Chains -> Endpoints]
      BY <3>2 DEF TypeOK, CustodianTypeOK, DisableRouterEndpoint, Endpoints,
         Protocols
    <3>3. ASSUME NEW c \in Chains, NEW d \in Domains, NEW r \in Addresses,
                 UpdateCctpRouterEndpoint(c, d, r)
          PROVE  endpoint' \in [Chains -> Endpoints]
      BY <3>3 DEF TypeOK, CustodianTypeOK, UpdateCctpRouterEndpoint, Endpoints,
         Protocols
    <3>4. ASSUME NEW r \in Addresses, UpdateLocalRouterEndpoint(r)
          PROVE  endpoint' \in [Chains -> Endpoints]
      BY <3>4, ConstantsAssumption DEF TypeOK, CustodianTypeOK,
         UpdateLocalRouterEndpoint, Endpoints, Protocols
    <3>. QED BY <3>1, <3>2, <3>3, <3>4 DEF OwnerStep, SetPause,
                UpdateAuctionParameters
  <2>. QED BY <2>1, <2>2, <2>3, Zenon DEF CustodianTypeOK
<1>. QED BY <1>1, <1>2, SameClock, SameAuctions, SameResponses, SameSequences,
            SameTokens, SameOutputs, Zenon DEF TypeOK, ownerFrame

LEMMA AdvanceType ==
    ASSUME TypeOK, AdvanceSlot \/ AdvanceTime
    PROVE  TypeOK'
<1>1. ClockTypeOK'
  BY ConstantsAssumption, LimitsAssumption
  DEF TypeOK, ClockTypeOK, AdvanceSlot, AdvanceTime, U64
<1>2. UNCHANGED <<environmentFrame, tokenVars, donations>>
  BY DEF AdvanceSlot, AdvanceTime
<1>. QED BY <1>1, <1>2, SameCustodian, SameAuctions, SameResponses,
            SameSequences, SameTokens, SameOutputs, Zenon
         DEF TypeOK, environmentFrame

LEMMA ChangeAccountStateType ==
    ASSUME TypeOK, NEW a \in Accounts, NEW s \in {"Open", "Frozen", "Closed"},
           ChangeAccountState(a, s)
    PROVE  TypeOK'
<1>1. TokenTypeOK'
  BY DEF TypeOK, TokenTypeOK, ChangeAccountState
<1>2. UNCHANGED <<environmentFrame, clockVars>>
  BY DEF ChangeAccountState
<1>. QED BY <1>1, <1>2, SameClock, SameCustodian, SameAuctions, SameResponses,
            SameSequences, SameOutputs, Zenon DEF TypeOK, environmentFrame

LEMMA DonateType ==
    ASSUME TypeOK, NEW a \in Accounts, NEW v \in Vaas, Donate(a, v)
    PROVE  TypeOK'
<1>1. UNCHANGED <<clockVars, adminVars, auction, minted, sequenceVars,
                  accountState, outputVars>>
  BY DEF Donate
<1>2. Order[v].source \in Chains
  BY OrderFacts DEF Orders
<1>3. TokenTypeOK'
  <2>1. balance' \in [Accounts -> Nat]
    BY DEF TypeOK, TokenTypeOK, Donate
  <2>2. donations' \in 0 .. MaxDonations
    BY ConstantsAssumption DEF TypeOK, TokenTypeOK, Donate
  <2>3. custody' \in [Vaas -> Nat]
    BY DEF TypeOK, TokenTypeOK, Donate
  <2>4. localCustody' \in [Chains -> Nat]
    BY <1>2 DEF TypeOK, TokenTypeOK, Donate
  <2>. QED BY <1>1, <2>1, <2>2, <2>3, <2>4 DEF TypeOK, TokenTypeOK
<1>4. ResponseTypeOK'
  <2>1. CASE UNCHANGED response
    BY <1>1, <2>1, SameResponses DEF TypeOK
  <2>2. CASE response' = [response EXCEPT ![v].custody = @ + 1]
    BY <1>1, <2>2 DEF TypeOK, ResponseTypeOK, Responses
  <2>. QED BY <2>1, <2>2 DEF Donate
<1>. QED BY <1>1, <1>3, <1>4, SameClock, SameCustodian, SameAuctions,
            SameSequences, SameOutputs, Zenon DEF TypeOK
-----------------------------------------------------------------------------
(* The type invariant is inductive. *)

LEMMA AuctionStepType ==
    ASSUME TypeOK, NEW v \in Vaas, AuctionStep(v)
    PROVE  TypeOK'
BY PlaceInitialOfferType, ImproveOfferType, ExecuteCctpType, ExecuteLocalType,
   PrepareOrderResponseType, ReserveActiveType, ReserveNoneType,
   SettleCompleteType, SettleNoneCctpType, SettleNoneLocalType,
   CloseAuctionType, Zenon
DEF AuctionStep

LEMMA NextTypeOK == TypeOK /\ [Next]_vars => TypeOK'
<1> SUFFICES ASSUME TypeOK, [Next]_vars PROVE TypeOK'
  OBVIOUS
<1>1. CASE UNCHANGED vars
  BY <1>1, SameClock, SameCustodian, SameAuctions, SameResponses, SameSequences,
     SameTokens, SameOutputs, Zenon DEF TypeOK, vars
<1>2. CASE EnvironmentStep
  BY <1>2, AdvanceType, ChangeAccountStateType, DonateType, ConstantsAssumption,
     Zenon DEF EnvironmentStep
<1>. QED BY <1>1, <1>2, AuctionStepType, FastFillStepType, OwnerStepType, Zenon
         DEF Next

\* Every account the program keeps holds what its type says: amounts, prices and
\* penalties never underflow, no transfer overdraws an account, an auction that
\* owes its offers money names their accounts.
THEOREM TypeCorrect == Spec => []TypeOK
BY InitTypeOK, NextTypeOK, PTL DEF Spec

-----------------------------------------------------------------------------
(* One fill per order *)

\* The part of the state that FillsMatch reads is the same after the step.
SameOrder(w) ==
    /\ auction'[w].status = auction[w].status
    /\ response'[w].exists = response[w].exists
    /\ minted'[w] = minted[w]
    /\ fastFilled'[w] = fastFilled[w]
    /\ slowFilled'[w] = slowFilled[w]
    /\ now' >= now

LEMMA SameOrderFills ==
    ASSUME TypeOK, TypeOK', NEW w \in Vaas, FillsMatch(w), SameOrder(w)
    PROVE  FillsMatch(w)'
<1>1. ExpirationTime(w) \in Nat /\ ExpirationTime(w)' = ExpirationTime(w)
  BY OrderFacts, ConstantsAssumption DEF ExpirationTime, Orders
<1>2. now \in Nat /\ now' \in Nat
  BY ConstantsAssumption DEF TypeOK, ClockTypeOK
<1>. QED BY <1>1, <1>2 DEF FillsMatch, SameOrder

\* An instruction on one order leaves the others alone.
LEMMA OtherOrdersSame ==
    ASSUME TypeOK, NEW v \in Vaas, AuctionStep(v), NEW w \in Vaas, w # v
    PROVE  SameOrder(w)
<1>0. now \in Nat
  BY ConstantsAssumption DEF TypeOK, ClockTypeOK
<1> USE <1>0 DEF TypeOK, AuctionTypeOK, ResponseTypeOK, OutputTypeOK, SameOrder,
               clockVars, outputVars
<1>1. ASSUME NEW a \in Accounts, NEW p \in 0 .. Order[v].maxFee,
             PlaceInitialOfferCctp(v, a, p) \/ ImproveOffer(v, a, p)
      PROVE  SameOrder(w)
  BY <1>1 DEF PlaceInitialOfferCctp, ImproveOffer
<1>2. ASSUME NEW e \in Accounts,
             ExecuteFastOrderCctp(v, e) \/ ExecuteFastOrderLocal(v, e)
      PROVE  SameOrder(w)
  BY <1>2 DEF ExecuteFastOrderCctp, ExecuteFastOrderLocal, HandleExecuteFastOrder
<1>3. ASSUME NEW payer \in Payers, NEW b \in Accounts,
             PrepareOrderResponseCctp(v, payer, b)
      PROVE  SameOrder(w)
  BY <1>3 DEF PrepareOrderResponseCctp
<1>4. ASSUME NEW payer \in Payers,
             ReserveFastFillSequenceActiveAuction(v, payer)
      PROVE  SameOrder(w)
  BY <1>4 DEF ReserveFastFillSequenceActiveAuction
<1>5. CASE ReserveFastFillSequenceNoAuction(v) \/ CloseAuction(v)
  BY <1>5 DEF ReserveFastFillSequenceNoAuction, CloseAuction
<1>6. CASE SettleAuctionComplete(v)
  BY <1>6 DEF SettleAuctionComplete
<1>7. CASE SettleAuctionNoneCctp(v) \/ SettleAuctionNoneLocal(v)
  BY <1>7 DEF SettleAuctionNoneCctp, SettleAuctionNoneLocal,
              SettleNoneAndPrepareFill
<1>. QED BY <1>1, <1>2, <1>3, <1>4, <1>5, <1>6, <1>7, Zenon DEF AuctionStep

\* The same of fast fills, the owner and the environment, for every order.
LEMMA OtherStepsSame ==
    ASSUME TypeOK, NEW w \in Vaas,
           \/ \E f \in fastFills : FastFillStep(f)
           \/ OwnerStep
           \/ EnvironmentStep
           \/ UNCHANGED vars
    PROVE  SameOrder(w)
<1>0. now \in Nat
  BY ConstantsAssumption DEF TypeOK, ClockTypeOK
<1> USE <1>0 DEF SameOrder, clockVars, outputVars
<1>1. ASSUME NEW f \in fastFills, FastFillStep(f)
      PROVE  SameOrder(w)
  BY <1>1 DEF FastFillStep, CompleteFastFill, CloseRedeemedFastFill
<1>2. CASE OwnerStep
  BY <1>2 DEF OwnerStep, SetPause, UpdateAuctionParameters, DisableRouterEndpoint,
     UpdateCctpRouterEndpoint, UpdateLocalRouterEndpoint, ownerFrame
<1>3. CASE AdvanceSlot \/ AdvanceTime
  BY <1>3 DEF AdvanceSlot, AdvanceTime, environmentFrame
<1>4. ASSUME NEW a \in VolatileAccounts, NEW s \in {"Open", "Frozen", "Closed"},
             ChangeAccountState(a, s)
      PROVE  SameOrder(w)
  BY <1>4 DEF ChangeAccountState, environmentFrame
<1>5. ASSUME NEW a \in Accounts, NEW v \in Vaas, Donate(a, v)
      PROVE  SameOrder(w)
  <2>1. response'[w].exists = response[w].exists
    BY <1>5 DEF TypeOK, ResponseTypeOK, Responses, Donate
  <2>. QED BY <1>5, <2>1 DEF Donate
<1>6. CASE UNCHANGED vars
  BY <1>6 DEF vars
<1>. QED BY <1>1, <1>2, <1>3, <1>4, <1>5, <1>6, Zenon DEF EnvironmentStep

\* The instruction itself moves its order from one line of FillsMatch to another.
LEMMA AuctionStepFills ==
    ASSUME TypeOK, TypeOK', NEW v \in Vaas, FillsMatch(v), AuctionStep(v)
    PROVE  FillsMatch(v)'
<1>1. ExpirationTime(v) \in Nat /\ ExpirationTime(v)' = ExpirationTime(v)
  BY OrderFacts, ConstantsAssumption DEF ExpirationTime, Orders
<1>2. /\ now \in Nat
      /\ fastFilled[v] \in Nat /\ slowFilled[v] \in Nat
      /\ auction[v].status \in AuctionStatus
  BY ConstantsAssumption
  DEF TypeOK, ClockTypeOK, OutputTypeOK, AuctionTypeOK, Auctions
<1> USE <1>1, <1>2 DEF TypeOK, AuctionTypeOK, ResponseTypeOK, OutputTypeOK,
        FillsMatch, clockVars, outputVars
<1>3. ASSUME NEW a \in Accounts, NEW p \in 0 .. Order[v].maxFee,
             PlaceInitialOfferCctp(v, a, p)
      PROVE  FillsMatch(v)'
  BY <1>3 DEF PlaceInitialOfferCctp, AuctionAccountFree
<1>4. ASSUME NEW a \in Accounts, NEW p \in 0 .. Order[v].maxFee,
             ImproveOffer(v, a, p)
      PROVE  FillsMatch(v)'
  <2>1. auction'[v].status = "Active"
    BY <1>4 DEF ImproveOffer, Improved, Auctions
  <2>. QED BY <1>4, <2>1 DEF ImproveOffer
<1>5. ASSUME NEW e \in Accounts,
             ExecuteFastOrderCctp(v, e) \/ ExecuteFastOrderLocal(v, e)
      PROVE  FillsMatch(v)'
  <2>1. auction[v].status = "Active" /\ auction'[v].status = "Completed"
    BY <1>5 DEF ExecuteFastOrderCctp, ExecuteFastOrderLocal,
                HandleExecuteFastOrder, Auctions
  <2>2. /\ fastFilled'[v] = fastFilled[v] + 1
        /\ UNCHANGED <<clockVars, response, minted, slowFilled>>
    BY <1>5 DEF ExecuteFastOrderCctp, ExecuteFastOrderLocal,
                HandleExecuteFastOrder
  <2>. QED BY <2>1, <2>2
<1>6. ASSUME NEW payer \in Payers, NEW b \in Accounts,
             PrepareOrderResponseCctp(v, payer, b)
      PROVE  FillsMatch(v)'
  BY <1>6 DEF PrepareOrderResponseCctp, Receivable
<1>7. ASSUME NEW payer \in Payers,
             ReserveFastFillSequenceActiveAuction(v, payer)
      PROVE  FillsMatch(v)'
  BY <1>7 DEF ReserveFastFillSequenceActiveAuction
<1>8. CASE ReserveFastFillSequenceNoAuction(v)
  BY <1>8, PlaceholderType
  DEF ReserveFastFillSequenceNoAuction, AuctionAccountFree
<1>9. CASE SettleAuctionComplete(v)
  BY <1>9 DEF SettleAuctionComplete, NoResponse, Auctions
<1>10. CASE SettleAuctionNoneCctp(v) \/ SettleAuctionNoneLocal(v)
  <2>1. /\ auction[v].status \in {"Absent", "NotStarted"}
        /\ response[v].exists
        /\ ~response'[v].exists
        /\ slowFilled'[v] = slowFilled[v] + 1
        /\ UNCHANGED <<clockVars, minted, fastFilled>>
    BY <1>10 DEF SettleAuctionNoneCctp, SettleAuctionNoneLocal,
       SettleNoneAndPrepareFill, AuctionAccountFree, IsPlaceholder, NoResponse
  <2>2. auction'[v].status = "Settled"
    BY <1>10, PlaceholderType
    DEF SettleAuctionNoneCctp, SettleAuctionNoneLocal,
        SettleNoneAndPrepareFill, Auctions
  <2>. QED BY <2>1, <2>2
<1>11. CASE CloseAuction(v)
  BY <1>11 DEF CloseAuction, Closable, AuctionExpired, NoAuction
<1>. QED BY <1>3, <1>4, <1>5, <1>6, <1>7, <1>8, <1>9, <1>10, <1>11, Zenon
         DEF AuctionStep

LEMMA NextFills ==
    TypeOK /\ TypeOK' /\ FillsMatchAuction /\ [Next]_vars => FillsMatchAuction'
<1> SUFFICES ASSUME TypeOK, TypeOK', FillsMatchAuction, [Next]_vars,
                    NEW w \in Vaas
             PROVE  FillsMatch(w)'
  BY Zenon DEF FillsMatchAuction
<1>1. FillsMatch(w)
  BY DEF FillsMatchAuction
<1>2. ASSUME NEW v \in Vaas, AuctionStep(v)
      PROVE  FillsMatch(w)'
  BY <1>1, <1>2, AuctionStepFills, OtherOrdersSame, SameOrderFills, Zenon
<1>3. ASSUME \/ \E f \in fastFills : FastFillStep(f)
             \/ OwnerStep
             \/ EnvironmentStep
             \/ UNCHANGED vars
      PROVE  FillsMatch(w)'
  BY <1>1, <1>3, OtherStepsSame, SameOrderFills, Zenon
<1>. QED BY <1>2, <1>3, Zenon DEF Next

LEMMA InitFills == Init => FillsMatchAuction
BY DEF Init, FillsMatchAuction, FillsMatch, NoAuction, NoResponse

\* In every reachable state the fills of an order agree with its auction account.
THEOREM FillsAgree == Spec => []FillsMatchAuction
<1>1. TypeOK /\ FillsMatchAuction /\ [Next]_vars
        => TypeOK' /\ FillsMatchAuction'
  BY NextTypeOK, NextFills
<1>. QED BY <1>1, InitTypeOK, InitFills, PTL DEF Spec

\* No order is filled twice, whatever the order of the instructions, and however
\* often its auction account is closed and its address used again.
THEOREM FilledOnce == Spec => []FilledAtMostOnce
<1>1. TypeOK /\ FillsMatchAuction => FilledAtMostOnce
  BY DEF TypeOK, AuctionTypeOK, Auctions, AuctionStatus, OutputTypeOK,
         FillsMatchAuction, FillsMatch, FilledAtMostOnce
<1>. QED BY <1>1, TypeCorrect, FillsAgree, PTL

-----------------------------------------------------------------------------
(* Fast fill sequences *)

\* Where an order's fast fill gets its sequence from.
SequencerOf(v) == <<Order[v].source, Order[v].sender>>

\* What makes ReservedSequencesAreFree inductive: every sequence in use, by a
\* reservation or by a fast fill, was given out before, so that the next one is
\* new to both.
SequencesGivenOut ==
    /\ \A v \in Vaas : reserved[v].exists =>
          reserved[v].sequence < sequencer[SequencerOf(v)]
    /\ \A f \in fastFills : f.sequence < sequencer[<<f.source, f.sender>>]

SequencesInOrder == SequencesGivenOut /\ ReservedSequencesAreFree

\* The sequence a reservation takes is used by nobody else.
LEMMA ReserveKeepsOrder ==
    ASSUME TypeOK, SequencesInOrder, NEW v \in Vaas, NEW b,
           ReserveSequence(v, b), UNCHANGED fastFills
    PROVE  SequencesInOrder'
<1> DEFINE key == SequencerOf(v)
<1>1. /\ reserved \in [Vaas -> Reservations]
      /\ sequencer \in [Chains \X Senders -> Nat]
      /\ fastFills \subseteq FastFills
  BY DEF TypeOK, SequenceTypeOK
<1>2. \A w \in Vaas : SequencerOf(w) \in Chains \X Senders
  BY OrderFacts DEF SequencerOf, Orders
<1>3. \A w \in Vaas : reserved[w].sequence \in Nat
  BY <1>1 DEF Reservations
<1>4. \A f \in fastFills :
         f.sequence \in Nat /\ <<f.source, f.sender>> \in Chains \X Senders
  BY <1>1 DEF FastFills
<1>5. /\ reserved'[v].exists /\ reserved'[v].sequence = sequencer[key]
      /\ \A w \in Vaas \ {v} : reserved'[w] = reserved[w]
  BY <1>1 DEF ReserveSequence, SequencerOf
<1>6. sequencer' = [sequencer EXCEPT ![key] = @ + 1]
  BY DEF ReserveSequence, SequencerOf, NextSequence
<1>. HIDE DEF key
<1>7. key \in Chains \X Senders
  BY <1>2 DEF key
<1>8. \A k \in Chains \X Senders :
         sequencer[k] \in Nat /\ sequencer'[k] >= sequencer[k]
  BY <1>1, <1>6
<1>9. sequencer'[key] > sequencer[key]
  BY <1>1, <1>6, <1>7
<1>10. SequencesGivenOut'
  <2>1. ASSUME NEW w \in Vaas, reserved'[w].exists
        PROVE  reserved'[w].sequence < sequencer'[SequencerOf(w)]
    <3>1. CASE w = v
      BY <1>5, <1>9, <3>1, <1>7, <1>8 DEF key
    <3>2. CASE w # v
      <4>1. /\ reserved[w].sequence < sequencer[SequencerOf(w)]
            /\ reserved'[w] = reserved[w]
        BY <1>5, <2>1, <3>2 DEF SequencesInOrder, SequencesGivenOut
      <4>2. /\ sequencer[SequencerOf(w)] \in Nat
            /\ sequencer'[SequencerOf(w)] \in Nat
            /\ sequencer'[SequencerOf(w)] >= sequencer[SequencerOf(w)]
        BY <1>1, <1>2, <1>6, <1>8
      <4>. QED BY <1>3, <4>1, <4>2
    <3>. QED BY <3>1, <3>2
  <2>2. ASSUME NEW f \in fastFills
        PROVE  f.sequence < sequencer'[<<f.source, f.sender>>]
    <3>1. f.sequence < sequencer[<<f.source, f.sender>>]
      BY DEF SequencesInOrder, SequencesGivenOut
    <3>2. sequencer'[<<f.source, f.sender>>] \in Nat
      BY <1>1, <1>4, <1>6
    <3>. QED BY <1>4, <1>8, <3>1, <3>2
  <2>3. SequencerOf(v)' = SequencerOf(v)
    BY DEF SequencerOf
  <2>. QED BY <2>1, <2>2 DEF SequencesGivenOut, SequencerOf
<1>11. ReservedSequencesAreFree'
  <2>1. ASSUME NEW w \in Vaas \ {v}, reserved[w].exists, SequencerOf(w) = key
        PROVE  reserved[w].sequence # sequencer[key]
    BY <1>1, <1>3, <1>7, <1>8, <2>1 DEF SequencesInOrder, SequencesGivenOut
  <2>2. ASSUME NEW f \in fastFills, <<f.source, f.sender>> = key
        PROVE  f.sequence # sequencer[key]
    BY <1>4, <1>7, <1>8, <2>2 DEF SequencesInOrder, SequencesGivenOut
  <2>3. ASSUME NEW w \in Vaas, reserved'[w].exists
        PROVE  FastFillAddressFree(w)'
    BY <1>5, <2>2, <2>3 DEF SequencesInOrder, ReservedSequencesAreFree,
       FastFillAddressFree, SequencerOf, key
  <2>4. ASSUME NEW w \in Vaas, NEW u \in Vaas \ {w},
               reserved'[w].exists, reserved'[u].exists,
               Order[u].source = Order[w].source, Order[u].sender = Order[w].sender
        PROVE  reserved'[u].sequence # reserved'[w].sequence
    <3>1. SequencerOf(u) = SequencerOf(w)
      BY <2>4 DEF SequencerOf
    <3>2. CASE w = v
      BY <1>5, <2>1, <2>4, <3>1, <3>2 DEF key
    <3>3. CASE u = v
      BY <1>5, <2>1, <2>4, <3>1, <3>3 DEF key
    <3>4. CASE w # v /\ u # v
      BY <1>5, <2>4, <3>4 DEF SequencesInOrder, ReservedSequencesAreFree
    <3>. QED BY <3>2, <3>3, <3>4
  <2>. QED BY <2>3, <2>4, Zenon DEF ReservedSequencesAreFree
<1>. QED BY <1>10, <1>11 DEF SequencesInOrder

\* A fill uses up the sequence reserved for it.
LEMMA LocalFillKeepsOrder ==
    ASSUME TypeOK, SequencesInOrder, NEW v \in Vaas, NEW amount,
           SendLocalFill(v, amount), UNCHANGED sequencer
    PROVE  SequencesInOrder'
<1>1. /\ reserved[v].exists
      /\ ~reserved'[v].exists
      /\ \A w \in Vaas \ {v} : reserved'[w] = reserved[w]
  BY DEF TypeOK, SequenceTypeOK, SendLocalFill, NoReservation
<1>2. PICK new : /\ new.source = Order[v].source /\ new.sender = Order[v].sender
                 /\ new.sequence = reserved[v].sequence
                 /\ fastFills' = fastFills \cup {new}
  BY DEF SendLocalFill
<1>3. SequencesGivenOut'
  BY <1>1, <1>2 DEF SequencesInOrder, SequencesGivenOut, SequencerOf
<1>4. ReservedSequencesAreFree'
  BY <1>1, <1>2 DEF SequencesInOrder, ReservedSequencesAreFree, FastFillAddressFree
<1>. QED BY <1>3, <1>4 DEF SequencesInOrder

\* Redeeming a fill keeps its address, closing it frees one.
LEMMA FastFillStepKeepsOrder ==
    ASSUME TypeOK, SequencesInOrder, NEW f \in fastFills, FastFillStep(f)
    PROVE  SequencesInOrder'
<1>1. UNCHANGED <<sequencer, reserved>>
  BY DEF FastFillStep, CompleteFastFill, CloseRedeemedFastFill
<1>2. \A g \in fastFills' : \E h \in fastFills :
         h.source = g.source /\ h.sender = g.sender /\ h.sequence = g.sequence
  <2>1. f \in FastFills
    BY DEF TypeOK, SequenceTypeOK
  <2>2. CASE CompleteFastFill(f)
    <3>. DEFINE new == [f EXCEPT !.redeemed = TRUE]
    <3>1. /\ new.source = f.source /\ new.sender = f.sender
          /\ new.sequence = f.sequence
      BY <2>1 DEF FastFills
    <3>2. fastFills' = (fastFills \ {f}) \cup {new}
      BY <2>2 DEF CompleteFastFill
    <3>. HIDE DEF new
    <3>. QED BY <3>1, <3>2
  <2>3. CASE CloseRedeemedFastFill(f)
    BY <2>3 DEF CloseRedeemedFastFill
  <2>. QED BY <2>2, <2>3 DEF FastFillStep
<1>3. SequencesGivenOut'
  <2>1. ASSUME NEW g \in fastFills'
        PROVE  g.sequence < sequencer[<<g.source, g.sender>>]
    <3>1. PICK h \in fastFills : /\ h.source = g.source /\ h.sender = g.sender
                                 /\ h.sequence = g.sequence
      BY <1>2
    <3>. QED BY <3>1 DEF SequencesInOrder, SequencesGivenOut
  <2>. QED BY <1>1, <2>1 DEF SequencesInOrder, SequencesGivenOut, SequencerOf
<1>4. ReservedSequencesAreFree'
  BY <1>1, <1>2 DEF SequencesInOrder, ReservedSequencesAreFree, FastFillAddressFree
<1>. QED BY <1>3, <1>4 DEF SequencesInOrder

LEMMA SameSequencesInOrder ==
    ASSUME SequencesInOrder, UNCHANGED sequenceVars
    PROVE  SequencesInOrder'
BY DEF SequencesInOrder, SequencesGivenOut, ReservedSequencesAreFree,
       FastFillAddressFree, SequencerOf, sequenceVars

LEMMA AuctionStepKeepsOrder ==
    ASSUME TypeOK, SequencesInOrder, NEW v \in Vaas, AuctionStep(v)
    PROVE  SequencesInOrder'
<1>1. ASSUME NEW a \in Accounts, NEW p \in 0 .. Order[v].maxFee,
             PlaceInitialOfferCctp(v, a, p) \/ ImproveOffer(v, a, p)
      PROVE  SequencesInOrder'
  BY <1>1, SameSequencesInOrder DEF PlaceInitialOfferCctp, ImproveOffer
<1>2. ASSUME NEW e \in Accounts, ExecuteFastOrderCctp(v, e)
      PROVE  SequencesInOrder'
  BY <1>2, SameSequencesInOrder DEF ExecuteFastOrderCctp
<1>3. ASSUME NEW e \in Accounts, ExecuteFastOrderLocal(v, e)
      PROVE  SequencesInOrder'
  BY <1>3, LocalFillKeepsOrder DEF ExecuteFastOrderLocal
<1>4. ASSUME NEW payer \in Payers, NEW b \in Accounts,
             PrepareOrderResponseCctp(v, payer, b)
      PROVE  SequencesInOrder'
  BY <1>4, SameSequencesInOrder DEF PrepareOrderResponseCctp
<1>5. ASSUME NEW payer \in Payers,
             ReserveFastFillSequenceActiveAuction(v, payer)
      PROVE  SequencesInOrder'
  BY <1>5, ReserveKeepsOrder DEF ReserveFastFillSequenceActiveAuction
<1>6. CASE ReserveFastFillSequenceNoAuction(v)
  BY <1>6, ReserveKeepsOrder DEF ReserveFastFillSequenceNoAuction
<1>7. CASE SettleAuctionComplete(v) \/ SettleAuctionNoneCctp(v) \/ CloseAuction(v)
  BY <1>7, SameSequencesInOrder
  DEF SettleAuctionComplete, SettleAuctionNoneCctp, CloseAuction
<1>8. CASE SettleAuctionNoneLocal(v)
  BY <1>8, LocalFillKeepsOrder DEF SettleAuctionNoneLocal
<1>. QED BY <1>1, <1>2, <1>3, <1>4, <1>5, <1>6, <1>7, <1>8, Zenon
         DEF AuctionStep

LEMMA NextSequences ==
    TypeOK /\ SequencesInOrder /\ [Next]_vars => SequencesInOrder'
<1> SUFFICES ASSUME TypeOK, SequencesInOrder, [Next]_vars
             PROVE  SequencesInOrder'
  OBVIOUS
<1>1. CASE OwnerStep
  BY <1>1, SameSequencesInOrder, Zenon
  DEF OwnerStep, SetPause, UpdateAuctionParameters, DisableRouterEndpoint,
      UpdateCctpRouterEndpoint, UpdateLocalRouterEndpoint, ownerFrame
<1>2. CASE EnvironmentStep
  BY <1>2, SameSequencesInOrder, Zenon
  DEF EnvironmentStep, AdvanceSlot, AdvanceTime, ChangeAccountState, Donate,
      environmentFrame
<1>3. CASE UNCHANGED vars
  BY <1>3, SameSequencesInOrder DEF vars
<1>. QED BY <1>1, <1>2, <1>3, AuctionStepKeepsOrder, FastFillStepKeepsOrder,
            Zenon DEF Next

LEMMA InitSequences == Init => SequencesInOrder
BY DEF Init, SequencesInOrder, SequencesGivenOut, ReservedSequencesAreFree,
       NoReservation

\* The "init" of a fast fill account never fails: the sequence reserved for an
\* order, taken from a counter shared by the orders of a sender, is no other
\* order's and no fill was made with it.
THEOREM SequencesAreFree == Spec => []ReservedSequencesAreFree
<1>1. TypeOK /\ SequencesInOrder /\ [Next]_vars => TypeOK' /\ SequencesInOrder'
  BY NextTypeOK, NextSequences
<1>2. SequencesInOrder => ReservedSequencesAreFree
  BY DEF SequencesInOrder
<1>. QED BY <1>1, <1>2, InitTypeOK, InitSequences, PTL DEF Spec

-----------------------------------------------------------------------------
(* The money of an order *)

\* The terms of an active auction: its custody covers the deposit, which is not
\* saturated, and the price is one the user agreed to.
ActiveTerms(v) ==
    auction[v].status = "Active" =>
        /\ Order[v].amountIn + auction[v].securityDeposit <= U64_MAX
        /\ auction[v].offerPrice <= Order[v].maxFee
        /\ custody[v] >= Order[v].amountIn + auction[v].securityDeposit

\* A response holds what came from the source chain.
ResponseFunded(v) ==
    response[v].exists => response[v].custody >= Order[v].amountIn

UserMinimum(v) ==
    fastFilled[v] + slowFilled[v] > 0 =>
        delivered[v] >= Order[v].amountIn - Order[v].maxFee
                            - Order[v].initAuctionFee

MoneyInPlace == \A v \in Vaas : ActiveTerms(v) /\ ResponseFunded(v) /\ UserMinimum(v)

-----------------------------------------------------------------------------
\* On the terms of an active auction nothing in handle_execute_fast_order
\* saturates: what everyone is paid, in plain arithmetic.
LEMMA ExecutionExact ==
    ASSUME TypeOK, NEW v \in Vaas, ActiveTerms(v), auction[v].status = "Active",
           NEW e \in Accounts
    PROVE  LET d == DepositPenalty(v)
               a == auction[v]
               fee == Order[v].initAuctionFee
               own == IF Usable(a.initial) /\ a.best = a.initial THEN fee ELSE 0
           IN  /\ UserAmount(v, d)
                    = Order[v].amountIn - a.offerPrice - fee + d.userReward
               /\ RemainingCustodied(v, d)
                    = custody[v] - UserAmount(v, d) - InitialPaid(v)
               /\ DepositAndFee(v, e, d)
                    = a.offerPrice + a.securityDeposit - d.userReward + own
                        - (IF a.best # e THEN d.penalty ELSE 0)
               /\ InitialPaid(v) + own <= fee
               /\ InitialPaid(v) \in Nat
               /\ DepositAndFee(v, e, d) \in 0 .. U64_MAX
               /\ RemainingCustodied(v, d) >= DepositAndFee(v, e, d)
<1> DEFINE d == DepositPenalty(v)
           a == auction[v]
           fee == Order[v].initAuctionFee
           amount == Order[v].amountIn
           own == IF Usable(a.initial) /\ a.best = a.initial THEN fee ELSE 0
           price == a.offerPrice
           deposit == a.securityDeposit
           reward == d.userReward
           penalty == d.penalty
           late == IF a.best # e THEN penalty ELSE 0
<1>1. /\ reward \in Nat /\ penalty \in Nat /\ penalty + reward <= deposit
      /\ price \in Nat /\ deposit \in Nat /\ custody[v] \in Nat
      /\ amount \in Nat /\ fee \in Nat /\ U64_MAX \in Nat
  <2>1. price \in Nat /\ deposit \in Nat /\ custody[v] \in Nat
    BY LimitsAssumption DEF TypeOK, AuctionTypeOK, Auctions, TokenTypeOK, U64
  <2>2. amount \in Nat /\ fee \in Nat
    BY OrderFacts DEF Orders
  <2>. QED BY <2>1, <2>2, DepositPenaltyFacts, LimitsAssumption
<1>2. /\ amount > price + fee
      /\ amount + deposit <= U64_MAX
      /\ custody[v] >= amount + deposit
  <2>1. Order[v].maxFee \in Nat /\ amount > Order[v].maxFee + fee
    BY OrderFacts DEF Orders
  <2>2. price <= Order[v].maxFee
    BY DEF ActiveTerms
  <2>. QED BY <1>1, <2>1, <2>2 DEF ActiveTerms
<1>3. own \in Nat /\ InitialPaid(v) \in Nat /\ InitialPaid(v) + own <= fee
  BY <1>1 DEF InitialPaid
<1>4. late \in Nat /\ late <= penalty
  BY <1>1
<1>5. UserAmount(v, d) = SaturatingAdd(SaturatingSub(SaturatingSub(amount, price),
                                                     fee), reward)
  BY DEF UserAmount
<1>6. DepositAndFee(v, e, d)
        = SaturatingSub(SaturatingSub(SaturatingAdd(price, deposit), reward), late)
            + own
  BY DEF DepositAndFee
<1>. HIDE DEF d, fee, amount, own, price, deposit, reward, penalty, late
<1>7. UserAmount(v, d) = amount - price - fee + reward
  BY <1>1, <1>2, <1>5 DEF SaturatingAdd, SaturatingSub
<1>8. DepositAndFee(v, e, d) = price + deposit - reward + own - late
  BY <1>1, <1>2, <1>3, <1>4, <1>6 DEF SaturatingAdd, SaturatingSub
<1>9. RemainingCustodied(v, d) = custody[v] - UserAmount(v, d) - InitialPaid(v)
  BY <1>1, <1>2, <1>3, <1>7 DEF RemainingCustodied, SaturatingSub
<1>10. DepositAndFee(v, e, d) \in 0 .. U64_MAX
  BY <1>1, <1>2, <1>3, <1>4, <1>8
<1>11. RemainingCustodied(v, d) >= DepositAndFee(v, e, d)
  BY <1>1, <1>2, <1>3, <1>4, <1>7, <1>8, <1>9
<1>. QED BY <1>3, <1>7, <1>8, <1>9, <1>10, <1>11
         DEF d, fee, amount, own, price, deposit, reward, penalty, late

\* Arithmetic of an execution: two payments that share what two others leave.
LEMMA SharesAddUp ==
    ASSUME NEW initial \in Nat, NEW best \in Nat, NEW executor \in Nat,
           NEW user \in Nat, NEW total \in Nat,
           best + executor = total - user - initial
    PROVE  initial + best + executor + user = total
  OBVIOUS

\* Executing an active auction pays out exactly what its custody holds.
LEMMA TermsBalance ==
    ASSUME TypeOK, NEW v \in Vaas, ActiveTerms(v), auction[v].status = "Active",
           NEW e \in Accounts
    PROVE  Balances(v, Execution(v, e, DepositPenalty(v)))
<1> DEFINE d == DepositPenalty(v)
<1>1. /\ RemainingCustodied(v, d)
           = custody[v] - UserAmount(v, d) - InitialPaid(v)
      /\ DepositAndFee(v, e, d) \in 0 .. U64_MAX
      /\ RemainingCustodied(v, d) >= DepositAndFee(v, e, d)
  BY ExecutionExact
<1>2. /\ UserAmount(v, d) \in Nat /\ InitialPaid(v) \in Nat
      /\ custody[v] \in Nat /\ U64_MAX \in Nat
  BY ExecutionTypes, LimitsAssumption DEF Execution, TypeOK, TokenTypeOK
<1>. HIDE DEF d
<1>3. BestPaid(v, e, d) + ExecutorPaid(v, e, d) = RemainingCustodied(v, d)
  BY <1>1, <1>2 DEF BestPaid, ExecutorPaid, SaturatingSub
<1>4. BestPaid(v, e, d) \in Nat /\ ExecutorPaid(v, e, d) \in Nat
  BY ExecutionTypes DEF Execution, d
<1>5. InitialPaid(v) + BestPaid(v, e, d) + ExecutorPaid(v, e, d) + UserAmount(v, d)
        = custody[v]
  <2>1. BestPaid(v, e, d) + ExecutorPaid(v, e, d)
          = custody[v] - UserAmount(v, d) - InitialPaid(v)
    BY <1>1, <1>3, Zenon
  <2>. QED BY <1>2, <1>4, <2>1, SharesAddUp
<1>6. DepositAndFee(v, e, d) <= U64_MAX
  BY <1>1, <1>2
<1>. QED BY <1>5, <1>6 DEF Balances, Execution, d

-----------------------------------------------------------------------------
(* MoneyInPlace is inductive. *)

\* What MoneyInPlace reads of an order is the same after the step, up to gifts.
SameMoney(w) ==
    /\ auction'[w] = auction[w]
    /\ custody'[w] >= custody[w]
    /\ response'[w].exists = response[w].exists
    /\ response'[w].custody >= response[w].custody
    /\ fastFilled'[w] = fastFilled[w]
    /\ slowFilled'[w] = slowFilled[w]
    /\ delivered'[w] = delivered[w]

\* The numbers of an order, in the state and in the next one.
LEMMA Amounts ==
    ASSUME TypeOK, NEW w \in Vaas
    PROVE  /\ Order[w].amountIn \in Nat /\ Order[w].maxFee \in Nat
           /\ Order[w].initAuctionFee \in Nat /\ Order[w].baseFee \in Nat
           /\ auction[w].securityDeposit \in Nat /\ auction[w].offerPrice \in Nat
           /\ custody[w] \in Nat /\ response[w].custody \in Nat
           /\ fastFilled[w] \in Nat /\ slowFilled[w] \in Nat
           /\ delivered[w] \in Nat /\ U64_MAX \in Nat
<1>1. /\ Order[w].amountIn \in Nat /\ Order[w].maxFee \in Nat
      /\ Order[w].initAuctionFee \in Nat /\ Order[w].baseFee \in Nat
  BY OrderFacts DEF Orders
<1>2. auction[w].securityDeposit \in Nat /\ auction[w].offerPrice \in Nat
  BY LimitsAssumption DEF TypeOK, AuctionTypeOK, Auctions, U64
<1>3. response[w].custody \in Nat
  BY DEF TypeOK, ResponseTypeOK, Responses
<1>4. /\ custody[w] \in Nat /\ fastFilled[w] \in Nat /\ slowFilled[w] \in Nat
      /\ delivered[w] \in Nat
  BY DEF TypeOK, TokenTypeOK, OutputTypeOK
<1>. QED BY <1>1, <1>2, <1>3, <1>4, LimitsAssumption

LEMMA SameMoneyKept ==
    ASSUME TypeOK, TypeOK', NEW w \in Vaas, SameMoney(w),
           ActiveTerms(w), ResponseFunded(w), UserMinimum(w)
    PROVE  ActiveTerms(w)' /\ ResponseFunded(w)' /\ UserMinimum(w)'
<1>1. /\ Order[w].amountIn \in Nat /\ auction[w].securityDeposit \in Nat
      /\ custody[w] \in Nat /\ response[w].custody \in Nat
  BY Amounts
<1>2. custody'[w] \in Nat /\ response'[w].custody \in Nat
  BY DEF TypeOK, TokenTypeOK, ResponseTypeOK, Responses
<1>3. ActiveTerms(w)'
  BY <1>1, <1>2 DEF SameMoney, ActiveTerms
<1>4. ResponseFunded(w)'
  BY <1>1, <1>2 DEF SameMoney, ResponseFunded
<1>5. UserMinimum(w)'
  BY DEF SameMoney, UserMinimum
<1>. QED BY <1>3, <1>4, <1>5

LEMMA OtherOrdersMoney ==
    ASSUME TypeOK, NEW v \in Vaas, AuctionStep(v), NEW w \in Vaas, w # v
    PROVE  SameMoney(w)
<1>0. custody[w] \in Nat /\ response[w].custody \in Nat
  BY Amounts
<1> USE <1>0 DEF TypeOK, AuctionTypeOK, ResponseTypeOK, TokenTypeOK, OutputTypeOK,
               SameMoney, tokenVars, outputVars
<1>1. ASSUME NEW a \in Accounts, NEW p \in 0 .. Order[v].maxFee,
             PlaceInitialOfferCctp(v, a, p) \/ ImproveOffer(v, a, p)
      PROVE  SameMoney(w)
  BY <1>1 DEF PlaceInitialOfferCctp, ImproveOffer
<1>2. ASSUME NEW e \in Accounts,
             ExecuteFastOrderCctp(v, e) \/ ExecuteFastOrderLocal(v, e)
      PROVE  SameMoney(w)
  BY <1>2 DEF ExecuteFastOrderCctp, ExecuteFastOrderLocal, HandleExecuteFastOrder
<1>3. ASSUME NEW payer \in Payers, NEW b \in Accounts,
             PrepareOrderResponseCctp(v, payer, b)
      PROVE  SameMoney(w)
  BY <1>3 DEF PrepareOrderResponseCctp
<1>4. ASSUME NEW payer \in Payers,
             ReserveFastFillSequenceActiveAuction(v, payer)
      PROVE  SameMoney(w)
  BY <1>4 DEF ReserveFastFillSequenceActiveAuction
<1>5. CASE ReserveFastFillSequenceNoAuction(v) \/ CloseAuction(v)
  BY <1>5 DEF ReserveFastFillSequenceNoAuction, CloseAuction
<1>6. CASE SettleAuctionComplete(v)
  BY <1>6 DEF SettleAuctionComplete
<1>7. CASE SettleAuctionNoneCctp(v) \/ SettleAuctionNoneLocal(v)
  BY <1>7 DEF SettleAuctionNoneCctp, SettleAuctionNoneLocal,
              SettleNoneAndPrepareFill
<1>. QED BY <1>1, <1>2, <1>3, <1>4, <1>5, <1>6, <1>7, Zenon DEF AuctionStep

LEMMA OtherStepsMoney ==
    ASSUME TypeOK, NEW w \in Vaas,
           \/ \E f \in fastFills : FastFillStep(f)
           \/ OwnerStep
           \/ EnvironmentStep
           \/ UNCHANGED vars
    PROVE  SameMoney(w)
<1>0. custody[w] \in Nat /\ response[w].custody \in Nat
  BY Amounts
<1> USE <1>0 DEF SameMoney, tokenVars, outputVars
<1>1. ASSUME NEW f \in fastFills, FastFillStep(f)
      PROVE  SameMoney(w)
  BY <1>1 DEF FastFillStep, CompleteFastFill, CloseRedeemedFastFill
<1>2. CASE OwnerStep
  BY <1>2 DEF OwnerStep, SetPause, UpdateAuctionParameters, DisableRouterEndpoint,
     UpdateCctpRouterEndpoint, UpdateLocalRouterEndpoint, ownerFrame
<1>3. CASE AdvanceSlot \/ AdvanceTime
  BY <1>3 DEF AdvanceSlot, AdvanceTime, environmentFrame
<1>4. ASSUME NEW a \in VolatileAccounts, NEW s \in {"Open", "Frozen", "Closed"},
             ChangeAccountState(a, s)
      PROVE  SameMoney(w)
  BY <1>4 DEF ChangeAccountState, environmentFrame
<1>5. ASSUME NEW a \in Accounts, NEW v \in Vaas, Donate(a, v)
      PROVE  SameMoney(w)
  <2>1. /\ response'[w].exists = response[w].exists
        /\ response'[w].custody >= response[w].custody
    BY <1>5 DEF TypeOK, ResponseTypeOK, Responses, Donate
  <2>2. custody'[w] >= custody[w]
    BY <1>5 DEF TypeOK, TokenTypeOK, Donate
  <2>. QED BY <1>5, <2>1, <2>2 DEF Donate
<1>6. CASE UNCHANGED vars
  BY <1>6 DEF vars
<1>. QED BY <1>1, <1>2, <1>3, <1>4, <1>5, <1>6, Zenon DEF EnvironmentStep

\* Offers: the custody is refilled before anything leaves it for good.
LEMMA OffersKeepTerms ==
    ASSUME TypeOK, NEW v \in Vaas, ActiveTerms(v),
           NEW a \in Accounts, NEW p \in 0 .. Order[v].maxFee,
           PlaceInitialOfferCctp(v, a, p) \/ ImproveOffer(v, a, p)
    PROVE  ActiveTerms(v)'
<1>0. /\ Order[v].amountIn \in Nat /\ Order[v].maxFee \in Nat
      /\ auction[v].securityDeposit \in Nat
      /\ custody[v] \in Nat /\ U64_MAX \in Nat
  BY Amounts
<1>1. CASE PlaceInitialOfferCctp(v, a, p)
  <2>. DEFINE deposit == SaturatingAdd(Order[v].maxFee,
                            ComputeNotionalSecurityDeposit(Config[configId],
                                                           Order[v].amountIn))
  <2>1. /\ auction'[v].securityDeposit = deposit
        /\ auction'[v].offerPrice = p
    BY <1>1 DEF PlaceInitialOfferCctp, TypeOK, AuctionTypeOK
  <2>2. /\ Order[v].amountIn + deposit <= U64_MAX
        /\ custody'[v] = Order[v].amountIn + deposit
    BY <1>1 DEF PlaceInitialOfferCctp, TypeOK, TokenTypeOK
  <2>3. deposit \in Nat
    <3>1. ComputeNotionalSecurityDeposit(Config[configId], Order[v].amountIn) \in Nat
      BY DepositType, OrderFacts, LimitsAssumption DEF TypeOK, CustodianTypeOK, U64
    <3>. QED BY <1>0, <3>1, SaturatingTypes, LimitsAssumption DEF U64
  <2>. HIDE DEF deposit
  <2>. QED BY <1>0, <2>1, <2>2, <2>3 DEF ActiveTerms
<1>2. CASE ImproveOffer(v, a, p)
  <2>1. DepositOf(v) = Order[v].amountIn + auction[v].securityDeposit
    BY <1>0, <1>2 DEF ImproveOffer, ActiveTerms, DepositOf, TotalDeposit, SaturatingAdd
  <2>2. /\ auction'[v].securityDeposit = auction[v].securityDeposit
        /\ auction'[v].offerPrice = p
    BY <1>2 DEF ImproveOffer, Improved, TypeOK, AuctionTypeOK, Auctions
  <2>3. custody'[v] >= Order[v].amountIn + auction[v].securityDeposit
    <3>1. CASE UNCHANGED custody
      BY <1>2, <3>1 DEF ImproveOffer, ActiveTerms
    <3>2. CASE /\ Refund(v) <= custody[v]
               /\ custody' = [custody EXCEPT ![v] = @ - Refund(v) + DepositOf(v)]
      <4>1. Refund(v) \in Nat
        BY <1>0, <2>1 DEF Refund
      <4>. QED BY <1>0, <2>1, <3>2, <4>1 DEF TypeOK, TokenTypeOK
    <3>. QED BY <1>2, <3>1, <3>2 DEF ImproveOffer, OfferDeposit
  <2>. QED BY <1>0, <1>2, <2>2, <2>3 DEF ActiveTerms, ImproveOffer
<1>. QED BY <1>1, <1>2

\* A fill pays the user what was agreed.
LEMMA ExecutionPaysUser ==
    ASSUME TypeOK, NEW v \in Vaas, ActiveTerms(v), UserMinimum(v),
           NEW e \in Accounts,
           ExecuteFastOrderCctp(v, e) \/ ExecuteFastOrderLocal(v, e)
    PROVE  delivered'[v] >= delivered[v] + LeastAmounts[v]
<1> DEFINE d == DepositPenalty(v)
<1>1. auction[v].status = "Active"
  BY DEF ExecuteFastOrderCctp, ExecuteFastOrderLocal
<1>2. delivered' = [delivered EXCEPT ![v] = @ + UserAmount(v, d)]
  BY DEF ExecuteFastOrderCctp, ExecuteFastOrderLocal, HandleExecuteFastOrder,
         Execution
<1>3. UserAmount(v, d) = Order[v].amountIn - auction[v].offerPrice
                            - Order[v].initAuctionFee + d.userReward
  BY <1>1, ExecutionExact
<1>4. d.userReward \in Nat
  BY DepositPenaltyFacts
<1>5. auction[v].offerPrice <= Order[v].maxFee
  BY <1>1 DEF ActiveTerms
<1>. HIDE DEF d
<1>6. delivered'[v] = delivered[v] + UserAmount(v, d)
  BY <1>2 DEF TypeOK, OutputTypeOK
<1>. QED BY <1>3, <1>4, <1>5, <1>6, Amounts DEF LeastAmounts

LEMMA SettlementPaysUser ==
    ASSUME TypeOK, NEW v \in Vaas, ResponseFunded(v), SettleNoneAndPrepareFill(v)
    PROVE  delivered'[v] >= delivered[v] + LeastAmounts[v]
<1>0. /\ Order[v].amountIn \in Nat /\ Order[v].maxFee \in Nat
      /\ Order[v].initAuctionFee \in Nat /\ Order[v].baseFee \in Nat
      /\ response[v].custody \in Nat /\ delivered[v] \in Nat /\ U64_MAX \in Nat
  BY Amounts
<1>1. /\ Order[v].baseFee < Order[v].maxFee
      /\ Order[v].amountIn > Order[v].maxFee + Order[v].initAuctionFee
      /\ Order[v].amountIn <= U64_MAX
  BY OrderFacts, LimitsAssumption DEF U64
<1>2. response[v].custody >= Order[v].amountIn
  BY DEF SettleNoneAndPrepareFill, ResponseFunded
<1>3. SettleNoneFee(v) = Order[v].baseFee + Order[v].initAuctionFee
  BY <1>0, <1>1 DEF SettleNoneFee, SaturatingAdd
<1>4. SettleNoneUserAmount(v) = response[v].custody - SettleNoneFee(v)
  BY <1>0, <1>1, <1>2, <1>3 DEF SettleNoneUserAmount, SaturatingSub
<1>5. delivered'[v] = delivered[v] + SettleNoneUserAmount(v)
  BY DEF SettleNoneAndPrepareFill, TypeOK, OutputTypeOK
<1>. QED BY <1>0, <1>1, <1>2, <1>3, <1>4, <1>5 DEF LeastAmounts

LEMMA PaidEnough ==
    ASSUME TypeOK, TypeOK', NEW v \in Vaas,
           delivered'[v] >= delivered[v] + LeastAmounts[v]
    PROVE  UserMinimum(v)'
<1>1. delivered[v] \in Nat /\ delivered'[v] \in Nat
  BY DEF TypeOK, OutputTypeOK
<1>2. LeastAmounts[v] \in Int /\ LeastAmounts[v]
        = Order[v].amountIn - Order[v].maxFee - Order[v].initAuctionFee
  BY Amounts DEF LeastAmounts
<1>3. delivered'[v] >= LeastAmounts[v]
  BY <1>1, <1>2
<1>. QED BY <1>2, <1>3 DEF UserMinimum

LEMMA AuctionStepMoney ==
    ASSUME TypeOK, TypeOK', NEW v \in Vaas, AuctionStep(v),
           ActiveTerms(v), ResponseFunded(v), UserMinimum(v)
    PROVE  ActiveTerms(v)' /\ ResponseFunded(v)' /\ UserMinimum(v)'
<1>1. ASSUME NEW a \in Accounts, NEW p \in 0 .. Order[v].maxFee,
             PlaceInitialOfferCctp(v, a, p) \/ ImproveOffer(v, a, p)
      PROVE  ActiveTerms(v)' /\ ResponseFunded(v)' /\ UserMinimum(v)'
  <2>1. UNCHANGED <<response, fastFilled, slowFilled, delivered>>
    BY <1>1 DEF PlaceInitialOfferCctp, ImproveOffer, outputVars
  <2>2. ResponseFunded(v)' /\ UserMinimum(v)'
    BY <2>1 DEF ResponseFunded, UserMinimum
  <2>. QED BY <1>1, <2>2, OffersKeepTerms
<1>2. ASSUME NEW e \in Accounts,
             ExecuteFastOrderCctp(v, e) \/ ExecuteFastOrderLocal(v, e)
      PROVE  ActiveTerms(v)' /\ ResponseFunded(v)' /\ UserMinimum(v)'
  <2>1. auction'[v].status = "Completed" /\ UNCHANGED response
    BY <1>2 DEF ExecuteFastOrderCctp, ExecuteFastOrderLocal,
                HandleExecuteFastOrder, TypeOK, AuctionTypeOK, Auctions
  <2>. QED BY <1>2, <2>1, ExecutionPaysUser, PaidEnough
           DEF ActiveTerms, ResponseFunded
<1>3. ASSUME NEW payer \in Payers, NEW b \in Accounts,
             PrepareOrderResponseCctp(v, payer, b)
      PROVE  ActiveTerms(v)' /\ ResponseFunded(v)' /\ UserMinimum(v)'
  <2>1. /\ UNCHANGED <<auction, custody, fastFilled, slowFilled, delivered>>
        /\ response'[v].custody = Order[v].amountIn
    BY <1>3 DEF PrepareOrderResponseCctp, TypeOK, ResponseTypeOK, tokenVars,
                outputVars
  <2>. QED BY <2>1, Amounts DEF ActiveTerms, ResponseFunded, UserMinimum
<1>4. ASSUME NEW payer \in Payers,
             ReserveFastFillSequenceActiveAuction(v, payer)
      PROVE  ActiveTerms(v)' /\ ResponseFunded(v)' /\ UserMinimum(v)'
  <2>1. UNCHANGED <<auction, response, custody, fastFilled, slowFilled, delivered>>
    BY <1>4 DEF ReserveFastFillSequenceActiveAuction, tokenVars, outputVars
  <2>. QED BY <2>1 DEF ActiveTerms, ResponseFunded, UserMinimum
<1>5. CASE ReserveFastFillSequenceNoAuction(v) \/ CloseAuction(v)
  <2>1. auction'[v].status # "Active"
    <3>1. CASE ReserveFastFillSequenceNoAuction(v)
      BY <3>1, PlaceholderType
      DEF ReserveFastFillSequenceNoAuction, TypeOK, AuctionTypeOK
    <3>2. CASE CloseAuction(v)
      BY <3>2 DEF CloseAuction, NoAuction, TypeOK, AuctionTypeOK
    <3>. QED BY <1>5, <3>1, <3>2
  <2>2. UNCHANGED <<response, fastFilled, slowFilled, delivered>>
    BY <1>5 DEF ReserveFastFillSequenceNoAuction, CloseAuction, outputVars
  <2>. QED BY <2>1, <2>2 DEF ActiveTerms, ResponseFunded, UserMinimum
<1>6. CASE SettleAuctionComplete(v)
  <2>1. auction'[v].status = "Settled" /\ ~response'[v].exists
    BY <1>6 DEF SettleAuctionComplete, NoResponse, TypeOK, AuctionTypeOK,
       Auctions, ResponseTypeOK
  <2>2. UNCHANGED <<fastFilled, slowFilled, delivered>>
    BY <1>6 DEF SettleAuctionComplete, outputVars
  <2>. QED BY <2>1, <2>2 DEF ActiveTerms, ResponseFunded, UserMinimum
<1>7. CASE SettleAuctionNoneCctp(v) \/ SettleAuctionNoneLocal(v)
  <2>1. SettleNoneAndPrepareFill(v)
    BY <1>7 DEF SettleAuctionNoneCctp, SettleAuctionNoneLocal
  <2>2. auction'[v].status = "Settled" /\ ~response'[v].exists
    BY <2>1, PlaceholderType DEF SettleNoneAndPrepareFill, NoResponse, TypeOK,
       AuctionTypeOK, Auctions, ResponseTypeOK
  <2>. QED BY <2>1, <2>2, SettlementPaysUser, PaidEnough
           DEF ActiveTerms, ResponseFunded
<1>. QED BY <1>1, <1>2, <1>3, <1>4, <1>5, <1>6, <1>7, Zenon DEF AuctionStep

LEMMA NextMoney ==
    TypeOK /\ TypeOK' /\ MoneyInPlace /\ [Next]_vars => MoneyInPlace'
<1> SUFFICES ASSUME TypeOK, TypeOK', MoneyInPlace, [Next]_vars, NEW w \in Vaas
             PROVE  ActiveTerms(w)' /\ ResponseFunded(w)' /\ UserMinimum(w)'
  BY Zenon DEF MoneyInPlace
<1>1. ActiveTerms(w) /\ ResponseFunded(w) /\ UserMinimum(w)
  BY DEF MoneyInPlace
<1>2. ASSUME NEW v \in Vaas, AuctionStep(v)
      PROVE  ActiveTerms(w)' /\ ResponseFunded(w)' /\ UserMinimum(w)'
  BY <1>1, <1>2, AuctionStepMoney, OtherOrdersMoney, SameMoneyKept, Zenon
<1>3. ASSUME \/ \E f \in fastFills : FastFillStep(f)
             \/ OwnerStep
             \/ EnvironmentStep
             \/ UNCHANGED vars
      PROVE  ActiveTerms(w)' /\ ResponseFunded(w)' /\ UserMinimum(w)'
  BY <1>1, <1>3, OtherStepsMoney, SameMoneyKept, Zenon
<1>. QED BY <1>2, <1>3, Zenon DEF Next

LEMMA InitMoney == Init => MoneyInPlace
BY DEF Init, MoneyInPlace, ActiveTerms, ResponseFunded, UserMinimum, NoAuction,
       NoResponse

LEMMA MoneyStays == Spec => [](TypeOK /\ MoneyInPlace)
<1>1. TypeOK /\ MoneyInPlace /\ [Next]_vars => TypeOK' /\ MoneyInPlace'
  BY NextTypeOK, NextMoney
<1>. QED BY <1>1, InitTypeOK, InitMoney, PTL DEF Spec
-----------------------------------------------------------------------------
(* What it means for those who take part *)

\* The custody account of an active auction holds the best offer's deposit.
THEOREM DepositIsHeld == Spec => []CustodyCoversDeposit
<1>1. TypeOK /\ MoneyInPlace => CustodyCoversDeposit
  <2> SUFFICES ASSUME TypeOK, MoneyInPlace, NEW v \in Vaas,
                      auction[v].status = "Active"
               PROVE  custody[v] >= DepositOf(v)
    BY DEF CustodyCoversDeposit
  <2>. QED BY Amounts DEF MoneyInPlace, ActiveTerms, DepositOf, TotalDeposit,
              SaturatingAdd
<1>. QED BY <1>1, MoneyStays, PTL

\* An active auction can be executed by anyone at any slot: the transfers are
\* covered and leave nothing behind.
THEOREM ExecutionBalances == Spec => []ExecutionAlwaysBalances
<1>1. TypeOK /\ MoneyInPlace => ExecutionAlwaysBalances
  BY TermsBalance DEF MoneyInPlace, ExecutionAlwaysBalances
<1>. QED BY <1>1, MoneyStays, PTL

\* Whoever fills an order, and however late, the user gets the agreed minimum.
THEOREM UserIsPaid == Spec => []UserReceivesMinimum
<1>1. MoneyInPlace => UserReceivesMinimum
  BY DEF MoneyInPlace, UserMinimum, UserReceivesMinimum
<1>. QED BY <1>1, MoneyStays, PTL

-----------------------------------------------------------------------------
(* Placeholders *)

\* The sequence reserved with a placeholder stays with it, in the name of whoever
\* prepared the response.
PlaceholderReserved(v) ==
    auction[v].status = "NotStarted" =>
        /\ response[v].exists
        /\ reserved[v].exists
        /\ response[v].preparedBy = reserved[v].beneficiary

PlaceholdersReserved == \A v \in Vaas : PlaceholderReserved(v)

SamePlaceholder(w) ==
    /\ auction'[w] = auction[w]
    /\ reserved'[w] = reserved[w]
    /\ response'[w].exists = response[w].exists
    /\ response'[w].preparedBy = response[w].preparedBy

LEMMA OtherOrdersPlaceholder ==
    ASSUME TypeOK, NEW v \in Vaas, AuctionStep(v), NEW w \in Vaas, w # v
    PROVE  SamePlaceholder(w)
<1> USE DEF TypeOK, AuctionTypeOK, ResponseTypeOK, SequenceTypeOK, SamePlaceholder,
            sequenceVars
<1>1. ASSUME NEW a \in Accounts, NEW p \in 0 .. Order[v].maxFee,
             PlaceInitialOfferCctp(v, a, p) \/ ImproveOffer(v, a, p)
      PROVE  SamePlaceholder(w)
  BY <1>1 DEF PlaceInitialOfferCctp, ImproveOffer
<1>2. ASSUME NEW e \in Accounts,
             ExecuteFastOrderCctp(v, e) \/ ExecuteFastOrderLocal(v, e)
      PROVE  SamePlaceholder(w)
  BY <1>2 DEF ExecuteFastOrderCctp, ExecuteFastOrderLocal, HandleExecuteFastOrder,
              SendLocalFill
<1>3. ASSUME NEW payer \in Payers, NEW b \in Accounts,
             PrepareOrderResponseCctp(v, payer, b)
      PROVE  SamePlaceholder(w)
  BY <1>3 DEF PrepareOrderResponseCctp
<1>4. ASSUME NEW payer \in Payers,
             ReserveFastFillSequenceActiveAuction(v, payer)
      PROVE  SamePlaceholder(w)
  BY <1>4 DEF ReserveFastFillSequenceActiveAuction, ReserveSequence
<1>5. CASE ReserveFastFillSequenceNoAuction(v) \/ CloseAuction(v)
  BY <1>5 DEF ReserveFastFillSequenceNoAuction, ReserveSequence, CloseAuction
<1>6. CASE SettleAuctionComplete(v)
  BY <1>6 DEF SettleAuctionComplete
<1>7. CASE SettleAuctionNoneCctp(v) \/ SettleAuctionNoneLocal(v)
  BY <1>7 DEF SettleAuctionNoneCctp, SettleAuctionNoneLocal,
              SettleNoneAndPrepareFill, SendLocalFill
<1>. QED BY <1>1, <1>2, <1>3, <1>4, <1>5, <1>6, <1>7, Zenon DEF AuctionStep

LEMMA OtherStepsPlaceholder ==
    ASSUME TypeOK, NEW w \in Vaas,
           \/ \E f \in fastFills : FastFillStep(f)
           \/ OwnerStep
           \/ EnvironmentStep
           \/ UNCHANGED vars
    PROVE  SamePlaceholder(w)
<1> USE DEF SamePlaceholder, sequenceVars
<1>1. ASSUME NEW f \in fastFills, FastFillStep(f)
      PROVE  SamePlaceholder(w)
  BY <1>1 DEF FastFillStep, CompleteFastFill, CloseRedeemedFastFill
<1>2. CASE OwnerStep
  BY <1>2 DEF OwnerStep, SetPause, UpdateAuctionParameters, DisableRouterEndpoint,
     UpdateCctpRouterEndpoint, UpdateLocalRouterEndpoint, ownerFrame
<1>3. CASE AdvanceSlot \/ AdvanceTime
  BY <1>3 DEF AdvanceSlot, AdvanceTime, environmentFrame
<1>4. ASSUME NEW a \in VolatileAccounts, NEW s \in {"Open", "Frozen", "Closed"},
             ChangeAccountState(a, s)
      PROVE  SamePlaceholder(w)
  BY <1>4 DEF ChangeAccountState, environmentFrame
<1>5. ASSUME NEW a \in Accounts, NEW v \in Vaas, Donate(a, v)
      PROVE  SamePlaceholder(w)
  <2>1. /\ response'[w].exists = response[w].exists
        /\ response'[w].preparedBy = response[w].preparedBy
    BY <1>5 DEF TypeOK, ResponseTypeOK, Responses, Donate
  <2>. QED BY <1>5, <2>1 DEF Donate
<1>6. CASE UNCHANGED vars
  BY <1>6 DEF vars
<1>. QED BY <1>1, <1>2, <1>3, <1>4, <1>5, <1>6, Zenon DEF EnvironmentStep

\* A placeholder is only made together with its reservation, and while it is there
\* no instruction but its settlement touches the response or the reservation.
LEMMA AuctionStepPlaceholder ==
    ASSUME TypeOK, NEW v \in Vaas, PlaceholderReserved(v), AuctionStep(v)
    PROVE  PlaceholderReserved(v)'
<1> USE DEF TypeOK, AuctionTypeOK, ResponseTypeOK, SequenceTypeOK, sequenceVars,
            PlaceholderReserved
<1>1. ASSUME NEW a \in Accounts, NEW p \in 0 .. Order[v].maxFee,
             PlaceInitialOfferCctp(v, a, p) \/ ImproveOffer(v, a, p)
      PROVE  PlaceholderReserved(v)'
  <2>1. auction'[v].status = "Active"
    <3>1. CASE PlaceInitialOfferCctp(v, a, p)
      BY <3>1 DEF PlaceInitialOfferCctp
    <3>2. CASE ImproveOffer(v, a, p)
      BY <3>2 DEF ImproveOffer, Improved, Auctions
    <3>. QED BY <1>1, <3>1, <3>2
  <2>. QED BY <2>1
<1>2. ASSUME NEW e \in Accounts,
             ExecuteFastOrderCctp(v, e) \/ ExecuteFastOrderLocal(v, e)
      PROVE  PlaceholderReserved(v)'
  <2>1. auction'[v].status = "Completed"
    BY <1>2 DEF ExecuteFastOrderCctp, ExecuteFastOrderLocal,
                HandleExecuteFastOrder, Auctions
  <2>. QED BY <2>1
<1>3. ASSUME NEW payer \in Payers, NEW b \in Accounts,
             PrepareOrderResponseCctp(v, payer, b)
      PROVE  PlaceholderReserved(v)'
  BY <1>3 DEF PrepareOrderResponseCctp
<1>4. ASSUME NEW payer \in Payers,
             ReserveFastFillSequenceActiveAuction(v, payer)
      PROVE  PlaceholderReserved(v)'
  BY <1>4 DEF ReserveFastFillSequenceActiveAuction
<1>5. CASE ReserveFastFillSequenceNoAuction(v)
  BY <1>5 DEF ReserveFastFillSequenceNoAuction, ReserveSequence
<1>6. CASE CloseAuction(v)
  BY <1>6 DEF CloseAuction, NoAuction
<1>7. CASE SettleAuctionComplete(v)
  BY <1>7 DEF SettleAuctionComplete, Auctions
<1>8. CASE SettleAuctionNoneCctp(v) \/ SettleAuctionNoneLocal(v)
  <2>1. auction'[v].status = "Settled"
    BY <1>8, PlaceholderType DEF SettleAuctionNoneCctp, SettleAuctionNoneLocal,
       SettleNoneAndPrepareFill, Auctions
  <2>. QED BY <2>1
<1>. QED BY <1>1, <1>2, <1>3, <1>4, <1>5, <1>6, <1>7, <1>8, Zenon
         DEF AuctionStep

LEMMA NextPlaceholders ==
    TypeOK /\ PlaceholdersReserved /\ [Next]_vars => PlaceholdersReserved'
<1> SUFFICES ASSUME TypeOK, PlaceholdersReserved, [Next]_vars, NEW w \in Vaas
             PROVE  PlaceholderReserved(w)'
  BY Zenon DEF PlaceholdersReserved
<1>1. PlaceholderReserved(w)
  BY DEF PlaceholdersReserved
<1>2. SamePlaceholder(w) => PlaceholderReserved(w)'
  BY <1>1 DEF SamePlaceholder, PlaceholderReserved
<1>. QED BY <1>1, <1>2, AuctionStepPlaceholder, OtherOrdersPlaceholder,
            OtherStepsPlaceholder, Zenon DEF Next

LEMMA InitPlaceholders == Init => PlaceholdersReserved
BY DEF Init, PlaceholdersReserved, PlaceholderReserved, NoAuction

\* A placeholder, which keeps offers away from its order, is never stuck: the
\* response it was made from, the sequence reserved with it and the money for the
\* fees are there until the order is settled.
THEOREM PlaceholdersSettle == Spec => []PlaceholderCanSettle
<1>1. TypeOK /\ PlaceholdersReserved /\ [Next]_vars
        => TypeOK' /\ PlaceholdersReserved'
  BY NextTypeOK, NextPlaceholders
<1>2. TypeOK /\ MoneyInPlace /\ PlaceholdersReserved => PlaceholderCanSettle
  <2> SUFFICES ASSUME TypeOK, MoneyInPlace, PlaceholdersReserved, NEW v \in Vaas,
                      response[v].exists
               PROVE  SettleNoneFee(v) <= response[v].custody
    BY DEF PlaceholdersReserved, PlaceholderReserved, PlaceholderCanSettle
  <2>1. response[v].custody >= Order[v].amountIn
    BY DEF MoneyInPlace, ResponseFunded
  <2>. QED BY <2>1, Amounts, OrderFacts DEF SettleNoneFee, SaturatingAdd
<1>. QED BY <1>1, <1>2, MoneyStays, InitTypeOK, InitPlaceholders, PTL DEF Spec

-----------------------------------------------------------------------------
(* The engine implements OrderLifecycle. *)

\* The money of an order leaves the engine only with its fill, or after it, and
\* then the order is settled: what keeps a fill from an order whose money is gone.
FundsAccounted(v) ==
    minted[v] /\ ~response[v].exists =>
        /\ fastFilled[v] + slowFilled[v] = 1
        /\ auction[v].status \in {"Settled", "Absent"}

AllFundsAccounted == \A v \in Vaas : FundsAccounted(v)

LEMMA SameOrderFunds ==
    ASSUME NEW w \in Vaas, FundsAccounted(w), SameOrder(w)
    PROVE  FundsAccounted(w)'
BY DEF FundsAccounted, SameOrder

LEMMA AuctionStepFunds ==
    ASSUME TypeOK, NEW v \in Vaas, FillsMatch(v), FundsAccounted(v), AuctionStep(v)
    PROVE  FundsAccounted(v)'
<1>1. ExpirationTime(v) \in Nat /\ now \in Nat
  BY OrderFacts, ConstantsAssumption DEF ExpirationTime, Orders, TypeOK, ClockTypeOK
<1>2. fastFilled[v] \in Nat /\ slowFilled[v] \in Nat
  BY Amounts
<1> USE <1>1, <1>2 DEF TypeOK, AuctionTypeOK, ResponseTypeOK, OutputTypeOK,
        FundsAccounted, outputVars
<1>3. ASSUME NEW a \in Accounts, NEW p \in 0 .. Order[v].maxFee,
             PlaceInitialOfferCctp(v, a, p)
      PROVE  FundsAccounted(v)'
  BY <1>3 DEF PlaceInitialOfferCctp, AuctionAccountFree, FillsMatch
<1>4. ASSUME NEW a \in Accounts, NEW p \in 0 .. Order[v].maxFee,
             ImproveOffer(v, a, p)
      PROVE  FundsAccounted(v)'
  BY <1>4 DEF ImproveOffer
<1>5. ASSUME NEW e \in Accounts,
             ExecuteFastOrderCctp(v, e) \/ ExecuteFastOrderLocal(v, e)
      PROVE  FundsAccounted(v)'
  BY <1>5 DEF ExecuteFastOrderCctp, ExecuteFastOrderLocal
<1>6. ASSUME NEW payer \in Payers, NEW b \in Accounts,
             PrepareOrderResponseCctp(v, payer, b)
      PROVE  FundsAccounted(v)'
  BY <1>6 DEF PrepareOrderResponseCctp
<1>7. ASSUME NEW payer \in Payers,
             ReserveFastFillSequenceActiveAuction(v, payer)
      PROVE  FundsAccounted(v)'
  BY <1>7 DEF ReserveFastFillSequenceActiveAuction
<1>8. CASE ReserveFastFillSequenceNoAuction(v)
  BY <1>8 DEF ReserveFastFillSequenceNoAuction
<1>9. CASE SettleAuctionComplete(v)
  BY <1>9 DEF SettleAuctionComplete, FillsMatch, Auctions
<1>10. CASE SettleAuctionNoneCctp(v) \/ SettleAuctionNoneLocal(v)
  <2>1. /\ auction[v].status \in {"Absent", "NotStarted"}
        /\ response[v].exists
        /\ slowFilled'[v] = slowFilled[v] + 1
        /\ UNCHANGED fastFilled
    BY <1>10 DEF SettleAuctionNoneCctp, SettleAuctionNoneLocal,
       SettleNoneAndPrepareFill, AuctionAccountFree, IsPlaceholder
  <2>2. auction'[v].status = "Settled"
    BY <1>10, PlaceholderType
    DEF SettleAuctionNoneCctp, SettleAuctionNoneLocal,
        SettleNoneAndPrepareFill, Auctions
  <2>. QED BY <2>1, <2>2 DEF FillsMatch
<1>11. CASE CloseAuction(v)
  BY <1>11 DEF CloseAuction, Closable, NoAuction
<1>. QED BY <1>3, <1>4, <1>5, <1>6, <1>7, <1>8, <1>9, <1>10, <1>11, Zenon
         DEF AuctionStep

LEMMA NextFunds ==
    TypeOK /\ FillsMatchAuction /\ AllFundsAccounted /\ [Next]_vars
        => AllFundsAccounted'
<1> SUFFICES ASSUME TypeOK, FillsMatchAuction, AllFundsAccounted, [Next]_vars,
                    NEW w \in Vaas
             PROVE  FundsAccounted(w)'
  BY Zenon DEF AllFundsAccounted
<1>1. FillsMatch(w) /\ FundsAccounted(w)
  BY DEF FillsMatchAuction, AllFundsAccounted
<1>. QED BY <1>1, AuctionStepFunds, SameOrderFunds, OtherOrdersSame, OtherStepsSame,
            Zenon DEF Next

\* Lifecycle is implemented from states where fills, funds and money agree.
LifecycleInv == TypeOK /\ FillsMatchAuction /\ AllFundsAccounted /\ MoneyInPlace

LEMMA LifecycleInvHolds == Spec => []LifecycleInv
<1>1. Init => LifecycleInv
  BY InitTypeOK, InitFills, InitMoney
  DEF LifecycleInv, Init, AllFundsAccounted, FundsAccounted
<1>2. LifecycleInv /\ [Next]_vars => LifecycleInv'
  BY NextTypeOK, NextFills, NextFunds, NextMoney, Zenon DEF LifecycleInv
<1>. QED BY <1>1, <1>2, PTL DEF Spec

\* A step that fills nothing and leaves the orders' money where it is.
LEMMA LifecycleStutter ==
    ASSUME UNCHANGED <<fastFilled, slowFilled, delivered, minted>>,
           \A v \in Vaas : response'[v].exists = response[v].exists
    PROVE  UNCHANGED Lifecycle!vars
<1>1. \A v \in Vaas : FundsOf(v)' = FundsOf(v)
  BY DEF FundsOf
<1>2. Funds' = Funds
  BY <1>1 DEF Funds
<1>. QED BY <1>2 DEF Lifecycle!vars

\* The user of an order is paid what it agreed to.
LEMMA Payment ==
    ASSUME TypeOK, NEW v \in Vaas, NEW amount \in Nat,
           delivered' = [delivered EXCEPT ![v] = @ + amount],
           delivered'[v] >= delivered[v] + LeastAmounts[v]
    PROVE  Lifecycle!Pay(v)
<1>1. delivered' = [delivered EXCEPT ![v] = delivered'[v]]
  BY DEF TypeOK, OutputTypeOK
<1>. QED BY <1>1 DEF Lifecycle!Pay

LEMMA ExecutionLifecycle ==
    ASSUME LifecycleInv, NEW v \in Vaas, NEW e \in Accounts,
           ExecuteFastOrderCctp(v, e) \/ ExecuteFastOrderLocal(v, e)
    PROVE  Lifecycle!FillFast(v)
<1> DEFINE x == Execution(v, e, DepositPenalty(v))
<1>0. TypeOK /\ FillsMatch(v) /\ FundsAccounted(v) /\ ActiveTerms(v) /\ UserMinimum(v)
  BY DEF LifecycleInv, FillsMatchAuction, AllFundsAccounted, MoneyInPlace
<1>1. /\ auction[v].status = "Active"
      /\ fastFilled' = [fastFilled EXCEPT ![v] = @ + 1]
      /\ delivered' = [delivered EXCEPT ![v] = @ + x.userAmount]
      /\ UNCHANGED <<response, minted, slowFilled>>
  BY DEF ExecuteFastOrderCctp, ExecuteFastOrderLocal, HandleExecuteFastOrder
<1>2. x.userAmount \in Nat
  BY <1>0, <1>1, ExecutionTypes
<1>. HIDE DEF x
<1>3. fastFilled[v] = 0 /\ slowFilled[v] = 0
  BY <1>0, <1>1, Amounts DEF FillsMatch
<1>4. Funds[v] # "spent"
  BY <1>0, <1>1 DEF FundsAccounted, Funds, FundsOf
<1>5. Funds' = Funds
  BY <1>1, LifecycleStutter DEF Funds, FundsOf
<1>6. Lifecycle!Pay(v)
  BY <1>0, <1>1, <1>2, ExecutionPaysUser, Payment
<1>7. fastFilled' = [fastFilled EXCEPT ![v] = 1]
  BY <1>0, <1>1, <1>3 DEF TypeOK, OutputTypeOK
<1>. QED BY <1>1, <1>3, <1>4, <1>5, <1>6, <1>7
         DEF Lifecycle!FillFast, Lifecycle!Unfilled

\* How an instruction on one order moves the order's money.
LEMMA FundsMove ==
    ASSUME NEW v \in Vaas,
           \A w \in Vaas \ {v} : /\ minted'[w] = minted[w]
                                 /\ response'[w].exists = response[w].exists
    PROVE  Funds' = [Funds EXCEPT ![v] = FundsOf(v)']
<1>1. \A w \in Vaas \ {v} : FundsOf(w)' = FundsOf(w)
  BY DEF FundsOf
<1>2. Funds = [w \in Vaas |-> FundsOf(w)]
  BY DEF Funds
<1>3. Funds' = [w \in Vaas |-> FundsOf(w)']
  BY DEF Funds
<1>. HIDE DEF Funds
<1>. QED BY <1>1, <1>2, <1>3

LEMMA SettlementLifecycle ==
    ASSUME LifecycleInv, NEW v \in Vaas,
           SettleAuctionNoneCctp(v) \/ SettleAuctionNoneLocal(v)
    PROVE  Lifecycle!FillSlow(v)
<1>0. TypeOK /\ FillsMatch(v) /\ ResponseFunded(v)
  BY DEF LifecycleInv, FillsMatchAuction, MoneyInPlace
<1>1. /\ SettleNoneAndPrepareFill(v)
      /\ auction[v].status \in {"Absent", "NotStarted"}
      /\ UNCHANGED <<minted, fastFilled>>
  BY DEF SettleAuctionNoneCctp, SettleAuctionNoneLocal, AuctionAccountFree,
         IsPlaceholder
<1>2. /\ response[v].exists
      /\ response' = [response EXCEPT ![v] = NoResponse]
      /\ slowFilled' = [slowFilled EXCEPT ![v] = @ + 1]
      /\ delivered' = [delivered EXCEPT ![v] = @ + SettleNoneUserAmount(v)]
  BY <1>1 DEF SettleNoneAndPrepareFill
<1>3. minted[v] /\ fastFilled[v] = 0 /\ slowFilled[v] = 0
  BY <1>0, <1>1, <1>2, Amounts DEF FillsMatch
<1>4. Funds[v] = "engine"
  BY <1>2, <1>3 DEF Funds, FundsOf
<1>5. Funds' = [Funds EXCEPT ![v] = "spent"]
  <2>1. /\ ~response'[v].exists /\ minted'[v]
        /\ \A w \in Vaas \ {v} : response'[w] = response[w]
    BY <1>0, <1>1, <1>2, <1>3 DEF TypeOK, ResponseTypeOK, NoResponse
  <2>2. FundsOf(v)' = "spent"
    BY <2>1 DEF FundsOf
  <2>. QED BY <1>1, <2>1, <2>2, FundsMove
<1>6. Lifecycle!Pay(v)
  BY <1>0, <1>1, <1>2, SettleNoneAmounts, SettlementPaysUser, Payment
<1>7. slowFilled' = [slowFilled EXCEPT ![v] = 1]
  BY <1>0, <1>2, <1>3 DEF TypeOK, OutputTypeOK
<1>. QED BY <1>1, <1>3, <1>4, <1>5, <1>6, <1>7
         DEF Lifecycle!FillSlow, Lifecycle!Unfilled

LEMMA PrepareLifecycle ==
    ASSUME LifecycleInv, NEW v \in Vaas, NEW payer \in Payers, NEW b \in Accounts,
           PrepareOrderResponseCctp(v, payer, b)
    PROVE  Lifecycle!Receive(v)
<1>1. /\ ~minted[v] /\ minted'[v]
      /\ ~response[v].exists /\ response'[v].exists
      /\ \A w \in Vaas \ {v} : /\ minted'[w] = minted[w]
                               /\ response'[w] = response[w]
      /\ UNCHANGED <<fastFilled, slowFilled, delivered>>
  BY DEF LifecycleInv, TypeOK, ResponseTypeOK, PrepareOrderResponseCctp, Receivable,
         outputVars
<1>2. Funds[v] = "source"
  BY <1>1 DEF Funds, FundsOf
<1>5. FundsOf(v)' = "engine"
  BY <1>1 DEF FundsOf
<1>3. Funds' = [Funds EXCEPT ![v] = "engine"]
  BY <1>1, <1>5, FundsMove
<1>. QED BY <1>1, <1>2, <1>3 DEF Lifecycle!Receive

LEMMA RepaymentLifecycle ==
    ASSUME LifecycleInv, NEW v \in Vaas, SettleAuctionComplete(v)
    PROVE  Lifecycle!Repay(v)
<1>1. /\ response[v].exists /\ ~response'[v].exists
      /\ auction[v].status = "Completed"
      /\ \A w \in Vaas \ {v} : response'[w] = response[w]
      /\ UNCHANGED <<minted, fastFilled, slowFilled, delivered>>
  BY DEF LifecycleInv, TypeOK, ResponseTypeOK, SettleAuctionComplete, NoResponse,
         outputVars
<1>2. minted[v] /\ fastFilled[v] = 1
  BY <1>1 DEF LifecycleInv, FillsMatchAuction, FillsMatch
<1>3. Funds[v] = "engine" /\ FundsOf(v)' = "spent"
  BY <1>1, <1>2 DEF Funds, FundsOf
<1>4. Funds' = [Funds EXCEPT ![v] = "spent"]
  BY <1>1, <1>3, FundsMove
<1>. QED BY <1>1, <1>2, <1>3, <1>4 DEF Lifecycle!Repay

LEMMA LifecycleStep ==
    LifecycleInv /\ [Next]_vars => [Lifecycle!Next]_Lifecycle!vars
<1> SUFFICES ASSUME LifecycleInv, [Next]_vars
             PROVE  Lifecycle!Next \/ UNCHANGED Lifecycle!vars
  OBVIOUS
<1>1. ASSUME NEW v \in Vaas, AuctionStep(v)
      PROVE  Lifecycle!Next \/ UNCHANGED Lifecycle!vars
  <2>1. ASSUME NEW a \in Accounts, NEW p \in 0 .. Order[v].maxFee,
               PlaceInitialOfferCctp(v, a, p) \/ ImproveOffer(v, a, p)
        PROVE  UNCHANGED Lifecycle!vars
    BY <2>1, LifecycleStutter DEF PlaceInitialOfferCctp, ImproveOffer, outputVars
  <2>2. ASSUME NEW e \in Accounts,
               ExecuteFastOrderCctp(v, e) \/ ExecuteFastOrderLocal(v, e)
        PROVE  Lifecycle!Next
    BY <2>2, ExecutionLifecycle DEF Lifecycle!Next
  <2>3. ASSUME NEW payer \in Payers, NEW b \in Accounts,
               PrepareOrderResponseCctp(v, payer, b)
        PROVE  Lifecycle!Next
    BY <2>3, PrepareLifecycle DEF Lifecycle!Next
  <2>4. ASSUME NEW payer \in Payers,
               ReserveFastFillSequenceActiveAuction(v, payer)
        PROVE  UNCHANGED Lifecycle!vars
    BY <2>4, LifecycleStutter DEF ReserveFastFillSequenceActiveAuction, outputVars
  <2>5. CASE ReserveFastFillSequenceNoAuction(v) \/ CloseAuction(v)
    BY <2>5, LifecycleStutter
    DEF ReserveFastFillSequenceNoAuction, CloseAuction, outputVars
  <2>6. CASE SettleAuctionComplete(v)
    BY <2>6, RepaymentLifecycle DEF Lifecycle!Next
  <2>7. CASE SettleAuctionNoneCctp(v) \/ SettleAuctionNoneLocal(v)
    BY <2>7, SettlementLifecycle DEF Lifecycle!Next
  <2>. QED BY <1>1, <2>1, <2>2, <2>3, <2>4, <2>5, <2>6, <2>7, Zenon
           DEF AuctionStep
<1>2. ASSUME \/ \E f \in fastFills : FastFillStep(f)
             \/ OwnerStep
             \/ EnvironmentStep
             \/ UNCHANGED vars
      PROVE  UNCHANGED Lifecycle!vars
  <2>1. UNCHANGED <<fastFilled, slowFilled, delivered, minted>>
    BY <1>2, Zenon
    DEF FastFillStep, CompleteFastFill, CloseRedeemedFastFill, OwnerStep, SetPause,
        UpdateAuctionParameters, DisableRouterEndpoint, UpdateCctpRouterEndpoint,
        UpdateLocalRouterEndpoint, ownerFrame, EnvironmentStep, AdvanceSlot,
        AdvanceTime, ChangeAccountState, Donate, environmentFrame, outputVars, vars
  <2>2. ASSUME NEW w \in Vaas
        PROVE  response'[w].exists = response[w].exists
    BY <1>2, OtherStepsSame DEF LifecycleInv, SameOrder
  <2>. QED BY <2>1, <2>2, LifecycleStutter
<1>. QED BY <1>1, <1>2, Zenon DEF Next

\* The matching engine keeps the promise of OrderLifecycle for every set of orders,
\* accounts and configurations: each order is filled once, for at least the agreed
\* amount, and its own money is spent once, after it arrived and not before it is
\* filled.
THEOREM EngineKeepsPromise == Spec => ImplementsLifecycle
<1>1. Init => Lifecycle!Init
  <2> SUFFICES ASSUME Init PROVE Lifecycle!Init
    OBVIOUS
  <2>1. \A v \in Vaas : FundsOf(v) = "source"
    BY DEF Init, FundsOf, NoResponse
  <2>2. Funds = [v \in Vaas |-> "source"]
    BY <2>1 DEF Funds
  <2>. QED BY <2>2 DEF Init, Lifecycle!Init
<1>. QED BY <1>1, LifecycleStep, LifecycleInvHolds, PTL
         DEF Spec, ImplementsLifecycle, Lifecycle!Spec

-----------------------------------------------------------------------------
(* The best offer is reimbursed. *)

\* What an execution leaves of the security deposit.
DepositKept(v) == IF slot <= GraceEnd(v) THEN auction[v].securityDeposit ELSE 0

LEMMA NoPenaltyInGrace ==
    ASSUME NEW v \in Vaas, slot <= GraceEnd(v)
    PROVE  DepositPenalty(v) = NoDepositPenalty
BY DEF DepositPenalty, ComputeDepositPenalty, WithinGracePeriod, GraceEnd

\* The penalty and the reward never eat more than what may be forfeited.
LEMMA ForfeitLeaves ==
    ASSUME TypeOK, NEW v \in Vaas
    PROVE  LET d == DepositPenalty(v)
           IN  auction[v].securityDeposit - d.userReward - d.penalty >= DepositKept(v)
<1>1. auction[v].securityDeposit \in Nat
  BY Amounts
<1>2. CASE slot <= GraceEnd(v)
  BY <1>1, <1>2, NoPenaltyInGrace DEF NoDepositPenalty, DepositKept
<1>3. CASE ~(slot <= GraceEnd(v))
  BY <1>1, <1>3, DepositPenaltyFacts DEF DepositKept
<1>. QED BY <1>2, <1>3

\* What handle_execute_fast_order pays a best offer that can be paid.
LEMMA BestOfferPaid ==
    ASSUME TypeOK, NEW v \in Vaas, ActiveTerms(v), auction[v].status = "Active",
           NEW e \in Accounts, Usable(auction[v].best)
    PROVE  LET x == Execution(v, e, DepositPenalty(v))
           IN  x.bestPaid >= auction[v].offerPrice + DepositKept(v)
<1> DEFINE d == DepositPenalty(v)
           a == auction[v]
           own == IF Usable(a.initial) /\ a.best = a.initial
                  THEN Order[v].initAuctionFee ELSE 0
           late == IF a.best # e THEN d.penalty ELSE 0
<1>1. /\ a.offerPrice \in Nat /\ a.securityDeposit \in Nat
      /\ own \in Nat /\ d.penalty \in Nat /\ d.userReward \in Nat
      /\ late \in Nat /\ late <= d.penalty
  BY Amounts, DepositPenaltyFacts
<1>2. DepositAndFee(v, e, d) = a.offerPrice + a.securityDeposit - d.userReward
                                  + own - late
  BY ExecutionExact
<1>3. a.securityDeposit - d.userReward - d.penalty >= DepositKept(v)
  BY ForfeitLeaves
<1>4. DepositKept(v) \in Nat
  BY <1>1 DEF DepositKept
<1>5. RemainingCustodied(v, d) >= DepositAndFee(v, e, d)
  BY ExecutionExact
<1>6. BestPaid(v, e, d) >= DepositAndFee(v, e, d)
  <2>1. DepositAndFee(v, e, d) \in Nat
    BY ExecutionExact, LimitsAssumption
  <2>. QED BY <1>5, <2>1 DEF BestPaid
<1>7. BestPaid(v, e, d) \in Nat
  BY ExecutionTypes DEF Execution
<1>. HIDE DEF d, a, own, late
<1>8. BestPaid(v, e, d) >= a.offerPrice + DepositKept(v)
  BY <1>1, <1>2, <1>3, <1>4, <1>6, <1>7
<1>. QED BY <1>8 DEF Execution, d, a

LEMMA ExecutionReimburses ==
    ASSUME TypeOK, NEW v \in Vaas, ActiveTerms(v), NEW e \in Accounts,
           ExecuteFastOrderCctp(v, e) \/ ExecuteFastOrderLocal(v, e),
           Usable(auction[v].best)
    PROVE  balance'[auction[v].best]
              >= balance[auction[v].best] + auction[v].offerPrice + DepositKept(v)
<1> DEFINE x == Execution(v, e, DepositPenalty(v))
           best == auction[v].best
           f == [a \in Accounts |->
                   (IF a = auction[v].initial THEN x.initialPaid ELSE 0)
                     + (IF a = auction[v].best THEN x.bestPaid ELSE 0)
                     + (IF a = e THEN x.executorPaid ELSE 0)]
<1>1. auction[v].status = "Active" /\ Credit(f)
  BY DEF ExecuteFastOrderCctp, ExecuteFastOrderLocal, HandleExecuteFastOrder
<1>2. best \in Accounts
  BY <1>1 DEF TypeOK, AuctionTypeOK
<1>3. x.initialPaid \in Nat /\ x.bestPaid \in Nat /\ x.executorPaid \in Nat
  BY ExecutionTypes
<1>4. x.bestPaid >= auction[v].offerPrice + DepositKept(v)
  BY <1>1, BestOfferPaid
<1>5. /\ auction[v].offerPrice \in Nat /\ DepositKept(v) \in Nat
      /\ balance[best] \in Nat
  BY <1>2, Amounts DEF DepositKept, TypeOK, TokenTypeOK
<1>. HIDE DEF x
<1>6. f[best] \in Nat /\ f[best] >= x.bestPaid
  BY <1>2, <1>3
<1>7. balance'[best] = balance[best] + f[best]
  BY <1>1, <1>2 DEF Credit
<1>. HIDE DEF f, best
<1>8. balance'[best] >= balance[best] + auction[v].offerPrice + DepositKept(v)
  BY <1>3, <1>4, <1>5, <1>6, <1>7
<1>. QED BY <1>8 DEF best

\* Only an execution completes an auction.
LEMMA OnlyExecutionCompletes ==
    ASSUME TypeOK, NEW v \in Vaas, [Next]_vars, Executes(v)
    PROVE  \E e \in Accounts : ExecuteFastOrderCctp(v, e) \/ ExecuteFastOrderLocal(v, e)
<1>1. ~SameOrder(v)
  BY DEF SameOrder, Executes
<1>2. AuctionStep(v)
  BY <1>1, OtherOrdersSame, OtherStepsSame, Zenon DEF Next
<1>3. auction[v].status = "Active" /\ auction'[v].status = "Completed"
  BY DEF Executes
<1> USE <1>3 DEF TypeOK, AuctionTypeOK
<1>4. ASSUME NEW a \in Accounts, NEW p \in 0 .. Order[v].maxFee,
             PlaceInitialOfferCctp(v, a, p) \/ ImproveOffer(v, a, p)
      PROVE  FALSE
  <2>1. CASE PlaceInitialOfferCctp(v, a, p)
    BY <2>1 DEF PlaceInitialOfferCctp, AuctionAccountFree
  <2>2. CASE ImproveOffer(v, a, p)
    BY <2>2 DEF ImproveOffer, Improved, Auctions
  <2>. QED BY <1>4, <2>1, <2>2
<1>5. ASSUME NEW payer \in Payers, NEW b \in Accounts,
             PrepareOrderResponseCctp(v, payer, b)
      PROVE  FALSE
  BY <1>5 DEF PrepareOrderResponseCctp
<1>6. ASSUME NEW payer \in Payers,
             ReserveFastFillSequenceActiveAuction(v, payer)
      PROVE  FALSE
  BY <1>6 DEF ReserveFastFillSequenceActiveAuction
<1>7. ~ReserveFastFillSequenceNoAuction(v) /\ ~CloseAuction(v)
  BY DEF ReserveFastFillSequenceNoAuction, AuctionAccountFree, CloseAuction, Closable
<1>8. ~SettleAuctionComplete(v)
  BY DEF SettleAuctionComplete
<1>9. ~SettleAuctionNoneCctp(v) /\ ~SettleAuctionNoneLocal(v)
  BY DEF SettleAuctionNoneCctp, SettleAuctionNoneLocal, AuctionAccountFree,
         IsPlaceholder
<1>. QED BY <1>2, <1>4, <1>5, <1>6, <1>7, <1>8, <1>9, Zenon DEF AuctionStep

\* The solver's side of the bargain: whoever executes, and however the accounts of
\* the others changed, a best offer that can be paid gets back its price, and its
\* deposit too up to the end of the grace period.
THEOREM BestOfferReimbursed == Spec => BestOfferIsReimbursed
<1> DEFINE Reimbursed ==
             \A v \in Vaas :
                LET a == auction[v]
                IN  Executes(v) /\ Usable(a.best) =>
                      balance'[a.best] >= balance[a.best] + a.offerPrice
                          + (IF slot <= GraceEnd(v) THEN a.securityDeposit ELSE 0)
<1>1. TypeOK /\ MoneyInPlace /\ [Next]_vars => Reimbursed
  <2> SUFFICES ASSUME TypeOK, MoneyInPlace, [Next]_vars, NEW v \in Vaas,
                      Executes(v), Usable(auction[v].best)
               PROVE  balance'[auction[v].best]
                         >= balance[auction[v].best] + auction[v].offerPrice
                               + DepositKept(v)
    BY Zenon DEF DepositKept
  <2>1. ActiveTerms(v)
    BY DEF MoneyInPlace
  <2>. QED BY <2>1, OnlyExecutionCompletes, ExecutionReimburses
<1>. HIDE DEF Reimbursed
<1>2. Spec => [][Reimbursed]_vars
  BY <1>1, MoneyStays, PTL DEF Spec
<1>. QED BY <1>2 DEF BestOfferIsReimbursed, Reimbursed

-----------------------------------------------------------------------------
(* Sums over finite sets *)

\* A family of subsets of a finite set has a minimal member: the least
\* counterexample, which stands for induction in what follows.
LEMMA MinimalSubset ==
    ASSUME NEW S, IsFiniteSet(S), NEW Bad, Bad \subseteq SUBSET S, Bad # {}
    PROVE  \E T \in Bad : \A U \in Bad : U \subseteq T => U = T
<1>1. IsWellFoundedOn(StrictSubsetOrdering(S), SUBSET S)
  BY FS_StrictSubsetOrderingWellFounded, FS_FiniteSubsetsOfFinite
<1>2. PICK T \in Bad : \A U \in Bad : ~(<<U, T>> \in StrictSubsetOrdering(S))
  BY <1>1, WFMin
<1>. QED BY <1>2 DEF StrictSubsetOrdering

-----------------------------------------------------------------------------
(* The recursion inside SumFunctionOnSet has a solution. *)

\* The element a fold takes out of a set.
Pick(s) == CHOOSE x \in s : TRUE

\* h[s] is the sum of f over s, for the subsets s of T.
IsSum(h, f, T) ==
    h = [s \in SUBSET T |->
            IF s = {} THEN 0 ELSE f[Pick(s)] + h[s \ {Pick(s)}]]

LEMMA PickFacts ==
    ASSUME NEW s, s # {}
    PROVE  /\ Pick(s) \in s
           /\ s \ {Pick(s)} \subseteq s
           /\ s \ {Pick(s)} # s
BY DEF Pick

LEMMA SumIsUnique ==
    ASSUME NEW f, NEW T, IsFiniteSet(T), NEW U \in SUBSET T,
           NEW h, IsSum(h, f, U), NEW k, IsSum(k, f, T)
    PROVE  \A s \in SUBSET U : h[s] = k[s]
<1> DEFINE Bad == {s \in SUBSET U : h[s] # k[s]}
<1> SUFFICES ASSUME Bad # {} PROVE FALSE
  OBVIOUS
<1>1. IsFiniteSet(U)
  BY FS_Subset
<1>2. PICK s \in Bad : \A t \in Bad : t \subseteq s => t = s
  <2>1. Bad \subseteq SUBSET U
    OBVIOUS
  <2>. HIDE DEF Bad
  <2>. QED BY <1>1, <2>1, MinimalSubset
<1>3. /\ h[s] = IF s = {} THEN 0 ELSE f[Pick(s)] + h[s \ {Pick(s)}]
      /\ k[s] = IF s = {} THEN 0 ELSE f[Pick(s)] + k[s \ {Pick(s)}]
  <2>1. s \in SUBSET U /\ s \in SUBSET T
    OBVIOUS
  <2>. QED BY <2>1, Zenon DEF IsSum
<1>4. s # {}
  BY <1>3
<1>5. h[s \ {Pick(s)}] = k[s \ {Pick(s)}]
  BY <1>2, <1>4, PickFacts
<1>. QED BY <1>3, <1>5

LEMMA SumExists ==
    ASSUME NEW f, NEW S, IsFiniteSet(S)
    PROVE  \E h : IsSum(h, f, S)
<1> DEFINE Bad == {T \in SUBSET S : ~ \E h : IsSum(h, f, T)}
           H(T) == CHOOSE h : IsSum(h, f, T)
<1> SUFFICES ASSUME Bad # {} PROVE FALSE
  OBVIOUS
<1>1. PICK T \in Bad : \A U \in Bad : U \subseteq T => U = T
  <2>1. Bad \subseteq SUBSET S
    OBVIOUS
  <2>. HIDE DEF Bad
  <2>. QED BY <2>1, MinimalSubset
<1>2. \A U \in SUBSET T : U # T => IsSum(H(U), f, U)
  <2>1. ASSUME NEW U \in SUBSET T, U # T PROVE \E h : IsSum(h, f, U)
    BY <1>1, <2>1
  <2>. QED BY <2>1
<1> DEFINE rest(s) == s \ {Pick(s)}
           g == [s \in SUBSET T |-> IF s = {} THEN 0
                                    ELSE f[Pick(s)] + H(rest(s))[rest(s)]]
<1>. HIDE DEF H
<1>3. ASSUME NEW u \in SUBSET T, u # T
      PROVE  g[u] = H(u)[u]
  <2>1. H(u)[u] = IF u = {} THEN 0 ELSE f[Pick(u)] + H(u)[rest(u)]
    <3>1. u \in SUBSET u /\ IsSum(H(u), f, u)
      BY <1>2, <1>3
    <3>. QED BY <3>1, Zenon DEF IsSum
  <2>2. CASE u = {}
    BY <2>1, <2>2
  <2>3. CASE u # {}
    <3>1. rest(u) \in SUBSET u /\ rest(u) \in SUBSET T /\ rest(u) # T
      BY <1>3, <2>3, PickFacts
    <3>2. IsFiniteSet(u)
      BY FS_Subset
    <3>3. IsSum(H(rest(u)), f, rest(u)) /\ IsSum(H(u), f, u)
      BY <1>2, <1>3, <3>1
    <3>4. H(rest(u))[rest(u)] = H(u)[rest(u)]
      BY <3>1, <3>2, <3>3, SumIsUnique
    <3>. QED BY <2>1, <2>3, <3>4
  <2>. QED BY <2>2, <2>3
<1>4. g = [s \in SUBSET T |-> IF s = {} THEN 0 ELSE f[Pick(s)] + g[rest(s)]]
  <2>1. ASSUME NEW s \in SUBSET T, s # {}
        PROVE  g[rest(s)] = H(rest(s))[rest(s)]
    <3>1. rest(s) \in SUBSET T /\ rest(s) # T
      BY <2>1, PickFacts
    <3>. QED BY <1>3, <3>1
  <2>. QED BY <2>1
<1>5. IsSum(g, f, T)
  BY <1>4 DEF IsSum
<1>. QED BY <1>1, <1>5

LEMMA SumIsFold ==
    ASSUME NEW f, NEW S, IsFiniteSet(S)
    PROVE  \E h : IsSum(h, f, S) /\ SumFunctionOnSet(f, S) = h[S]
<1> DEFINE h == CHOOSE h : IsSum(h, f, S)
<1>1. IsSum(h, f, S)
  BY SumExists
<1>2. SumFunctionOnSet(f, S) = h[S]
  BY DEF SumFunctionOnSet, FoldFunctionOnSet, MapThenFoldSet, IsSum, Pick
<1>. QED BY <1>1, <1>2

-----------------------------------------------------------------------------
(* What a sum is *)

LEMMA SumEmpty ==
    ASSUME NEW f
    PROVE  SumFunctionOnSet(f, {}) = 0
<1>1. PICK h : IsSum(h, f, {}) /\ SumFunctionOnSet(f, {}) = h[{}]
  BY SumIsFold, FS_EmptySet
<1>2. h[{}] = 0
  <2>1. {} \in SUBSET {}
    OBVIOUS
  <2>. QED BY <1>1, <2>1, Zenon DEF IsSum
<1>. QED BY <1>1, <1>2

LEMMA SumStep ==
    ASSUME NEW f, NEW S, IsFiniteSet(S), S # {}
    PROVE  SumFunctionOnSet(f, S)
              = f[Pick(S)] + SumFunctionOnSet(f, S \ {Pick(S)})
<1> DEFINE R == S \ {Pick(S)}
<1>1. R \in SUBSET S /\ S \in SUBSET S /\ R \in SUBSET R /\ IsFiniteSet(R)
  BY FS_Subset
<1>2. PICK h : IsSum(h, f, S) /\ SumFunctionOnSet(f, S) = h[S]
  BY SumIsFold
<1>3. PICK k : IsSum(k, f, R) /\ SumFunctionOnSet(f, R) = k[R]
  BY <1>1, SumIsFold
<1>4. k[R] = h[R]
  BY <1>1, <1>2, <1>3, SumIsUnique
<1>5. h[S] = f[Pick(S)] + h[R]
  BY <1>1, <1>2, Zenon DEF IsSum
<1>. QED BY <1>2, <1>3, <1>4, <1>5

LEMMA SumType ==
    ASSUME NEW S, IsFiniteSet(S), NEW f, \A x \in S : f[x] \in Int
    PROVE  SumFunctionOnSet(f, S) \in Int
<1> DEFINE Bad == {T \in SUBSET S : SumFunctionOnSet(f, T) \notin Int}
<1> SUFFICES ASSUME Bad # {} PROVE FALSE
  OBVIOUS
<1>1. PICK T \in Bad : \A U \in Bad : U \subseteq T => U = T
  <2>1. Bad \subseteq SUBSET S
    OBVIOUS
  <2>. HIDE DEF Bad
  <2>. QED BY <2>1, MinimalSubset
<1>2. T # {}
  BY SumEmpty
<1>3. SumFunctionOnSet(f, T \ {Pick(T)}) \in Int
  BY <1>1, <1>2, PickFacts
<1>4. IsFiniteSet(T) /\ f[Pick(T)] \in Int
  BY <1>2, PickFacts, FS_Subset
<1>. QED BY <1>2, <1>3, <1>4, SumStep

\* A sum does not depend on the order in which elements are taken.
LEMMA SumRemove ==
    ASSUME NEW S, IsFiniteSet(S), NEW f, \A x \in S : f[x] \in Int, NEW x \in S
    PROVE  SumFunctionOnSet(f, S) = f[x] + SumFunctionOnSet(f, S \ {x})
<1> DEFINE Sum(T) == SumFunctionOnSet(f, T)
           Bad == {T \in SUBSET S : \E y \in T : Sum(T) # f[y] + Sum(T \ {y})}
<1>0. \A T \in SUBSET S : Sum(T) \in Int
  <2>1. \A T \in SUBSET S : IsFiniteSet(T)
    BY FS_Subset
  <2>. QED BY <2>1, SumType
<1>. SUFFICES ASSUME Bad # {} PROVE FALSE
  OBVIOUS
<1>1. PICK T \in Bad : \A U \in Bad : U \subseteq T => U = T
  <2>1. Bad \subseteq SUBSET S
    OBVIOUS
  <2>. HIDE DEF Bad
  <2>. QED BY <2>1, MinimalSubset
<1>2. PICK y \in T : Sum(T) # f[y] + Sum(T \ {y})
  OBVIOUS
<1>. HIDE DEF Sum
<1>10. \A U \in SUBSET T : U # T =>
          \A z \in U : Sum(U) = f[z] + Sum(U \ {z})
  BY <1>1
<1> DEFINE p == Pick(T)
<1>3. p \in T /\ IsFiniteSet(T)
  BY <1>2, PickFacts, FS_Subset
<1>4. Sum(T) = f[p] + Sum(T \ {p})
  BY <1>2, <1>3, SumStep DEF Sum
<1>. HIDE DEF p
<1>5. y # p
  BY <1>2, <1>4
<1>6. Sum(T \ {p}) = f[y] + Sum((T \ {p}) \ {y})
  BY <1>3, <1>5, <1>10
<1>7. Sum(T \ {y}) = f[p] + Sum((T \ {y}) \ {p})
  BY <1>3, <1>5, <1>10
<1>8. (T \ {p}) \ {y} = (T \ {y}) \ {p}
  OBVIOUS
<1> DEFINE R == (T \ {y}) \ {p}
<1>9. f[p] \in Int /\ f[y] \in Int /\ Sum(R) \in Int
  BY <1>0, <1>3
<1>11. Sum(T \ {p}) = f[y] + Sum(R)
  BY <1>6, <1>8
<1>. HIDE DEF R, Bad
<1>. QED BY <1>2, <1>4, <1>7, <1>9, <1>11 DEF R

LEMMA SumAdd ==
    ASSUME NEW S, IsFiniteSet(S), NEW x, x \notin S,
           NEW f, \A y \in S \cup {x} : f[y] \in Int
    PROVE  SumFunctionOnSet(f, S \cup {x}) = f[x] + SumFunctionOnSet(f, S)
<1>1. IsFiniteSet(S \cup {x}) /\ (S \cup {x}) \ {x} = S
  BY FS_AddElement
<1>. QED BY <1>1, SumRemove

\* Functions that agree have the same sum.
LEMMA SumAgree ==
    ASSUME NEW S, IsFiniteSet(S), NEW f, NEW g, \A x \in S : f[x] = g[x]
    PROVE  SumFunctionOnSet(f, S) = SumFunctionOnSet(g, S)
<1> DEFINE Bad == {T \in SUBSET S : SumFunctionOnSet(f, T) # SumFunctionOnSet(g, T)}
<1> SUFFICES ASSUME Bad # {} PROVE FALSE
  OBVIOUS
<1>1. PICK T \in Bad : \A U \in Bad : U \subseteq T => U = T
  <2>1. Bad \subseteq SUBSET S
    OBVIOUS
  <2>. HIDE DEF Bad
  <2>. QED BY <2>1, MinimalSubset
<1>2. T # {}
  BY SumEmpty
<1>3. SumFunctionOnSet(f, T \ {Pick(T)}) = SumFunctionOnSet(g, T \ {Pick(T)})
  BY <1>1, <1>2, PickFacts
<1>4. IsFiniteSet(T) /\ f[Pick(T)] = g[Pick(T)]
  BY <1>2, PickFacts, FS_Subset
<1>. QED BY <1>2, <1>3, <1>4, SumStep

LEMMA SumZero ==
    ASSUME NEW S, IsFiniteSet(S), NEW f, \A x \in S : f[x] = 0
    PROVE  SumFunctionOnSet(f, S) = 0
<1> DEFINE Bad == {T \in SUBSET S : SumFunctionOnSet(f, T) # 0}
<1> SUFFICES ASSUME Bad # {} PROVE FALSE
  OBVIOUS
<1>1. PICK T \in Bad : \A U \in Bad : U \subseteq T => U = T
  <2>1. Bad \subseteq SUBSET S
    OBVIOUS
  <2>. HIDE DEF Bad
  <2>. QED BY <2>1, MinimalSubset
<1>2. T # {}
  BY SumEmpty
<1>3. SumFunctionOnSet(f, T \ {Pick(T)}) = 0
  BY <1>1, <1>2, PickFacts
<1>4. IsFiniteSet(T) /\ f[Pick(T)] = 0
  BY <1>2, PickFacts, FS_Subset
<1>. QED BY <1>2, <1>3, <1>4, SumStep

\* The sum of two functions, argument by argument.
LEMMA SumPlus ==
    ASSUME NEW S, IsFiniteSet(S), NEW f, NEW g, NEW h,
           \A x \in S : f[x] \in Int /\ g[x] \in Int /\ h[x] = f[x] + g[x]
    PROVE  SumFunctionOnSet(h, S)
              = SumFunctionOnSet(f, S) + SumFunctionOnSet(g, S)
<1> DEFINE Sum(k, T) == SumFunctionOnSet(k, T)
           Bad == {T \in SUBSET S : Sum(h, T) # Sum(f, T) + Sum(g, T)}
<1> SUFFICES ASSUME Bad # {} PROVE FALSE
  OBVIOUS
<1>1. PICK T \in Bad : \A U \in Bad : U \subseteq T => U = T
  <2>1. Bad \subseteq SUBSET S
    OBVIOUS
  <2>. HIDE DEF Bad
  <2>. QED BY <2>1, MinimalSubset
<1>2. T # {}
  <2>1. Sum(f, {}) = 0 /\ Sum(g, {}) = 0 /\ Sum(h, {}) = 0
    BY SumEmpty
  <2>2. Sum(h, T) # Sum(f, T) + Sum(g, T)
    OBVIOUS
  <2>. HIDE DEF Sum, Bad
  <2>. QED BY <2>1, <2>2
<1> DEFINE p == Pick(T)
<1>3. p \in T /\ T \ {p} \subseteq T /\ T \ {p} # T
  BY <1>2, PickFacts
<1>4. IsFiniteSet(T) /\ IsFiniteSet(T \ {p})
  BY FS_Subset
<1>5. /\ Sum(f, T) = f[p] + Sum(f, T \ {p})
      /\ Sum(g, T) = g[p] + Sum(g, T \ {p})
      /\ Sum(h, T) = h[p] + Sum(h, T \ {p})
  BY <1>2, <1>4, SumStep
<1>6. /\ Sum(f, T \ {p}) \in Int /\ Sum(g, T \ {p}) \in Int
      /\ f[p] \in Int /\ g[p] \in Int /\ h[p] = f[p] + g[p]
  BY <1>3, <1>4, SumType
<1>7. Sum(h, T \ {p}) = Sum(f, T \ {p}) + Sum(g, T \ {p})
  BY <1>1, <1>3
<1>8. Sum(h, T) # Sum(f, T) + Sum(g, T)
  OBVIOUS
<1>. HIDE DEF p, Sum
<1>. QED BY <1>5, <1>6, <1>7, <1>8

-----------------------------------------------------------------------------
(* The sum of all values of a function *)

LEMMA TotalType ==
    ASSUME NEW S, IsFiniteSet(S), NEW f \in [S -> Int]
    PROVE  SumFunction(f) \in Int
<1>1. \A x \in S : f[x] \in Int
  OBVIOUS
<1>2. DOMAIN f = S
  OBVIOUS
<1>. QED BY <1>1, <1>2, SumType DEF SumFunction

\* One value changes.
LEMMA TotalUpdate ==
    ASSUME NEW S, IsFiniteSet(S), NEW f \in [S -> Int], NEW x \in S, NEW y \in Int
    PROVE  SumFunction([f EXCEPT ![x] = y]) = SumFunction(f) - f[x] + y
<1> DEFINE g == [f EXCEPT ![x] = y]
<1>1. DOMAIN f = S /\ DOMAIN g = S /\ g[x] = y /\ IsFiniteSet(S \ {x})
  BY FS_RemoveElement
<1>2. /\ \A z \in S : f[z] \in Int /\ g[z] \in Int
      /\ \A z \in S \ {x} : f[z] = g[z]
  OBVIOUS
<1>. HIDE DEF g
<1>3. /\ SumFunctionOnSet(f, S) = f[x] + SumFunctionOnSet(f, S \ {x})
      /\ SumFunctionOnSet(g, S) = g[x] + SumFunctionOnSet(g, S \ {x})
  BY <1>2, SumRemove
<1>4. SumFunctionOnSet(f, S \ {x}) = SumFunctionOnSet(g, S \ {x})
  BY <1>1, <1>2, SumAgree
<1>5. SumFunctionOnSet(f, S \ {x}) \in Int /\ f[x] \in Int
  BY <1>1, <1>2, SumType
<1>6. SumFunctionOnSet(g, S) = SumFunctionOnSet(f, S) - f[x] + y
  BY <1>1, <1>3, <1>4, <1>5
<1>. QED BY <1>1, <1>6 DEF SumFunction, g

\* One argument more.
LEMMA TotalExtend ==
    ASSUME NEW S, IsFiniteSet(S), NEW x, x \notin S,
           NEW g \in [S \cup {x} -> Int], NEW h \in [S -> Int],
           \A z \in S : g[z] = h[z]
    PROVE  SumFunction(g) = g[x] + SumFunction(h)
<1>1. DOMAIN g = S \cup {x} /\ DOMAIN h = S
  OBVIOUS
<1>2. SumFunctionOnSet(g, S \cup {x}) = g[x] + SumFunctionOnSet(g, S)
  BY SumAdd
<1>3. SumFunctionOnSet(g, S) = SumFunctionOnSet(h, S)
  BY SumAgree
<1>. QED BY <1>1, <1>2, <1>3 DEF SumFunction

\* The sums of two functions on the same set.
LEMMA TotalPlus ==
    ASSUME NEW S, IsFiniteSet(S), NEW f \in [S -> Int], NEW g \in [S -> Int]
    PROVE  SumFunction([x \in S |-> f[x] + g[x]]) = SumFunction(f) + SumFunction(g)
<1> DEFINE h == [x \in S |-> f[x] + g[x]]
<1>1. DOMAIN f = S /\ DOMAIN g = S /\ DOMAIN h = S
  OBVIOUS
<1>2. \A x \in S : f[x] \in Int /\ g[x] \in Int /\ h[x] = f[x] + g[x]
  OBVIOUS
<1>. HIDE DEF h
<1>3. SumFunctionOnSet(h, S) = SumFunctionOnSet(f, S) + SumFunctionOnSet(g, S)
  BY <1>2, SumPlus
<1>. QED BY <1>1, <1>3 DEF SumFunction, h

\* A single payment.
LEMMA TotalSingle ==
    ASSUME NEW S, IsFiniteSet(S), NEW x \in S, NEW y \in Int
    PROVE  SumFunction([z \in S |-> IF z = x THEN y ELSE 0]) = y
<1> DEFINE zero == [z \in S |-> 0]
           f == [z \in S |-> IF z = x THEN y ELSE 0]
<1>1. zero \in [S -> Int] /\ zero[x] = 0 /\ f = [zero EXCEPT ![x] = y]
  OBVIOUS
<1>2. SumFunction(zero) = 0
  <2>1. DOMAIN zero = S /\ \A z \in S : zero[z] = 0
    OBVIOUS
  <2>. HIDE DEF zero
  <2>. QED BY <2>1, SumZero DEF SumFunction
<1>. HIDE DEF zero
<1>3. SumFunction(f) = SumFunction(zero) - zero[x] + y
  BY <1>1, TotalUpdate
<1>. QED BY <1>1, <1>2, <1>3

-----------------------------------------------------------------------------
(* The local custody of a chain covers its fast fills. *)

\* What the local custody of a chain owes to the token router.
Owed(c) == SumFunction([f \in Unredeemed(c) |-> f.amount])

LocalCustodyInv == IsFiniteSet(fastFills) /\ LocalCustodySolvent

LEMMA OwedType ==
    ASSUME TypeOK, IsFiniteSet(fastFills), NEW c \in Chains
    PROVE  /\ IsFiniteSet(Unredeemed(c))
           /\ \A f \in Unredeemed(c) : f.amount \in Nat
           /\ Owed(c) \in Int
           /\ localCustody[c] \in Nat
<1>1. Unredeemed(c) \in SUBSET fastFills
  BY DEF Unredeemed
<1>2. IsFiniteSet(Unredeemed(c))
  BY <1>1, FS_Subset
<1>3. \A f \in Unredeemed(c) : f.amount \in Nat
  BY <1>1 DEF TypeOK, SequenceTypeOK, FastFills
<1>4. [f \in Unredeemed(c) |-> f.amount] \in [Unredeemed(c) -> Int]
  BY <1>3
<1>5. Owed(c) \in Int
  BY <1>2, <1>4, TotalType DEF Owed
<1>6. localCustody[c] \in Nat
  BY DEF TypeOK, TokenTypeOK
<1>. QED BY <1>2, <1>3, <1>5, <1>6

\* A fill more, or less, is its amount more, or less.
LEMMA OneFillMore ==
    ASSUME NEW S, IsFiniteSet(S), NEW x, x \notin S,
           \A f \in S \cup {x} : f.amount \in Nat
    PROVE  SumFunction([f \in S \cup {x} |-> f.amount])
              = x.amount + SumFunction([f \in S |-> f.amount])
<1> DEFINE g == [f \in S \cup {x} |-> f.amount]
           h == [f \in S |-> f.amount]
<1>1. /\ g \in [S \cup {x} -> Int] /\ h \in [S -> Int] /\ g[x] = x.amount
      /\ \A f \in S : g[f] = h[f]
  OBVIOUS
<1>. HIDE DEF g, h
<1>2. SumFunction(g) = g[x] + SumFunction(h)
  BY <1>1, TotalExtend
<1>. QED BY <1>1, <1>2 DEF g, h

LEMMA LocalFillSolvent ==
    ASSUME TypeOK, TypeOK', LocalCustodyInv, NEW v \in Vaas, NEW amount \in Nat,
           SendLocalFill(v, amount)
    PROVE  LocalCustodyInv'
<1> DEFINE new == [source |-> Order[v].source, sender |-> Order[v].sender,
                   sequence |-> reserved[v].sequence, amount |-> amount,
                   redeemed |-> FALSE]
<1>1. /\ fastFills' = fastFills \cup {new}
      /\ new \notin fastFills
      /\ localCustody' = [localCustody EXCEPT ![Order[v].source] = @ + amount]
  BY DEF SendLocalFill, FastFillAddressFree
<1>2. /\ new.source = Order[v].source /\ new.amount = amount /\ ~new.redeemed
      /\ new.source \in Chains
  BY OrderFacts DEF Orders
<1>. HIDE DEF new
<1>3. IsFiniteSet(fastFills')
  BY <1>1, FS_AddElement DEF LocalCustodyInv
<1>4. ASSUME NEW c \in Chains
      PROVE  localCustody'[c] >= Owed(c)'
  <2>1. localCustody[c] >= Owed(c)
    BY DEF LocalCustodyInv, LocalCustodySolvent, Owed
  <2>2. /\ IsFiniteSet(Unredeemed(c)) /\ \A f \in Unredeemed(c) : f.amount \in Nat
        /\ Owed(c) \in Int /\ localCustody[c] \in Nat
    BY OwedType DEF LocalCustodyInv
  <2>3. CASE c = new.source
    <3>1. Unredeemed(c)' = Unredeemed(c) \cup {new} /\ new \notin Unredeemed(c)
      BY <1>1, <1>2, <2>3 DEF Unredeemed
    <3>2. \A f \in Unredeemed(c) \cup {new} : f.amount \in Nat
      BY <1>2, <2>2
    <3>3. Owed(c)' = amount + Owed(c)
      BY <1>2, <2>2, <3>1, <3>2, OneFillMore DEF Owed
    <3>4. localCustody'[c] = localCustody[c] + amount
      BY <1>1, <1>2, <2>3 DEF TypeOK, TokenTypeOK
    <3>. QED BY <2>1, <2>2, <3>3, <3>4
  <2>4. CASE c # new.source
    <3>1. Unredeemed(c)' = Unredeemed(c)
      BY <1>1, <2>4 DEF Unredeemed
    <3>2. Owed(c)' = Owed(c)
      BY <3>1 DEF Owed
    <3>3. localCustody'[c] = localCustody[c]
      BY <1>1, <1>2, <2>4 DEF TypeOK, TokenTypeOK
    <3>. QED BY <2>1, <3>2, <3>3
  <2>. QED BY <2>3, <2>4
<1>. QED BY <1>3, <1>4 DEF LocalCustodyInv, LocalCustodySolvent, Owed

LEMMA CompleteFillSolvent ==
    ASSUME TypeOK, TypeOK', LocalCustodyInv, NEW f \in fastFills, CompleteFastFill(f)
    PROVE  LocalCustodyInv'
<1> DEFINE new == [f EXCEPT !.redeemed = TRUE]
<1>1. /\ fastFills' = (fastFills \ {f}) \cup {new}
      /\ ~f.redeemed
      /\ localCustody' = [localCustody EXCEPT ![f.source] = @ - f.amount]
  BY DEF CompleteFastFill, Redeemable
<1>2. f.source \in Chains /\ f.amount \in Nat /\ new.redeemed
  BY DEF TypeOK, SequenceTypeOK, FastFills
<1>. HIDE DEF new
<1>3. IsFiniteSet(fastFills')
  BY <1>1, FS_AddElement, FS_RemoveElement DEF LocalCustodyInv
<1>4. ASSUME NEW c \in Chains
      PROVE  localCustody'[c] >= Owed(c)'
  <2>1. localCustody[c] >= Owed(c)
    BY DEF LocalCustodyInv, LocalCustodySolvent, Owed
  <2>2. /\ IsFiniteSet(Unredeemed(c)) /\ \A g \in Unredeemed(c) : g.amount \in Nat
        /\ Owed(c) \in Int /\ localCustody[c] \in Nat
    BY OwedType DEF LocalCustodyInv
  <2>3. CASE c = f.source
    <3>1. /\ Unredeemed(c)' = Unredeemed(c) \ {f}
          /\ Unredeemed(c) = (Unredeemed(c) \ {f}) \cup {f}
      BY <1>1, <1>2, <2>3 DEF Unredeemed
    <3>2. IsFiniteSet(Unredeemed(c) \ {f})
      BY <2>2, FS_RemoveElement
    <3>3. f \notin Unredeemed(c) \ {f}
      OBVIOUS
    <3>4. Owed(c) = f.amount + Owed(c)'
      BY <2>2, <3>1, <3>2, <3>3, OneFillMore DEF Owed
    <3>5. Owed(c)' \in Int
      <4>1. [g \in Unredeemed(c) \ {f} |-> g.amount] \in [Unredeemed(c) \ {f} -> Int]
        BY <2>2
      <4>. QED BY <3>1, <3>2, <4>1, TotalType DEF Owed
    <3>6. localCustody'[c] = localCustody[c] - f.amount
      BY <1>1, <1>2, <2>3 DEF TypeOK, TokenTypeOK
    <3>. QED BY <1>2, <2>1, <2>2, <3>4, <3>5, <3>6
  <2>4. CASE c # f.source
    <3>1. Unredeemed(c)' = Unredeemed(c)
      BY <1>1, <1>2, <2>4 DEF Unredeemed
    <3>2. Owed(c)' = Owed(c)
      BY <3>1 DEF Owed
    <3>3. localCustody'[c] = localCustody[c]
      BY <1>1, <1>2, <2>4 DEF TypeOK, TokenTypeOK
    <3>. QED BY <2>1, <3>2, <3>3
  <2>. QED BY <2>3, <2>4
<1>. QED BY <1>3, <1>4 DEF LocalCustodyInv, LocalCustodySolvent, Owed

\* Nothing else takes from a local custody or adds a fill.
LEMMA OtherFillsSolvent ==
    ASSUME TypeOK, TypeOK', LocalCustodyInv,
           UNCHANGED fastFills \/ \E f \in fastFills : CloseRedeemedFastFill(f),
           \A c \in Chains : localCustody'[c] >= localCustody[c]
    PROVE  LocalCustodyInv'
<1>1. fastFills' \in SUBSET fastFills
  BY DEF CloseRedeemedFastFill
<1>2. IsFiniteSet(fastFills')
  BY <1>1, FS_Subset DEF LocalCustodyInv
<1>3. ASSUME NEW c \in Chains
      PROVE  localCustody'[c] >= Owed(c)'
  <2>1. localCustody[c] >= Owed(c)
    BY DEF LocalCustodyInv, LocalCustodySolvent, Owed
  <2>2. Unredeemed(c)' = Unredeemed(c)
    BY DEF Unredeemed, CloseRedeemedFastFill
  <2>3. Owed(c)' = Owed(c)
    BY <2>2 DEF Owed
  <2>4. Owed(c) \in Int /\ localCustody[c] \in Nat /\ localCustody'[c] \in Nat
    BY OwedType DEF LocalCustodyInv, TypeOK, TokenTypeOK
  <2>. QED BY <2>1, <2>3, <2>4
<1>. QED BY <1>2, <1>3 DEF LocalCustodyInv, LocalCustodySolvent, Owed

LEMMA AuctionStepSolvent ==
    ASSUME TypeOK, TypeOK', LocalCustodyInv, NEW v \in Vaas, AuctionStep(v)
    PROVE  LocalCustodyInv'
<1>1. UNCHANGED <<fastFills, localCustody>> => LocalCustodyInv'
  BY OtherFillsSolvent DEF TypeOK, TokenTypeOK
<1>2. ASSUME NEW a \in Accounts, NEW p \in 0 .. Order[v].maxFee,
             PlaceInitialOfferCctp(v, a, p) \/ ImproveOffer(v, a, p)
      PROVE  LocalCustodyInv'
  BY <1>1, <1>2 DEF PlaceInitialOfferCctp, ImproveOffer, sequenceVars
<1>3. ASSUME NEW e \in Accounts, ExecuteFastOrderCctp(v, e)
      PROVE  LocalCustodyInv'
  BY <1>1, <1>3 DEF ExecuteFastOrderCctp, sequenceVars
<1>4. ASSUME NEW e \in Accounts, ExecuteFastOrderLocal(v, e)
      PROVE  LocalCustodyInv'
  <2> DEFINE x == Execution(v, e, DepositPenalty(v))
  <2>1. SendLocalFill(v, x.userAmount)
    BY <1>4 DEF ExecuteFastOrderLocal
  <2>2. x.userAmount \in Nat
    BY ExecutionTypes
  <2>. HIDE DEF x
  <2>. QED BY <2>1, <2>2, LocalFillSolvent
<1>5. ASSUME NEW payer \in Payers, NEW b \in Accounts,
             PrepareOrderResponseCctp(v, payer, b)
      PROVE  LocalCustodyInv'
  BY <1>1, <1>5 DEF PrepareOrderResponseCctp, sequenceVars, tokenVars
<1>6. ASSUME NEW payer \in Payers,
             ReserveFastFillSequenceActiveAuction(v, payer)
      PROVE  LocalCustodyInv'
  BY <1>1, <1>6 DEF ReserveFastFillSequenceActiveAuction, tokenVars
<1>7. CASE ReserveFastFillSequenceNoAuction(v) \/ CloseAuction(v)
  BY <1>1, <1>7
  DEF ReserveFastFillSequenceNoAuction, CloseAuction, tokenVars, sequenceVars
<1>8. CASE SettleAuctionComplete(v) \/ SettleAuctionNoneCctp(v)
  BY <1>1, <1>8 DEF SettleAuctionComplete, SettleAuctionNoneCctp, sequenceVars
<1>9. CASE SettleAuctionNoneLocal(v)
  BY <1>9, SettleNoneAmounts, LocalFillSolvent DEF SettleAuctionNoneLocal
<1>. QED BY <1>2, <1>3, <1>4, <1>5, <1>6, <1>7, <1>8, <1>9, Zenon
         DEF AuctionStep

LEMMA NextSolvent ==
    TypeOK /\ TypeOK' /\ LocalCustodyInv /\ [Next]_vars => LocalCustodyInv'
<1> SUFFICES ASSUME TypeOK, TypeOK', LocalCustodyInv, [Next]_vars
             PROVE  LocalCustodyInv'
  OBVIOUS
<1>1. UNCHANGED <<fastFills, localCustody>> => LocalCustodyInv'
  BY OtherFillsSolvent DEF TypeOK, TokenTypeOK
<1>2. ASSUME NEW f \in fastFills, FastFillStep(f)
      PROVE  LocalCustodyInv'
  <2>1. CASE CompleteFastFill(f)
    BY <2>1, CompleteFillSolvent
  <2>2. CASE CloseRedeemedFastFill(f)
    <3>1. \A c \in Chains : localCustody'[c] >= localCustody[c]
      BY <2>2 DEF CloseRedeemedFastFill, tokenVars, TypeOK, TokenTypeOK
    <3>. QED BY <2>2, <3>1, OtherFillsSolvent
  <2>. QED BY <1>2, <2>1, <2>2 DEF FastFillStep
<1>3. CASE OwnerStep
  BY <1>1, <1>3, Zenon
  DEF OwnerStep, SetPause, UpdateAuctionParameters, DisableRouterEndpoint,
      UpdateCctpRouterEndpoint, UpdateLocalRouterEndpoint, ownerFrame, sequenceVars,
      tokenVars
<1>4. ASSUME NEW a \in Accounts, NEW v \in Vaas, Donate(a, v)
      PROVE  LocalCustodyInv'
  <2>1. UNCHANGED fastFills
    BY <1>4 DEF Donate, sequenceVars
  <2>2. \A c \in Chains : localCustody'[c] >= localCustody[c]
    BY <1>4 DEF Donate, TypeOK, TokenTypeOK
  <2>. QED BY <2>1, <2>2, OtherFillsSolvent
<1>5. CASE AdvanceSlot \/ AdvanceTime
           \/ \E a \in VolatileAccounts, s \in {"Open", "Frozen", "Closed"} :
                 ChangeAccountState(a, s)
  BY <1>1, <1>5, Zenon
  DEF AdvanceSlot, AdvanceTime, ChangeAccountState, environmentFrame, sequenceVars,
      tokenVars
<1>6. CASE UNCHANGED vars
  BY <1>1, <1>6 DEF vars, sequenceVars, tokenVars
<1>. QED BY <1>2, <1>3, <1>4, <1>5, <1>6, AuctionStepSolvent, Zenon
         DEF Next, EnvironmentStep

LEMMA InitSolvent == Init => LocalCustodyInv
<1> SUFFICES ASSUME Init PROVE LocalCustodyInv
  OBVIOUS
<1>1. IsFiniteSet(fastFills)
  BY FS_EmptySet DEF Init
<1>2. ASSUME NEW c \in Chains
      PROVE  localCustody[c] >= Owed(c)
  <2> DEFINE g == [f \in Unredeemed(c) |-> f.amount]
  <2>1. Unredeemed(c) = {}
    BY DEF Init, Unredeemed
  <2>2. DOMAIN g = {}
    BY <2>1
  <2>. HIDE DEF g
  <2>3. SumFunction(g) = 0
    BY <2>2, SumEmpty DEF SumFunction
  <2>4. localCustody[c] = 0
    BY DEF Init
  <2>. QED BY <2>3, <2>4 DEF Owed, g
<1>. QED BY <1>1, <1>2 DEF LocalCustodyInv, LocalCustodySolvent, Owed

\* The token router can redeem every fast fill there is: the local custody of a
\* source chain always holds at least what its fast fills promise.
THEOREM LocalCustodyCovers == Spec => []LocalCustodySolvent
<1>1. TypeOK /\ LocalCustodyInv /\ [Next]_vars => TypeOK' /\ LocalCustodyInv'
  BY NextTypeOK, NextSolvent
<1>2. LocalCustodyInv => LocalCustodySolvent
  BY DEF LocalCustodyInv
<1>. QED BY <1>1, <1>2, InitTypeOK, InitSolvent, PTL DEF Spec

-----------------------------------------------------------------------------
(* USDC is conserved. *)

\* What makes UsdcConserved inductive: the custody account of an order that has no
\* active auction, and that of a response that is not there, hold nothing that an
\* instruction which creates them would overwrite.
ClosedIsEmpty(v) ==
    /\ auction[v].status # "Active" => custody[v] = 0
    /\ ~response[v].exists => response[v].custody = 0

ClosedAreEmpty == \A v \in Vaas : ClosedIsEmpty(v)

\* The step adds to what is held exactly what arrives.
Conserves == UsdcHeld' - SumFunction(Arrived)' = UsdcHeld - SumFunction(Arrived)

LEMMA HeldTypes ==
    ASSUME TypeOK
    PROVE  /\ balance \in [Accounts -> Int] /\ custody \in [Vaas -> Int]
           /\ localCustody \in [Chains -> Int]
           /\ Prepared \in [Vaas -> Int] /\ Arrived \in [Vaas -> Int]
           /\ released \in Int
<1>1. /\ balance \in [Accounts -> Int] /\ custody \in [Vaas -> Int]
      /\ localCustody \in [Chains -> Int] /\ released \in Int
  BY DEF TypeOK, TokenTypeOK, OutputTypeOK
<1>2. Prepared \in [Vaas -> Int]
  BY Amounts DEF Prepared
<1>3. Arrived \in [Vaas -> Int]
  BY Amounts DEF Arrived
<1>. QED BY <1>1, <1>2, <1>3

LEMMA HeldSums ==
    ASSUME TypeOK
    PROVE  /\ SumFunction(balance) \in Int /\ SumFunction(custody) \in Int
           /\ SumFunction(localCustody) \in Int /\ SumFunction(Prepared) \in Int
           /\ SumFunction(Arrived) \in Int /\ released \in Int
BY HeldTypes, TotalType, FinitenessAssumption

\* The same in the next state.
LEMMA HeldSumsNext ==
    ASSUME TypeOK'
    PROVE  /\ SumFunction(balance') \in Int /\ SumFunction(custody') \in Int
           /\ SumFunction(localCustody') \in Int
           /\ SumFunction(Prepared') \in Int /\ SumFunction(Arrived') \in Int
           /\ released' \in Int
<1>1. /\ balance' \in [Accounts -> Int] /\ custody' \in [Vaas -> Int]
      /\ localCustody' \in [Chains -> Int] /\ released' \in Int
  BY DEF TypeOK, TokenTypeOK, OutputTypeOK
<1>2. Prepared' \in [Vaas -> Int]
  BY DEF Prepared, TypeOK, ResponseTypeOK, Responses
<1>3. Arrived' \in [Vaas -> Int]
  BY OrderFacts DEF Arrived, Orders
<1>. QED BY <1>1, <1>2, <1>3, TotalType, FinitenessAssumption

\* What changes when one account of a kind does.
LEMMA BalanceUpdate ==
    ASSUME TypeOK, NEW a \in Accounts, NEW y \in Int,
           balance' = [balance EXCEPT ![a] = y]
    PROVE  SumFunction(balance') = SumFunction(balance) - balance[a] + y
BY HeldTypes, TotalUpdate, FinitenessAssumption

LEMMA CustodyUpdate ==
    ASSUME TypeOK, NEW v \in Vaas, NEW y \in Int,
           custody' = [custody EXCEPT ![v] = y]
    PROVE  SumFunction(custody') = SumFunction(custody) - custody[v] + y
BY HeldTypes, TotalUpdate, FinitenessAssumption

LEMMA LocalCustodyUpdate ==
    ASSUME TypeOK, NEW c \in Chains, NEW y \in Int,
           localCustody' = [localCustody EXCEPT ![c] = y]
    PROVE  SumFunction(localCustody') = SumFunction(localCustody) - localCustody[c] + y
BY HeldTypes, TotalUpdate, FinitenessAssumption

LEMMA PreparedUpdate ==
    ASSUME TypeOK, NEW v \in Vaas, NEW r, r.custody \in Int,
           response' = [response EXCEPT ![v] = r]
    PROVE  SumFunction(Prepared') = SumFunction(Prepared) - response[v].custody
                                       + r.custody
<1>1. Prepared' = [Prepared EXCEPT ![v] = r.custody]
  BY DEF Prepared, TypeOK, ResponseTypeOK
<1>2. Prepared[v] = response[v].custody
  BY DEF Prepared
<1>3. Prepared \in [Vaas -> Int]
  BY HeldTypes
<1>4. SumFunction([Prepared EXCEPT ![v] = r.custody])
        = SumFunction(Prepared) - Prepared[v] + r.custody
  <2>. HIDE DEF Prepared
  <2>. QED BY <1>3, TotalUpdate, FinitenessAssumption
<1>. QED BY <1>1, <1>2, <1>4

\* Payments to three accounts, which may be the same.
Payments(i, x, j, y, k, z) ==
    [a \in Accounts |-> (IF a = i THEN x ELSE 0) + (IF a = j THEN y ELSE 0)
                           + (IF a = k THEN z ELSE 0)]

LEMMA PaymentsSum ==
    ASSUME NEW i \in Accounts, NEW j \in Accounts, NEW k \in Accounts,
           NEW x \in Int, NEW y \in Int, NEW z \in Int
    PROVE  /\ Payments(i, x, j, y, k, z) \in [Accounts -> Int]
           /\ SumFunction(Payments(i, x, j, y, k, z)) = x + y + z
<1> DEFINE p == [a \in Accounts |-> IF a = i THEN x ELSE 0]
           q == [a \in Accounts |-> IF a = j THEN y ELSE 0]
           r == [a \in Accounts |-> IF a = k THEN z ELSE 0]
           s == [a \in Accounts |-> p[a] + q[a]]
<1>1. /\ p \in [Accounts -> Int] /\ q \in [Accounts -> Int]
      /\ r \in [Accounts -> Int]
  OBVIOUS
<1>2. SumFunction(p) = x /\ SumFunction(q) = y /\ SumFunction(r) = z
  BY TotalSingle, FinitenessAssumption
<1>3. /\ s \in [Accounts -> Int]
      /\ Payments(i, x, j, y, k, z) = [a \in Accounts |-> s[a] + r[a]]
      /\ Payments(i, x, j, y, k, z) \in [Accounts -> Int]
  BY DEF Payments
<1>. HIDE DEF p, q, r
<1>4. SumFunction(s) = x + y
  BY <1>1, <1>2, TotalPlus, FinitenessAssumption
<1>. HIDE DEF s
<1>5. SumFunction([a \in Accounts |-> s[a] + r[a]]) = SumFunction(s) + SumFunction(r)
  BY <1>1, <1>3, TotalPlus, FinitenessAssumption
<1>. QED BY <1>2, <1>3, <1>4, <1>5

LEMMA CreditSum ==
    ASSUME TypeOK, NEW f \in [Accounts -> Int], Credit(f)
    PROVE  SumFunction(balance') = SumFunction(balance) + SumFunction(f)
<1>1. balance' = [a \in Accounts |-> balance[a] + f[a]]
  BY DEF Credit
<1>2. balance \in [Accounts -> Int]
  BY HeldTypes
<1>3. SumFunction([a \in Accounts |-> balance[a] + f[a]])
        = SumFunction(balance) + SumFunction(f)
  BY <1>2, TotalPlus, FinitenessAssumption
<1>. QED BY <1>1, <1>3

-----------------------------------------------------------------------------
(* Each instruction *)

LEMMA PlaceInitialOfferConserves ==
    ASSUME TypeOK, NEW v \in Vaas, ClosedIsEmpty(v), NEW a \in Accounts,
           NEW p \in 0 .. Order[v].maxFee, PlaceInitialOfferCctp(v, a, p)
    PROVE  Conserves
<1> DEFINE total == Order[v].amountIn
                       + SaturatingAdd(Order[v].maxFee,
                            ComputeNotionalSecurityDeposit(Config[configId],
                                                           Order[v].amountIn))
<1>1. total \in Nat
  <2>1. ComputeNotionalSecurityDeposit(Config[configId], Order[v].amountIn) \in Nat
    BY DepositType, OrderFacts, LimitsAssumption DEF TypeOK, CustodianTypeOK, U64
  <2>2. \A n \in Nat : SaturatingAdd(Order[v].maxFee, n) \in Nat
    BY Amounts DEF SaturatingAdd
  <2>. QED BY <2>1, <2>2, Amounts
<1>2. /\ auction[v].status = "Absent"
      /\ balance' = [balance EXCEPT ![a] = @ - total]
      /\ custody' = [custody EXCEPT ![v] = total]
      /\ UNCHANGED <<response, minted, localCustody, outputVars>>
  BY DEF PlaceInitialOfferCctp, AuctionAccountFree
<1>. HIDE DEF total
<1>3. balance[a] \in Int /\ custody[v] = 0
  BY <1>2, HeldTypes DEF ClosedIsEmpty
<1>4. SumFunction(balance') = SumFunction(balance) - total
  <2>1. balance[a] - total \in Int
    BY <1>1, <1>3
  <2>2. SumFunction(balance') = SumFunction(balance) - balance[a] + (balance[a] - total)
    BY <1>2, <2>1, BalanceUpdate
  <2>. QED BY <1>1, <1>3, <2>2, HeldSums
<1>5. SumFunction(custody') = SumFunction(custody) + total
  <2>1. total \in Int
    BY <1>1
  <2>2. SumFunction(custody') = SumFunction(custody) - custody[v] + total
    BY <1>2, <2>1, CustodyUpdate
  <2>. QED BY <1>1, <1>3, <2>2, HeldSums
<1>6. Prepared' = Prepared /\ Arrived' = Arrived
  BY <1>2 DEF Prepared, Arrived
<1>. QED BY <1>1, <1>2, <1>4, <1>5, <1>6, HeldSums
         DEF Conserves, UsdcHeld, outputVars

LEMMA ImproveOfferConserves ==
    ASSUME TypeOK, NEW v \in Vaas, NEW a \in Accounts,
           NEW p \in 0 .. Order[v].maxFee, ImproveOffer(v, a, p)
    PROVE  Conserves
<1> DEFINE best == auction[v].best
           total == OfferDeposit(v)
           back == Refund(v)
<1>1. /\ auction[v].status = "Active"
      /\ \/ UNCHANGED <<balance, custody>>
         \/ /\ a # best
            /\ balance' = [balance EXCEPT ![best] = @ + back, ![a] = @ - total]
            /\ custody' = [custody EXCEPT ![v] = @ - back + total]
      /\ UNCHANGED <<response, minted, localCustody, outputVars>>
  BY DEF ImproveOffer
<1>2. best \in Accounts
  BY <1>1 DEF TypeOK, AuctionTypeOK
<1>3. total \in Int /\ back \in Int
  <2>1. DepositOf(v) \in Int
    BY DepositOfType, LimitsAssumption DEF U64
  <2>. QED BY <2>1 DEF OfferDeposit, Refund
<1>. HIDE DEF best, total, back
<1>4. Prepared' = Prepared /\ Arrived' = Arrived
  BY <1>1 DEF Prepared, Arrived
<1>5. CASE UNCHANGED <<balance, custody>>
  BY <1>1, <1>4, <1>5 DEF Conserves, UsdcHeld, outputVars
<1>6. CASE /\ a # best
           /\ balance' = [balance EXCEPT ![best] = @ + back, ![a] = @ - total]
           /\ custody' = [custody EXCEPT ![v] = @ - back + total]
  <2> DEFINE paidBack == [balance EXCEPT ![best] = @ + back]
  <2>1. /\ balance \in [Accounts -> Int] /\ balance[best] \in Int
        /\ custody[v] \in Int
    BY <1>2, HeldTypes
  <2>2. /\ paidBack \in [Accounts -> Int] /\ paidBack[a] \in Int
        /\ balance' = [paidBack EXCEPT ![a] = paidBack[a] - total]
    BY <1>2, <1>3, <1>6, <2>1
  <2>3. SumFunction(paidBack) = SumFunction(balance) + back
    <3>1. balance[best] + back \in Int
      BY <1>3, <2>1
    <3>2. SumFunction([balance EXCEPT ![best] = balance[best] + back])
            = SumFunction(balance) - balance[best] + (balance[best] + back)
      BY <1>2, <2>1, <3>1, TotalUpdate, FinitenessAssumption
    <3>. QED BY <1>3, <2>1, <3>2, HeldSums
  <2>4. SumFunction(balance') = SumFunction(paidBack) - total
    <3>. HIDE DEF paidBack
    <3>0. paidBack[a] - total \in Int
      BY <1>3, <2>2
    <3>1. SumFunction([paidBack EXCEPT ![a] = paidBack[a] - total])
            = SumFunction(paidBack) - paidBack[a] + (paidBack[a] - total)
      BY <2>2, <3>0, TotalUpdate, FinitenessAssumption
    <3>2. SumFunction(paidBack) \in Int
      BY <2>2, TotalType, FinitenessAssumption
    <3>. QED BY <1>3, <2>2, <3>1, <3>2
  <2>5. SumFunction(custody') = SumFunction(custody) - back + total
    <3>1. custody[v] - back + total \in Int
      BY <1>3, <2>1
    <3>2. SumFunction(custody')
            = SumFunction(custody) - custody[v] + (custody[v] - back + total)
      BY <1>6, <3>1, CustodyUpdate
    <3>. QED BY <1>3, <2>1, <3>2, HeldSums
  <2>. HIDE DEF paidBack
  <2>. QED BY <1>1, <1>3, <1>4, <2>3, <2>4, <2>5, HeldSums
           DEF Conserves, UsdcHeld, outputVars
<1>. QED BY <1>1, <1>5, <1>6

\* Executing an order divides its custody between the user and the participants.
LEMMA ExecutionEmptiesCustody ==
    ASSUME TypeOK, NEW v \in Vaas, NEW e \in Accounts, auction[v].status = "Active",
           HandleExecuteFastOrder(v, e, Execution(v, e, DepositPenalty(v)))
    PROVE  LET user == Execution(v, e, DepositPenalty(v)).userAmount
           IN  /\ user \in Nat
               /\ SumFunction(balance') + SumFunction(custody') + user
                     = SumFunction(balance) + SumFunction(custody)
<1> DEFINE x == Execution(v, e, DepositPenalty(v))
           i == auction[v].initial
           b == auction[v].best
           f == [a \in Accounts |-> (IF a = i THEN x.initialPaid ELSE 0)
                                       + (IF a = b THEN x.bestPaid ELSE 0)
                                       + (IF a = e THEN x.executorPaid ELSE 0)]
<1>1. /\ x.userAmount \in Nat /\ x.initialPaid \in Int /\ x.bestPaid \in Int
      /\ x.executorPaid \in Int
  BY ExecutionTypes
<1>. HIDE DEF x
<1>2. i \in Accounts /\ b \in Accounts
  BY DEF TypeOK, AuctionTypeOK
<1>3. /\ x.initialPaid + x.bestPaid + x.executorPaid + x.userAmount = custody[v]
      /\ Credit(f)
      /\ custody' = [custody EXCEPT ![v] = 0]
  BY DEF HandleExecuteFastOrder, Balances, x
<1>4. /\ f \in [Accounts -> Int]
      /\ SumFunction(f) = x.initialPaid + x.bestPaid + x.executorPaid
  <2>1. f = Payments(i, x.initialPaid, b, x.bestPaid, e, x.executorPaid)
    BY DEF Payments
  <2>. HIDE DEF f, i, b
  <2>. QED BY <1>1, <1>2, <2>1, PaymentsSum
<1>. HIDE DEF f
<1>5. SumFunction(balance') = SumFunction(balance) + SumFunction(f)
  BY <1>3, <1>4, CreditSum
<1>6. SumFunction(custody') = SumFunction(custody) - custody[v]
  <2>1. PICK none \in Int : none = 0
    OBVIOUS
  <2>2. SumFunction(custody') = SumFunction(custody) - custody[v] + none
    BY <1>3, <2>1, CustodyUpdate
  <2>. QED BY <2>1, <2>2, HeldSums, HeldTypes
<1>7. custody[v] \in Int
  BY HeldTypes
<1>. QED BY <1>1, <1>3, <1>4, <1>5, <1>6, <1>7, HeldSums DEF x

LEMMA ExecuteCctpConserves ==
    ASSUME TypeOK, NEW v \in Vaas, NEW e \in Accounts, ExecuteFastOrderCctp(v, e)
    PROVE  Conserves
<1> DEFINE x == Execution(v, e, DepositPenalty(v))
<1>1. /\ auction[v].status = "Active"
      /\ HandleExecuteFastOrder(v, e, x)
      /\ released' = released + x.userAmount
      /\ UNCHANGED <<response, minted, localCustody>>
  BY DEF ExecuteFastOrderCctp
<1>2. /\ x.userAmount \in Nat
      /\ SumFunction(balance') + SumFunction(custody') + x.userAmount
            = SumFunction(balance) + SumFunction(custody)
  BY <1>1, ExecutionEmptiesCustody
<1>3. Prepared' = Prepared /\ Arrived' = Arrived
  BY <1>1 DEF Prepared, Arrived
<1>4. SumFunction(balance') \in Int /\ SumFunction(custody') \in Int
  BY HeldSumsNext, ExecuteCctpType
<1>. HIDE DEF x
<1>. QED BY <1>1, <1>2, <1>3, <1>4, HeldSums DEF Conserves, UsdcHeld

\* The fill of an order to Solana waits in the local custody of its source chain.
LEMMA LocalFillCustody ==
    ASSUME TypeOK, NEW v \in Vaas, NEW amount \in Nat, SendLocalFill(v, amount)
    PROVE  SumFunction(localCustody') = SumFunction(localCustody) + amount
<1> DEFINE c == Order[v].source
<1>1. localCustody' = [localCustody EXCEPT ![c] = localCustody[c] + amount]
  BY DEF SendLocalFill
<1>2. c \in Chains
  BY OrderFacts DEF Orders
<1>. HIDE DEF c
<1>3. localCustody[c] + amount \in Int /\ localCustody[c] \in Int
  BY <1>2, HeldTypes
<1>4. SumFunction(localCustody')
         = SumFunction(localCustody) - localCustody[c] + (localCustody[c] + amount)
  BY <1>1, <1>2, <1>3, LocalCustodyUpdate
<1>. QED BY <1>3, <1>4, HeldSums

LEMMA ExecuteLocalConserves ==
    ASSUME TypeOK, NEW v \in Vaas, NEW e \in Accounts, ExecuteFastOrderLocal(v, e)
    PROVE  Conserves
<1> DEFINE x == Execution(v, e, DepositPenalty(v))
<1>1. /\ auction[v].status = "Active"
      /\ HandleExecuteFastOrder(v, e, x)
      /\ SendLocalFill(v, x.userAmount)
      /\ UNCHANGED <<response, minted, released>>
  BY DEF ExecuteFastOrderLocal
<1>2. /\ x.userAmount \in Nat
      /\ SumFunction(balance') + SumFunction(custody') + x.userAmount
            = SumFunction(balance) + SumFunction(custody)
  BY <1>1, ExecutionEmptiesCustody
<1>3. Prepared' = Prepared /\ Arrived' = Arrived
  BY <1>1 DEF Prepared, Arrived
<1>4. SumFunction(balance') \in Int /\ SumFunction(custody') \in Int
  BY HeldSumsNext, ExecuteLocalType
<1>. HIDE DEF x
<1>5. SumFunction(localCustody') = SumFunction(localCustody) + x.userAmount
  BY <1>1, <1>2, LocalFillCustody
<1>. QED BY <1>1, <1>2, <1>3, <1>4, <1>5, HeldSums DEF Conserves, UsdcHeld

\* The transfer that arrives is put into the custody of the new response.
LEMMA PrepareOrderResponseConserves ==
    ASSUME TypeOK, NEW v \in Vaas, ClosedIsEmpty(v), NEW payer \in Payers,
           NEW b \in Accounts, PrepareOrderResponseCctp(v, payer, b)
    PROVE  Conserves
<1> DEFINE r == [exists |-> TRUE, preparedBy |-> payer, baseFeeToken |-> b,
                 target |-> endpoint[Order[v].target].protocol,
                 custody |-> Order[v].amountIn]
<1>1. /\ ~response[v].exists /\ ~minted[v]
      /\ minted' = [minted EXCEPT ![v] = TRUE]
      /\ response' = [response EXCEPT ![v] = r]
      /\ UNCHANGED <<balance, custody, localCustody, released>>
  BY DEF PrepareOrderResponseCctp, Receivable, tokenVars, outputVars
<1>2. r.custody = Order[v].amountIn /\ Order[v].amountIn \in Int
  BY Amounts
<1>3. response[v].custody = 0
  BY <1>1 DEF ClosedIsEmpty
<1>. HIDE DEF r
<1>4. SumFunction(Prepared') = SumFunction(Prepared) + Order[v].amountIn
  <2>1. r.custody \in Int
    BY <1>2
  <2>2. SumFunction(Prepared')
           = SumFunction(Prepared) - response[v].custody + r.custody
    BY <1>1, <2>1, PreparedUpdate
  <2>. QED BY <1>2, <1>3, <2>2, HeldSums
<1>5. SumFunction(Arrived') = SumFunction(Arrived) + Order[v].amountIn
  <2>1. Arrived' = [Arrived EXCEPT ![v] = Order[v].amountIn] /\ Arrived[v] = 0
    BY <1>1 DEF Arrived, TypeOK, ResponseTypeOK
  <2>2. Arrived \in [Vaas -> Int]
    BY HeldTypes
  <2>3. SumFunction([Arrived EXCEPT ![v] = Order[v].amountIn])
           = SumFunction(Arrived) - Arrived[v] + Order[v].amountIn
    <3>. HIDE DEF Arrived
    <3>. QED BY <1>2, <2>2, TotalUpdate, FinitenessAssumption
  <2>. QED BY <1>2, <2>1, <2>3, HeldSums
<1>. QED BY <1>1, <1>2, <1>4, <1>5, HeldSums DEF Conserves, UsdcHeld

\* Closing a response takes what its custody held.
LEMMA ResponseClosed ==
    ASSUME TypeOK, NEW v \in Vaas, response' = [response EXCEPT ![v] = NoResponse]
    PROVE  SumFunction(Prepared') = SumFunction(Prepared) - response[v].custody
<1>1. NoResponse.custody = 0 /\ NoResponse.custody \in Int
  BY DEF NoResponse
<1>2. SumFunction(Prepared')
         = SumFunction(Prepared) - response[v].custody + NoResponse.custody
  BY <1>1, PreparedUpdate
<1>3. response[v].custody \in Int
  BY Amounts
<1>. QED BY <1>1, <1>2, <1>3, HeldSums

LEMMA SettleCompleteConserves ==
    ASSUME TypeOK, NEW v \in Vaas, SettleAuctionComplete(v)
    PROVE  Conserves
<1> DEFINE r == Repayment(v)
           b == auction[v].best
           t == response[v].baseFeeToken
           f == [a \in Accounts |-> (IF a = b THEN r.best ELSE 0)
                                       + (IF a = t THEN r.base ELSE 0)]
<1>1. /\ response[v].exists /\ auction[v].status = "Completed"
      /\ r.best + r.base = response[v].custody
      /\ Credit(f)
      /\ response' = [response EXCEPT ![v] = NoResponse]
      /\ UNCHANGED <<minted, custody, localCustody, released>>
  BY DEF SettleAuctionComplete, outputVars
<1>2. b \in Accounts /\ t \in Accounts
  BY <1>1 DEF TypeOK, AuctionTypeOK, ResponseTypeOK
<1>3. r.best \in Int /\ r.base \in Int
  BY Amounts, SaturatingTypes DEF Repayment
<1>. HIDE DEF r
<1>4. f \in [Accounts -> Int] /\ SumFunction(f) = r.best + r.base
  <2>1. PICK none \in Int : none = 0
    OBVIOUS
  <2>2. f = Payments(b, r.best, t, r.base, t, none)
    BY <1>3, <2>1 DEF Payments
  <2>. HIDE DEF f, b, t
  <2>3. f \in [Accounts -> Int] /\ SumFunction(f) = r.best + r.base + none
    BY <1>2, <1>3, <2>2, PaymentsSum
  <2>. QED BY <1>3, <2>1, <2>3
<1>. HIDE DEF f
<1>5. SumFunction(balance') = SumFunction(balance) + SumFunction(f)
  BY <1>1, <1>4, CreditSum
<1>6. SumFunction(Prepared') = SumFunction(Prepared) - response[v].custody
  BY <1>1, ResponseClosed
<1>7. Arrived' = Arrived
  BY <1>1 DEF Arrived
<1>. QED BY <1>1, <1>3, <1>4, <1>5, <1>6, <1>7, HeldSums DEF Conserves, UsdcHeld

\* What both settlements without an auction do: the fees and the user's amount
\* are what the response held.
LEMMA SettleNoneDivides ==
    ASSUME TypeOK, NEW v \in Vaas, SettleNoneAndPrepareFill(v)
    PROVE  /\ SettleNoneUserAmount(v) \in Nat
           /\ SumFunction(balance') + SumFunction(Prepared') + SettleNoneUserAmount(v)
                 = SumFunction(balance) + SumFunction(Prepared)
<1> DEFINE a == FeeRecipientToken
           fee == SettleNoneFee(v)
           user == SettleNoneUserAmount(v)
<1>1. /\ balance' = [balance EXCEPT ![a] = balance[a] + fee]
      /\ response' = [response EXCEPT ![v] = NoResponse]
      /\ fee <= response[v].custody
  BY DEF SettleNoneAndPrepareFill
<1>2. fee \in Nat /\ user \in Nat /\ response[v].custody \in Nat
  BY SettleNoneAmounts, Amounts
<1>3. fee + user = response[v].custody
  BY <1>1, <1>2 DEF SettleNoneUserAmount, SaturatingSub
<1>. HIDE DEF fee, user
<1>4. a \in Accounts /\ balance[a] \in Int /\ balance[a] + fee \in Int
  BY <1>2, HeldTypes, ConstantsAssumption
<1>5. SumFunction(balance') = SumFunction(balance) - balance[a] + (balance[a] + fee)
  BY <1>1, <1>4, BalanceUpdate
<1>6. SumFunction(Prepared') = SumFunction(Prepared) - response[v].custody
  BY <1>1, ResponseClosed
<1>7. user \in Nat
      /\ SumFunction(balance') + SumFunction(Prepared') + user
            = SumFunction(balance) + SumFunction(Prepared)
  BY <1>2, <1>3, <1>4, <1>5, <1>6, HeldSums
<1>. QED BY <1>7 DEF user

LEMMA SettleNoneCctpConserves ==
    ASSUME TypeOK, NEW v \in Vaas, SettleAuctionNoneCctp(v)
    PROVE  Conserves
<1> DEFINE user == SettleNoneUserAmount(v)
<1>1. /\ SettleNoneAndPrepareFill(v)
      /\ released' = released + user
      /\ UNCHANGED <<minted, custody, localCustody>>
  BY DEF SettleAuctionNoneCctp
<1>2. /\ user \in Nat
      /\ SumFunction(balance') + SumFunction(Prepared') + user
            = SumFunction(balance) + SumFunction(Prepared)
  BY <1>1, SettleNoneDivides
<1>. HIDE DEF user
<1>3. SumFunction(balance') \in Int /\ SumFunction(Prepared') \in Int
  BY HeldSumsNext, SettleNoneCctpType
<1>4. Arrived' = Arrived
  BY <1>1 DEF Arrived
<1>. QED BY <1>1, <1>2, <1>3, <1>4, HeldSums DEF Conserves, UsdcHeld

LEMMA SettleNoneLocalConserves ==
    ASSUME TypeOK, NEW v \in Vaas, SettleAuctionNoneLocal(v)
    PROVE  Conserves
<1> DEFINE user == SettleNoneUserAmount(v)
<1>1. /\ SettleNoneAndPrepareFill(v)
      /\ SendLocalFill(v, user)
      /\ UNCHANGED <<minted, custody, released>>
  BY DEF SettleAuctionNoneLocal
<1>2. /\ user \in Nat
      /\ SumFunction(balance') + SumFunction(Prepared') + user
            = SumFunction(balance) + SumFunction(Prepared)
  BY <1>1, SettleNoneDivides
<1>. HIDE DEF user
<1>3. SumFunction(balance') \in Int /\ SumFunction(Prepared') \in Int
  BY HeldSumsNext, SettleNoneLocalType
<1>4. Arrived' = Arrived
  BY <1>1 DEF Arrived
<1>5. SumFunction(localCustody') = SumFunction(localCustody) + user
  BY <1>1, <1>2, LocalFillCustody
<1>. QED BY <1>1, <1>2, <1>3, <1>4, <1>5, HeldSums DEF Conserves, UsdcHeld

LEMMA CompleteFastFillConserves ==
    ASSUME TypeOK, NEW f \in fastFills, CompleteFastFill(f)
    PROVE  Conserves
<1>1. /\ localCustody' = [localCustody EXCEPT
                             ![f.source] = localCustody[f.source] - f.amount]
      /\ released' = released + f.amount
      /\ UNCHANGED <<response, minted, balance, custody>>
  BY DEF CompleteFastFill
<1>2. f.source \in Chains /\ f.amount \in Nat
  BY DEF TypeOK, SequenceTypeOK, FastFills
<1>3. localCustody[f.source] \in Int /\ localCustody[f.source] - f.amount \in Int
  BY <1>2, HeldTypes
<1>4. SumFunction(localCustody') = SumFunction(localCustody) - localCustody[f.source]
                                      + (localCustody[f.source] - f.amount)
  BY <1>1, <1>2, <1>3, LocalCustodyUpdate
<1>5. Prepared' = Prepared /\ Arrived' = Arrived
  BY <1>1 DEF Prepared, Arrived
<1>. QED BY <1>1, <1>2, <1>3, <1>4, <1>5, HeldSums DEF Conserves, UsdcHeld

LEMMA DonateConserves ==
    ASSUME TypeOK, NEW a \in Accounts, NEW v \in Vaas, Donate(a, v)
    PROVE  Conserves
<1>1. balance' = [balance EXCEPT ![a] = balance[a] - 1] /\ UNCHANGED <<minted, released>>
  BY DEF Donate, outputVars
<1>2. balance[a] \in Int /\ balance[a] - 1 \in Int
  BY HeldTypes
<1>3. SumFunction(balance') = SumFunction(balance) - 1
  <2>1. SumFunction(balance') = SumFunction(balance) - balance[a] + (balance[a] - 1)
    BY <1>1, <1>2, BalanceUpdate
  <2>. QED BY <1>2, <2>1, HeldSums
<1>4. Arrived' = Arrived
  BY <1>1 DEF Arrived
<1>5. CASE /\ custody' = [custody EXCEPT ![v] = @ + 1]
           /\ UNCHANGED <<response, localCustody>>
  <2>1. custody[v] \in Int /\ custody[v] + 1 \in Int
    BY HeldTypes
  <2>2. SumFunction(custody') = SumFunction(custody) - custody[v] + (custody[v] + 1)
    BY <1>5, <2>1, CustodyUpdate
  <2>3. Prepared' = Prepared
    BY <1>5 DEF Prepared
  <2>. QED BY <1>1, <1>3, <1>4, <1>5, <2>1, <2>2, <2>3, HeldSums
           DEF Conserves, UsdcHeld
<1>6. CASE /\ response' = [response EXCEPT ![v].custody = @ + 1]
           /\ UNCHANGED <<custody, localCustody>>
  <2> DEFINE r == [response[v] EXCEPT !.custody = @ + 1]
  <2>1. response[v].custody \in Int
    BY Amounts
  <2>2. r.custody = response[v].custody + 1 /\ response' = [response EXCEPT ![v] = r]
    BY <1>6 DEF TypeOK, ResponseTypeOK, Responses
  <2>. HIDE DEF r
  <2>3. r.custody \in Int
    BY <2>1, <2>2
  <2>4. SumFunction(Prepared')
           = SumFunction(Prepared) - response[v].custody + r.custody
    BY <2>2, <2>3, PreparedUpdate
  <2>. QED BY <1>1, <1>3, <1>4, <1>6, <2>1, <2>2, <2>4, HeldSums
           DEF Conserves, UsdcHeld
<1>7. CASE /\ localCustody' = [localCustody EXCEPT ![Order[v].source] = @ + 1]
           /\ UNCHANGED <<custody, response>>
  <2> DEFINE c == Order[v].source
  <2>1. c \in Chains
    BY OrderFacts DEF Orders
  <2>2. localCustody' = [localCustody EXCEPT ![c] = localCustody[c] + 1]
    BY <1>7
  <2>. HIDE DEF c
  <2>3. localCustody[c] \in Int /\ localCustody[c] + 1 \in Int
    BY <2>1, HeldTypes
  <2>4. SumFunction(localCustody') = SumFunction(localCustody) - localCustody[c]
                                        + (localCustody[c] + 1)
    BY <2>1, <2>2, <2>3, LocalCustodyUpdate
  <2>5. Prepared' = Prepared
    BY <1>7 DEF Prepared
  <2>. QED BY <1>1, <1>3, <1>4, <1>7, <2>3, <2>4, <2>5, HeldSums
           DEF Conserves, UsdcHeld
<1>. QED BY <1>5, <1>6, <1>7, Zenon DEF Donate

-----------------------------------------------------------------------------
(* The whole *)

LEMMA ClosedStayEmpty ==
    ASSUME TypeOK, NEW v \in Vaas, AuctionStep(v), NEW w \in Vaas, ClosedIsEmpty(w)
    PROVE  ClosedIsEmpty(w)'
<1> USE DEF ClosedIsEmpty, TypeOK, AuctionTypeOK, ResponseTypeOK, TokenTypeOK,
            tokenVars
<1>1. ASSUME NEW a \in Accounts, NEW p \in 0 .. Order[v].maxFee,
             PlaceInitialOfferCctp(v, a, p)
      PROVE  ClosedIsEmpty(w)'
  BY <1>1 DEF PlaceInitialOfferCctp
<1>2. ASSUME NEW a \in Accounts, NEW p \in 0 .. Order[v].maxFee,
             ImproveOffer(v, a, p)
      PROVE  ClosedIsEmpty(w)'
  <2>1. auction'[w].status = auction[w].status /\ UNCHANGED response
    BY <1>2 DEF ImproveOffer, Improved, Auctions
  <2>2. w # v => custody'[w] = custody[w]
    BY <1>2 DEF ImproveOffer
  <2>3. auction[v].status = "Active"
    BY <1>2 DEF ImproveOffer
  <2>. QED BY <2>1, <2>2, <2>3
<1>3. ASSUME NEW e \in Accounts,
             ExecuteFastOrderCctp(v, e) \/ ExecuteFastOrderLocal(v, e)
      PROVE  ClosedIsEmpty(w)'
  <2>1. custody' = [custody EXCEPT ![v] = 0] /\ UNCHANGED response
    BY <1>3 DEF ExecuteFastOrderCctp, ExecuteFastOrderLocal, HandleExecuteFastOrder
  <2>2. w # v => auction'[w] = auction[w]
    BY <1>3 DEF ExecuteFastOrderCctp, ExecuteFastOrderLocal, HandleExecuteFastOrder
  <2>. QED BY <2>1, <2>2
<1>4. ASSUME NEW payer \in Payers, NEW b \in Accounts,
             PrepareOrderResponseCctp(v, payer, b)
      PROVE  ClosedIsEmpty(w)'
  BY <1>4 DEF PrepareOrderResponseCctp
<1>5. ASSUME NEW payer \in Payers,
             ReserveFastFillSequenceActiveAuction(v, payer)
      PROVE  ClosedIsEmpty(w)'
  BY <1>5 DEF ReserveFastFillSequenceActiveAuction
<1>6. CASE ReserveFastFillSequenceNoAuction(v) \/ CloseAuction(v)
  BY <1>6 DEF ReserveFastFillSequenceNoAuction, CloseAuction, NewAuctionPlaceholder,
              NoAuction, AuctionAccountFree, Closable
<1>7. CASE SettleAuctionComplete(v)
  BY <1>7 DEF SettleAuctionComplete, NoResponse, Auctions
<1>8. CASE SettleAuctionNoneCctp(v) \/ SettleAuctionNoneLocal(v)
  BY <1>8 DEF SettleAuctionNoneCctp, SettleAuctionNoneLocal,
              SettleNoneAndPrepareFill, NoResponse, NewAuctionPlaceholder, NoAuction,
              AuctionAccountFree, IsPlaceholder
<1>. QED BY <1>1, <1>2, <1>3, <1>4, <1>5, <1>6, <1>7, <1>8, Zenon DEF AuctionStep

LEMMA SameMoneyConserves ==
    ASSUME UNCHANGED <<balance, custody, localCustody, response, minted, released>>
    PROVE  Conserves
BY DEF Conserves, UsdcHeld, Prepared, Arrived

LEMMA AuctionStepConserves ==
    ASSUME TypeOK, NEW v \in Vaas, ClosedIsEmpty(v), AuctionStep(v)
    PROVE  Conserves
<1>1. ASSUME NEW payer \in Payers,
             ReserveFastFillSequenceActiveAuction(v, payer)
      PROVE  Conserves
  BY <1>1, SameMoneyConserves
  DEF ReserveFastFillSequenceActiveAuction, tokenVars, outputVars
<1>2. CASE ReserveFastFillSequenceNoAuction(v) \/ CloseAuction(v)
  BY <1>2, SameMoneyConserves
  DEF ReserveFastFillSequenceNoAuction, CloseAuction, tokenVars, outputVars
<1>. QED BY <1>1, <1>2, PlaceInitialOfferConserves, ImproveOfferConserves,
            ExecuteCctpConserves, ExecuteLocalConserves, PrepareOrderResponseConserves,
            SettleCompleteConserves, SettleNoneCctpConserves, SettleNoneLocalConserves,
            Zenon
         DEF AuctionStep

LEMMA NextConserves ==
    TypeOK /\ ClosedAreEmpty /\ [Next]_vars => ClosedAreEmpty' /\ Conserves
<1> SUFFICES ASSUME TypeOK, ClosedAreEmpty, [Next]_vars
             PROVE  ClosedAreEmpty' /\ Conserves
  OBVIOUS
<1>1. UNCHANGED <<auction, custody, response>> => ClosedAreEmpty'
  BY DEF ClosedAreEmpty, ClosedIsEmpty
<1>2. ASSUME NEW v \in Vaas, AuctionStep(v)
      PROVE  ClosedAreEmpty' /\ Conserves
  BY <1>2, ClosedStayEmpty, AuctionStepConserves DEF ClosedAreEmpty
<1>3. ASSUME NEW f \in fastFills, FastFillStep(f)
      PROVE  ClosedAreEmpty' /\ Conserves
  <2>1. CASE CompleteFastFill(f)
    BY <1>1, <2>1, CompleteFastFillConserves DEF CompleteFastFill
  <2>2. CASE CloseRedeemedFastFill(f)
    BY <1>1, <2>2, SameMoneyConserves DEF CloseRedeemedFastFill, tokenVars, outputVars
  <2>. QED BY <1>3, <2>1, <2>2 DEF FastFillStep
<1>4. CASE OwnerStep
  BY <1>1, <1>4, SameMoneyConserves
  DEF OwnerStep, SetPause, UpdateAuctionParameters, DisableRouterEndpoint,
      UpdateCctpRouterEndpoint, UpdateLocalRouterEndpoint, ownerFrame, tokenVars,
      outputVars
<1>5. ASSUME NEW a \in Accounts, NEW v \in Vaas, Donate(a, v)
      PROVE  ClosedAreEmpty' /\ Conserves
  <2>1. ASSUME NEW w \in Vaas
        PROVE  ClosedIsEmpty(w)'
    <3>1. ClosedIsEmpty(w) /\ UNCHANGED auction
      BY <1>5 DEF ClosedAreEmpty, Donate
    <3>2. auction[w].status # "Active" => custody'[w] = custody[w]
      BY <1>5 DEF Donate, TypeOK, TokenTypeOK
    <3>3. /\ response'[w].exists = response[w].exists
          /\ ~response[w].exists => response'[w].custody = response[w].custody
      BY <1>5 DEF Donate, TypeOK, ResponseTypeOK, Responses
    <3>. QED BY <3>1, <3>2, <3>3 DEF ClosedIsEmpty
  <2>. QED BY <1>5, <2>1, DonateConserves DEF ClosedAreEmpty
<1>6. CASE AdvanceSlot \/ AdvanceTime
           \/ \E a \in VolatileAccounts, s \in {"Open", "Frozen", "Closed"} :
                 ChangeAccountState(a, s)
  BY <1>1, <1>6, SameMoneyConserves, Zenon
  DEF AdvanceSlot, AdvanceTime, ChangeAccountState, environmentFrame, tokenVars,
      outputVars
<1>7. CASE UNCHANGED vars
  BY <1>1, <1>7, SameMoneyConserves DEF vars, tokenVars, outputVars
<1>. QED BY <1>2, <1>3, <1>4, <1>5, <1>6, <1>7, Zenon DEF Next, EnvironmentStep

\* Nothing has arrived and nothing is in custody at the start.
LEMMA InitConserved == Init => ClosedAreEmpty /\ UsdcConserved
<1> SUFFICES ASSUME Init PROVE ClosedAreEmpty /\ UsdcConserved
  OBVIOUS
<1>1. ClosedAreEmpty
  BY DEF Init, ClosedAreEmpty, ClosedIsEmpty, NoResponse
<1>2. ASSUME NEW S, IsFiniteSet(S), NEW f, DOMAIN f = S, \A x \in S : f[x] = 0
      PROVE  SumFunction(f) = 0
  BY <1>2, SumZero DEF SumFunction
<1>3. SumFunction(custody) = 0
  BY <1>2, FinitenessAssumption DEF Init
<1>4. SumFunction(localCustody) = 0
  BY <1>2, FinitenessAssumption DEF Init
<1>5. SumFunction(Prepared) = 0
  BY <1>2, FinitenessAssumption DEF Init, Prepared, NoResponse
<1>6. SumFunction(Arrived) = 0
  BY <1>2, FinitenessAssumption DEF Init, Arrived
<1>7. balance = InitialBalance /\ released = 0
  BY DEF Init
<1>8. SumFunction(InitialBalance) \in Int
  BY TotalType, FinitenessAssumption, ConstantsAssumption
<1>. QED BY <1>1, <1>3, <1>4, <1>5, <1>6, <1>7, <1>8 DEF UsdcConserved, UsdcHeld

LEMMA ConservedNext ==
    TypeOK /\ TypeOK' /\ UsdcConserved /\ Conserves => UsdcConserved'
<1> SUFFICES ASSUME TypeOK, TypeOK', UsdcConserved, Conserves
             PROVE  UsdcConserved'
  OBVIOUS
<1>1. UsdcHeld \in Int
  BY HeldSums DEF UsdcHeld
<1>2. UsdcHeld' \in Int
  BY HeldSumsNext DEF UsdcHeld
<1>3. SumFunction(Arrived) \in Int /\ SumFunction(Arrived)' \in Int
  BY HeldSums, HeldSumsNext
<1>4. SumFunction(InitialBalance) \in Int
  BY TotalType, FinitenessAssumption, ConstantsAssumption
<1>5. UsdcHeld = SumFunction(InitialBalance) + SumFunction(Arrived)
  BY DEF UsdcConserved
<1>6. UsdcHeld' = SumFunction(InitialBalance) + SumFunction(Arrived)'
  BY <1>1, <1>2, <1>3, <1>4, <1>5 DEF Conserves
<1>. QED BY <1>6 DEF UsdcConserved

\* No instruction creates or loses USDC: what the participants, the custody
\* accounts and the responses hold, with what left the program, is what there was
\* and what CCTP brought.
THEOREM UsdcIsConserved == Spec => []UsdcConserved
<1> DEFINE Inv == TypeOK /\ ClosedAreEmpty /\ UsdcConserved
<1>1. Init => Inv
  BY InitTypeOK, InitConserved
<1>2. Inv /\ [Next]_vars => Inv'
  BY NextTypeOK, NextConserves, ConservedNext
<1>3. Inv => UsdcConserved
  OBVIOUS
<1>. QED BY <1>1, <1>2, <1>3, PTL DEF Spec
=============================================================================
