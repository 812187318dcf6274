---------------------------- MODULE AuctionMath ----------------------------
(***************************************************************************)
(* The arithmetic of the Solana matching engine's auctions                 *)
(* (programs/matching-engine/src/utils/auction.rs and the slot helpers of  *)
(* state/auction.rs).                                                      *)
(*                                                                         *)
(* Amounts and slots are u64 in the code, with saturating operations;      *)
(* U64_MAX and FEE_PRECISION_MAX (1_000_000 in lib.rs) are parameters so   *)
(* that TLC can put small instances next to the limits.  Products are      *)
(* taken in u128, which neither amount * bps nor deposit * slots fills.    *)
(***************************************************************************)
EXTENDS Integers

CONSTANTS
    U64_MAX,            \* the largest u64
    FEE_PRECISION_MAX   \* "100%" in the units of every *_bps parameter

ASSUME LimitsAssumption ==
    /\ U64_MAX \in Nat \ {0}
    /\ FEE_PRECISION_MAX \in Nat \ {0}

U64 == 0 .. U64_MAX

\* u64::saturating_add and u64::saturating_sub.
SaturatingAdd(a, b) == IF a + b > U64_MAX THEN U64_MAX ELSE a + b

SaturatingSub(a, b) == IF a < b THEN 0 ELSE a - b

\* The cast "as u64" of a u128.
CastToU64(a) == a % (U64_MAX + 1)

-----------------------------------------------------------------------------
\* AuctionParameters that passed require_valid_parameters.
AuctionParameters ==
    [duration             : U64 \ {0},
     gracePeriod          : U64 \ {0},
     penaltyPeriod        : U64 \ {0},
     userPenaltyRewardBps : 0 .. FEE_PRECISION_MAX,
     initialPenaltyBps    : 0 .. FEE_PRECISION_MAX,
     minOfferDeltaBps     : 0 .. FEE_PRECISION_MAX,
     securityDepositBase  : U64 \ {0},
     securityDepositBps   : 0 .. FEE_PRECISION_MAX]

MulBps(amount, bps) == CastToU64((amount * bps) \div FEE_PRECISION_MAX)

-----------------------------------------------------------------------------
\* Slots at which the phases of an auction that began at startSlot end.
AuctionEndSlot(params, startSlot) ==
    SaturatingAdd(startSlot, params.duration)

GracePeriodEndSlot(params, startSlot, additionalGracePeriod) ==
    SaturatingAdd(
        SaturatingAdd(AuctionEndSlot(params, startSlot), params.gracePeriod),
        additionalGracePeriod)

PenaltyPeriodEndSlot(params, startSlot, additionalGracePeriod) ==
    SaturatingAdd(
        GracePeriodEndSlot(params, startSlot, additionalGracePeriod),
        params.penaltyPeriod)

\* Mutation: the last slot of the grace period is late.
WithinGracePeriod_Short(params, startSlot, slot, additionalGracePeriod) ==
    slot < GracePeriodEndSlot(params, startSlot, additionalGracePeriod)

WithinGracePeriod(params, startSlot, slot, additionalGracePeriod) ==
    slot <= GracePeriodEndSlot(params, startSlot, additionalGracePeriod)

WithinAuctionDuration(params, startSlot, slot) ==
    slot <= AuctionEndSlot(params, startSlot)

-----------------------------------------------------------------------------
\* Offers and deposits.

\* An improving offer must be strictly below this price.
ComputeMinAllowedOffer(params, offerPrice) ==
    SaturatingSub(offerPrice, MulBps(offerPrice, params.minOfferDeltaBps))

ComputeNotionalSecurityDeposit(params, notional) ==
    SaturatingAdd(params.securityDepositBase,
                  MulBps(notional, params.securityDepositBps))

TotalDeposit(amountIn, securityDeposit) ==
    SaturatingAdd(amountIn, securityDeposit)

-----------------------------------------------------------------------------
\* What a late execution costs: the executor's penalty and the user's reward.

SplitUserPenaltyReward(params, amount) ==
    LET userReward == MulBps(amount, params.userPenaltyRewardBps)
    IN  [penalty    |-> SaturatingSub(amount, userReward),
         userReward |-> userReward]

\* Mutation: the penalty shrinks over the penalty period.
ScaledForfeit_Decaying(params, deposit, lateSlots) ==
    LET base   == MulBps(deposit, params.initialPenaltyBps)
        scaled == CastToU64((SaturatingSub(deposit, base)
                                * (params.penaltyPeriod - lateSlots))
                                \div params.penaltyPeriod)
    IN  SaturatingAdd(base, scaled)

\* Mutation: divides before it multiplies.
ScaledForfeit_DivideFirst(params, deposit, lateSlots) ==
    LET base   == MulBps(deposit, params.initialPenaltyBps)
        scaled == CastToU64((SaturatingSub(deposit, base) \div params.penaltyPeriod)
                                * lateSlots)
    IN  SaturatingAdd(base, scaled)

\* The part of the deposit that is forfeited inside the penalty period.
ScaledForfeit(params, deposit, lateSlots) ==
    LET base   == MulBps(deposit, params.initialPenaltyBps)
        scaled == CastToU64((SaturatingSub(deposit, base) * lateSlots)
                                \div params.penaltyPeriod)
    IN  SaturatingAdd(base, scaled)

NoDepositPenalty == [penalty |-> 0, userReward |-> 0]

ComputeDepositPenalty(params, startSlot, deposit, slot, additionalGracePeriod) ==
    LET graceSlot == GracePeriodEndSlot(params, startSlot, additionalGracePeriod)
    IN  IF WithinGracePeriod(params, startSlot, slot, additionalGracePeriod)
        THEN NoDepositPenalty
        ELSE IF \/ slot >= PenaltyPeriodEndSlot(params, startSlot,
                                                additionalGracePeriod)
                \/ params.initialPenaltyBps = FEE_PRECISION_MAX
             THEN SplitUserPenaltyReward(params, deposit)
             ELSE SplitUserPenaltyReward(
                      params,
                      ScaledForfeit(params, deposit,
                                    SaturatingSub(slot, graceSlot)))
=============================================================================
