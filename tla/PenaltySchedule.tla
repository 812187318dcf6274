-------------------------- MODULE PenaltySchedule --------------------------
(***************************************************************************)
(* How the forfeited part of a security deposit grows with the slot at     *)
(* which a fast order is executed: compute_deposit_penalty over the life   *)
(* of one auction that started at slot 0.                                  *)
(***************************************************************************)
EXTENDS AuctionMath

CONSTANTS
    Parameters,     \* auction configurations to try
    Deposits,       \* security deposits to try
    Additional,     \* additional grace periods to try
    LastSlot        \* bound on the slots

\* Slots stay below U64_MAX: there the saturated end of the penalty period is
\* reached early, and the whole deposit is forfeited with it.
ASSUME ScheduleAssumption ==
    /\ Parameters \subseteq AuctionParameters
    /\ Deposits \subseteq U64 /\ Additional \subseteq U64
    /\ LastSlot \in Nat /\ LastSlot < U64_MAX

VARIABLES params, deposit, additional, slot

vars == <<params, deposit, additional, slot>>

Init ==
    /\ params \in Parameters
    /\ deposit \in Deposits
    /\ additional \in Additional
    /\ slot = 0

AdvanceSlot ==
    /\ slot < LastSlot
    /\ slot' = slot + 1
    /\ UNCHANGED <<params, deposit, additional>>

Next == AdvanceSlot

Spec == Init /\ [][Next]_vars
-----------------------------------------------------------------------------
Penalty == ComputeDepositPenalty(params, 0, deposit, slot, additional)

Forfeit == Penalty.penalty + Penalty.userReward

\* The slots an execution is late, as a number of whole slots of the penalty
\* period.
Late ==
    LET l == slot - (params.duration + params.gracePeriod + additional)
    IN  IF l < 0 THEN 0 ELSE IF l > params.penaltyPeriod THEN params.penaltyPeriod
        ELSE l

\* The forfeit, multiplied by FEE_PRECISION_MAX and the penalty period so as to
\* be a whole number, is within two units of the straight line from the initial
\* penalty to the whole deposit; it is nothing before and everything after.
ForfeitFollowsLine ==
    LET p     == params.penaltyPeriod
        unit  == FEE_PRECISION_MAX * p
        line  == deposit * (params.initialPenaltyBps * p
                    + (FEE_PRECISION_MAX - params.initialPenaltyBps) * Late)
        error == line - Forfeit * unit
    IN  IF Late = 0 THEN Forfeit = 0
        ELSE /\ error >= 0 /\ error < 2 * unit
             /\ Late = p => Forfeit = deposit

\* Waiting never makes a late execution cheaper for the best offer, nor smaller
\* for the user: neither part falls from one slot to the next.
PenaltyNeverFalls ==
    [][/\ Penalty'.penalty >= Penalty.penalty
       /\ Penalty'.userReward >= Penalty.userReward]_vars
-----------------------------------------------------------------------------
\* Every small auction configuration, with bps in tenths, for TLC.
SomeParameters ==
    [duration : {1}, gracePeriod : {1, 2}, penaltyPeriod : {1, 4, 7},
     userPenaltyRewardBps : {0, 3, 5, 10}, initialPenaltyBps : {0, 1, 7, 10},
     minOfferDeltaBps : {0}, securityDepositBase : {1}, securityDepositBps : {0}]

SomeDeposits == 0 .. 23

NoneOrFive == {0, 5}
=============================================================================
