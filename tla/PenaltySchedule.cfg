SPECIFICATION Spec
CONSTANTS
    U64_MAX = 200
    FEE_PRECISION_MAX = 10
    Parameters <- SomeParameters
    Deposits <- SomeDeposits
    Additional <- NoneOrFive
    LastSlot = 17
\* An auction's slots end at the bound.
CHECK_DEADLOCK FALSE
INVARIANT ForfeitFollowsLine
PROPERTY PenaltyNeverFalls
