SPECIFICATION Spec
CONSTANTS
    Vaas <- MCVaas
    Setups <- MCSetups
    EnactDelay = 2
    BlockhashAge = 1
    MaxOthers = 2
INVARIANTS
    FreshIsAccepted
    AcceptedIsCurrent
    UnseenProposalsAreNotEnacted
    LeftoversCannotBeSpent
CHECK_DEADLOCK FALSE
