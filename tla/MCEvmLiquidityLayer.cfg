\* Two orders from one or two chains, two accounts that bid, execute and relay.
SPECIFICATION FairSpec
CONSTANTS
    Orders = {"toHub", "toBase"}
    Target <- Targets
    AmountIn <- Amounts
    MaxFee <- Fees
    Deadlines <- OrderDeadlines
    Accounts = {"alice", "bob"}
    Chains = {"avalanche", "base", "ethereum"}
    Hub = "avalanche"
    Engine = "engine"
    AuctionDuration = 1
    AuctionGracePeriod = 2
    AuctionPenaltyBlocks = 2
    UserPenaltyRewardBps = 2
    InitialPenaltyBps = 1
    MAX_BPS_FEE = 4
    MIN_FAST_TRANSFER_AMOUNT = 4
    UINT64_MAX = 100
    NoAccount = "zero"
    FirstFeeRecipient = "alice"
    FirstParameters <- FirstFees
    Parameters <- OtherFees
    Unregistered <- ToAdd
    Managed <- Changing
    Adjusted = {"ethereum"}
    MaxBlock = 4
    MaxCalls = 3
INVARIANTS
    EngineHoldsWhatItOwes
    SettlementNeverReverts
    BiddersAreWhole
PROPERTIES
    ImplementsLifecycle
    EveryOrderSettles
CHECK_DEADLOCK FALSE
