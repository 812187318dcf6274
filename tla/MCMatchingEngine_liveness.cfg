\* Orders to both kinds of chain, a gift of USDC, and relayers that do their duty.
\* Every order ends.
SPECIFICATION FairSpec
CONSTANTS
    U64_MAX = 100
    FEE_PRECISION_MAX = 4
    Vaas = {"toArbitrum", "toSolana"}
    Order <- OrdersToBoth
    Accounts = {"alice", "fees"}
    Payers = {payer1}
    NoKey = NoKey
    FeeRecipientToken = "fees"
    InitialBalance <- OneBidder
    Chains = {"ethereum", "arbitrum", "solana"}
    SolanaChain = "solana"
    Senders = {"user"}
    Addresses = {"router"}
    Domains = {"cctp0", "cctp3"}
    InitialEndpoint <- RegisteredEndpoints
    LastConfig = 0
    Config <- OneConfig
    VAA_AUCTION_EXPIRATION_TIME = 1
    EXECUTE_FAST_ORDER_LOCAL_ADDITIONAL_GRACE_PERIOD = 1
    MaxSlot = 2
    MaxStartSlot = 0
    MaxTime = 1
    MaxDonations = 1
    VolatileAccounts = {}
    AdminSteps = FALSE
\* The orders are done and the clock is at its bound.
CHECK_DEADLOCK FALSE
PROPERTIES
    OrderIsFilled
    AccountsAreClosed
