\* One order to a CCTP chain; the accounts of bidders come and go at any moment.
SPECIFICATION FairSpec
CONSTANTS
    U64_MAX = 100
    FEE_PRECISION_MAX = 4
    Vaas = {v1}
    Order <- OrdersToArbitrum
    Accounts = {"alice", "bob", "fees"}
    Payers = {payer1}
    NoKey = NoKey
    FeeRecipientToken = "fees"
    InitialBalance <- TwoBidders
    Chains = {"ethereum", "arbitrum", "solana"}
    SolanaChain = "solana"
    Senders = {"user"}
    Addresses = {"router"}
    Domains = {"cctp0", "cctp3"}
    InitialEndpoint <- RegisteredEndpoints
    LastConfig = 0
    Config <- OneConfig
    VAA_AUCTION_EXPIRATION_TIME = 1
    EXECUTE_FAST_ORDER_LOCAL_ADDITIONAL_GRACE_PERIOD = 1
    MaxSlot = 5
    MaxStartSlot = 0
    MaxTime = 1
    MaxDonations = 0
    VolatileAccounts = {"alice", "bob"}
    AdminSteps = FALSE
INVARIANTS
    FilledAtMostOnce
    CustodyCoversDeposit
    ExecutionAlwaysBalances
    UserReceivesMinimum
    UsdcConserved
PROPERTIES
    BestOfferIsReimbursed
    ImplementsLifecycle
    ActiveIsExecuted
