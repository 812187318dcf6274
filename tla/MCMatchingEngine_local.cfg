\* Two orders of one sender to Solana: reserved sequences, fast fills and local custody,
\* while the owner pauses, reconfigures, and moves or disables endpoints.
SPECIFICATION Spec
CONSTANTS
    U64_MAX = 100
    FEE_PRECISION_MAX = 4
    Vaas = {v1, v2}
    Order <- OrdersToSolana
    Accounts = {"alice", "fees"}
    Payers = {payer1, payer2}
    NoKey = NoKey
    FeeRecipientToken = "fees"
    InitialBalance <- OneBidder
    Chains = {"ethereum", "solana"}
    SolanaChain = "solana"
    Senders = {"user"}
    Addresses = {"router"}
    Domains = {"cctp0"}
    InitialEndpoint <- RegisteredEndpoints
    LastConfig = 1
    Config <- TwoConfigs
    VAA_AUCTION_EXPIRATION_TIME = 1
    EXECUTE_FAST_ORDER_LOCAL_ADDITIONAL_GRACE_PERIOD = 1
    MaxSlot = 3
    MaxStartSlot = 0
    MaxTime = 1
    MaxDonations = 0
    VolatileAccounts = {}
    AdminSteps = TRUE
SYMMETRY Symmetry
\* The orders are done and the clock is at its bound.
CHECK_DEADLOCK FALSE
INVARIANTS
    FillsMatchAuction
    LocalCustodySolvent
    ReservedSequencesAreFree
    PlaceholderCanSettle
