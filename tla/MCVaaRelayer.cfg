SPECIFICATION Spec
CONSTANTS
    Chains = {"Sepolia", "Solana"}
    EvmChains = {"Sepolia"}
    PRECISION = 8
    Missing = Missing
    SeenThreshold = 1
    MaxToRemove = 1
    Orders = {1}
    ChainOf <- OneChain
    EmitterOf <- OneEmitter
    AmountOf <- Amounts
    MaxFeeOf <- Fees
    Files <- SomeFiles
    Payer = "payer"
    Rival = "rival"
    KnownOwners = {"known"}
    DelayedVaaThreshold = 0
    ClockDrift = 0
    Chunks = 1
    RetryCount = 2
    Deposits = 1
    LastTime = 2
    MaxCallbacks = 2
    MaxCrashes = 1
CHECK_DEADLOCK FALSE
INVARIANTS
    SentAfterItsVaa
    OneOfferPerRun
    WonAuctionsAreNotDropped
