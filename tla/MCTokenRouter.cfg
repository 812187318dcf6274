\* One order key, used again and again, and one fill of each kind.
SPECIFICATION Spec
CONSTANTS
    OrderKeys = {"o1"}
    Signers = {"ann", "bob"}
    Tokens = {"anns", "bobs"}
    TokenOwner <- Owners
    FirstBalance <- Balances
    Args <- SomeArgs
    ZeroRedeemer = "zero"
    MAX_REDEEMER_MESSAGE_SIZE = 1
    Chains = {"ethereum", "solana"}
    SolanaChain = "solana"
    Addresses = {"r1", "emitter"}
    Emitter = "emitter"
    FirstEndpoint <- Endpoint0
    EndpointChoices <- Routes
    Fills = {"vaa", "fast"}
    Fill <- FillData
    Approvers = {"anns"}
    ApprovalAmounts = {2, 4}
    MaxApprovals = 1
    MaxGifts = 1
    NoKey = "none"
    NoMin <- NoAmount
INVARIANTS
    OrdersAreBacked
    ApprovalPaysOnce
    FillIsHeldOrPaid
