SPECIFICATION Spec
CONSTANTS
    Auctions = {"a1", "a2"}
    OurTokenAccounts = {"ours", "known"}
    RecognizedAccounts = {"ours", "known"}
    OfferToken = "ours"
    Rival = "rival"
    LastSlot = 3
    MaxDuration = 2
    Durations = {1, 2}
    LastStart = 0
    Radix = 10
    MaxDigits = 1
    Pricing <- SomePricing
    NoPricing = NoPricing
    PRECISION = 8
    NoPrice <- NoOffer
    InitialBidders = {"rival", "known"}
    AuctionOf <- SomeAuctions
    SkipChoices = {{}, {2}}
    EventsLost = TRUE
    UpdateBlockhashFrequency = 3
    BlockhashValidity = 3
CHECK_DEADLOCK FALSE
INVARIANTS
    NeverExecutesEarly
    OnlyBlockedAuctionsAreMissed
PROPERTY
    NeverOutbidsItself
