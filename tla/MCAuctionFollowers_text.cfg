SPECIFICATION Spec
CONSTANTS
    Auctions = {"a1", "a2"}
    OurTokenAccounts = {"ours"}
    RecognizedAccounts = {"ours"}
    OfferToken = "ours"
    Rival = "rival"
    LastSlot = 9
    MaxDuration = 1
    Durations = {1}
    LastStart = 9
    Radix = 10
    MaxDigits = 2
    Pricing <- SomePricing
    NoPricing = NoPricing
    PRECISION = 8
    NoPrice <- NoOffer
    InitialBidders = {"ours"}
    AuctionOf <- SomeAuctions
    SkipChoices = {{}}
    EventsLost = FALSE
    UpdateBlockhashFrequency = 100
    BlockhashValidity = 3
CHECK_DEADLOCK FALSE
INVARIANT
    SlotsAreSorted
