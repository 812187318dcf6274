---------------------------- MODULE OfferImprover ----------------------------
(***************************************************************************)
(* The improveOffer process of the example solver: for every AuctionUpdated *)
(* event of a competitor it decides whether to offer the highest price     *)
(* that the engine would accept.                                           *)
(***************************************************************************)
EXTENDS Integers, FiniteSets

CONSTANTS
    Pricing,            \* chain |-> its pricing parameters, or NoPricing
    NoPricing,
    PRECISION,          \* of the probability and the edge
    RecognizedAccounts, \* cfg.recognizedTokenAccounts()
    OfferToken,         \* the token account that the process offers with
    NoPrice             \* maxOfferPriceAllowed of an offer that cannot be improved

VARIABLES
    improverUp,         \* whether the process runs
    offers              \* improveOffer transactions under way

improverVars == <<improverUp, offers>>

ImproverInit == improverUp = TRUE /\ offers = {}

\* Mutation: only the account that the process offers with counts as ours.
ImproverAccounts_OfferToken == {OfferToken}

\* Our own account counts as recognized whether or not it is configured.
ImproverAccounts == RecognizedAccounts \cup {OfferToken}

\* The fair value of a transfer with our edge, in whole units.
FairValueWithEdge(amountIn, pricing) ==
    LET fairValue == (amountIn * pricing.probability) \div PRECISION
    IN  fairValue + (fairValue * pricing.edgePctOfFv) \div PRECISION

ShouldImproveOffer(amountIn, maxOfferPriceAllowed, pricing) ==
    FairValueWithEdge(amountIn, pricing) <= maxOfferPriceAllowed

\* The transaction names the best offer of the event.
ImproveOfferTx(event) ==
    [auction |-> event.auction, best |-> event.best,
     price |-> event.maxOfferPriceAllowed]

\* The callback of onAuctionUpdated, with the transactions under way.  A price that
\* is null makes shouldImproveOffer throw in an async callback, which ends the
\* process.
ImproverOnAuctionUpdated(event, underWay) ==
    LET pricing == Pricing[event.sourceChain]
        plays   == /\ improverUp
                   /\ pricing # NoPricing
                   /\ event.best \notin ImproverAccounts
                   /\ event.endSlot > event.slot
        improves == /\ plays /\ event.maxOfferPriceAllowed # NoPrice
                    /\ ShouldImproveOffer(event.amountIn,
                                          event.maxOfferPriceAllowed, pricing)
    IN  /\ improverUp' = (improverUp /\ ~(plays /\ event.maxOfferPriceAllowed = NoPrice))
        /\ offers' = IF improves THEN underWay \cup {ImproveOfferTx(event)}
                     ELSE underWay
=============================================================================
