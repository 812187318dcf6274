------------------------- MODULE MCAuctionFollowers -------------------------
(***************************************************************************)
(* A small instance of AuctionFollowers for TLC.                           *)
(***************************************************************************)
EXTENDS AuctionFollowers

\* Prices are configured for one of the two source chains.
SomePricing ==
    [c \in {"ethereum", "sepolia"} |->
        IF c = "ethereum" THEN [probability |-> 1, edgePctOfFv |-> 2] ELSE NoPricing]

\* Transfers whose fair value is one unit: 8 * 1/8, and our edge of 2/8 of it is
\* rounded to nothing.
SomeAuctions ==
    [a \in Auctions |->
        IF a = "a1"
        THEN [sourceChain |-> "ethereum", amountIn |-> 8, maxFee |-> 2]
        ELSE [sourceChain |-> "sepolia", amountIn |-> 8, maxFee |-> 1]]

NoOffer == -1
=============================================================================
