-------------------------- MODULE MCMatchingEngine --------------------------
(***************************************************************************)
(* Small instances of MatchingEngine for TLC.                              *)
(***************************************************************************)
EXTENDS MatchingEngine, TLC

\* Ethereum and Arbitrum send orders to each other and to Solana.
Ethereum == "ethereum"
Arbitrum == "arbitrum"
Solana == "solana"

\* An order whose fees and deadline matter, with amounts scaled to the bounds.
AnOrder(target, sender, deadline) ==
    [amountIn |-> 8, maxFee |-> 3, initAuctionFee |-> 1, baseFee |-> 1,
     deadline |-> deadline, timestamp |-> 0,
     source |-> Ethereum, emitter |-> "router", sender |-> sender,
     target |-> target]

OrdersToArbitrum == [v \in Vaas |-> AnOrder(Arbitrum, "user", 0)]

\* Cheaper orders, so that two of them fit in one instance.
OrdersToSolana ==
    [v \in Vaas |-> [AnOrder(Solana, "user", 0) EXCEPT !.maxFee = 2]]

\* One order to each kind of chain.
OrdersToBoth ==
    [v \in Vaas |-> [AnOrder(IF v = "toSolana" THEN Solana ELSE Arbitrum, "user", 0)
                       EXCEPT !.maxFee = 2]]

\* The orders of an instance, and the payers, are interchangeable.
Symmetry == Permutations(Vaas) \cup Permutations(Payers)

Endpoint(c) ==
    [protocol |-> CASE c = Ethereum -> "cctp0"
                    [] c = Arbitrum -> "cctp3"
                    [] c = Solana   -> "Local",
     address  |-> "router"]

RegisteredEndpoints == [c \in Chains |-> Endpoint(c)]

\* Half of the deposit is the user's when it is forfeited; a quarter is forfeited
\* at once, the rest over two slots.
DefaultParameters ==
    [duration |-> 1, gracePeriod |-> 1, penaltyPeriod |-> 2,
     userPenaltyRewardBps |-> 2, initialPenaltyBps |-> 1, minOfferDeltaBps |-> 1,
     securityDepositBase |-> 1, securityDepositBps |-> 1]

\* A second configuration, longer and stricter.
StrictParameters ==
    [DefaultParameters EXCEPT !.duration = 2, !.initialPenaltyBps = 4,
                              !.minOfferDeltaBps = 2, !.securityDepositBps = 2]

OneConfig == [i \in 0 .. LastConfig |-> DefaultParameters]

TwoConfigs ==
    [i \in 0 .. LastConfig |-> IF i = 0 THEN DefaultParameters
                                        ELSE StrictParameters]

\* Alice has exactly the deposit of one order (her account is empty, and can be
\* closed, while she holds the best offer); Bob has one USDC more.
TwoBidders ==
    [a \in Accounts |-> CASE a = "alice" -> 14 [] a = "bob" -> 15 [] OTHER -> 0]

\* Enough for the deposit of either configuration.
RichBidders == [a \in Accounts |-> IF a = "fees" THEN 0 ELSE 20]

\* Alice can bid on two orders at once.
OneBidder == [a \in Accounts |-> IF a = "fees" THEN 0 ELSE 28]
=============================================================================
