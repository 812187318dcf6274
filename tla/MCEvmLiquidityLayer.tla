------------------------- MODULE MCEvmLiquidityLayer -------------------------
(***************************************************************************)
(* A small instance of EvmLiquidityLayer for TLC.                          *)
(***************************************************************************)
EXTENDS EvmLiquidityLayer

\* One order for the chain of the engine and one for another chain.
Targets == [o \in Orders |-> IF o = "toHub" THEN "avalanche" ELSE "base"]

Amounts == [o \in Orders |-> 4]

\* Within one USDC of the amount: the fees may leave the user almost nothing.
Fees == [o \in Orders |-> 3]

\* One order can be auctioned in the first two blocks, the other at any time.
OrderDeadlines == [o \in Orders |-> IF o = "toHub" THEN {2} ELSE {0}]

FirstFees == [enabled |-> TRUE, maxAmount |-> 4, baseFee |-> 1, initAuctionFee |-> 1]

\* Too much of everything for these orders; a limit that the setter refuses.
OtherFees ==
    {[enabled |-> TRUE, maxAmount |-> 9, baseFee |-> 0, initAuctionFee |-> 2],
     [enabled |-> TRUE, maxAmount |-> 2, baseFee |-> 1, initAuctionFee |-> 1]}

\* The router on Base does not know that of Ethereum yet.
ToAdd == {<<"base", "ethereum">>}

Changing == {<<Engine, "avalanche">>, <<Engine, "base">>, <<"base", "ethereum">>}
=============================================================================
