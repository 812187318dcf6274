---------------------------- MODULE MCTokenRouter ----------------------------
(***************************************************************************)
(* A small instance of TokenRouter for TLC.                                *)
(***************************************************************************)
EXTENDS TokenRouter

\* Ann's account can pay for one order; Bob's is empty.
Owners == [t \in Tokens |-> IF t = "bobs" THEN "bob" ELSE "ann"]
Balances == [t \in Tokens |-> IF t = "anns" THEN 2 ELSE 0]

Arg(min, chain) ==
    [amountIn |-> 2, minAmountOut |-> min, targetChain |-> chain,
     redeemer |-> "bob", messageSize |-> 0]

\* An order that can be placed, and one that can only be closed: Solana has no CCTP
\* route to itself.
SomeArgs == {Arg(NoMin, "ethereum"), Arg(1, "solana")}

\* Either endpoint may be disabled and registered again.
E(protocol, address) == [protocol |-> protocol, address |-> address]
Endpoint0 ==
    [c \in Chains |-> IF c = "solana" THEN E("Local", "emitter") ELSE E("Cctp", "r1")]
Routes ==
    [c \in Chains |->
        IF c = "solana" THEN {E("None", "emitter"), E("Local", "emitter")}
        ELSE {E("None", "r1"), E("Cctp", "r1")}]

\* Fills for Bob.
FillData ==
    [f \in Fills |->
        [type |-> IF f # "fast" THEN "WormholeCctpDeposit" ELSE "FastFill",
         chain |-> "ethereum", emitter |-> "r1", redeemer |-> "bob", amount |-> 3]]

NoAmount == -1
=============================================================================
