---------------------------- MODULE MCVaaRelayer ----------------------------
(***************************************************************************)
(* A small instance of VaaRelayer for TLC: one order of a priced chain.    *)
(***************************************************************************)
EXTENDS VaaRelayer

OneChain == [o \in Orders |-> "Sepolia"]
OneEmitter == [o \in Orders |-> "router"]

\* The fair value of 8 units at 2/8 is 2, and the edge of 4/8 of it is 1.
Amounts == [o \in Orders |-> 8]
Fees == [o \in Orders |-> 3]

Complete ==
    [root |-> RootKeys, sections |-> SectionKeys, environment |-> "Testnet",
     knownAtaOwners |-> {Payer} \cup KnownOwners, ownersAreKeys |-> TRUE, maxRetries |-> 1,
     pricing |-> [c \in {"Sepolia"} |-> [probability |-> 2, edgePctOfFv |-> 4]],
     endpoints |-> [c \in {"Sepolia"} |->
        [address |-> "router", checksummed |-> TRUE, chainType |-> "Evm", rpc |-> "node"]]]

\* A complete file, one without the retries, one without prices, one whose prices are
\* too high for the fee, and three that are refused: for an environment that is not
\* supported, for an owner that is no key, and for an endpoint without a node.
SomeFiles ==
    {Complete,
     [Complete EXCEPT !.sections.sourceTxHash = {"retryBackoff"}],
     [Complete EXCEPT !.pricing = <<>>],
     [Complete EXCEPT !.pricing["Sepolia"].probability = 8],
     [Complete EXCEPT !.environment = "Devnet"],
     [Complete EXCEPT !.ownersAreKeys = FALSE],
     [Complete EXCEPT !.endpoints["Sepolia"].rpc = Missing]}
=============================================================================
