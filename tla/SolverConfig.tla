---------------------------- MODULE SolverConfig ----------------------------
(***************************************************************************)
(* The configuration file that the processes of the example solver share:  *)
(* what validateEnvironmentConfig accepts, and what AppConfig makes of it. *)
(* A section of the file is modelled by the set of its keys, a number that *)
(* matters by itself, and an address by whether it is well formed.         *)
(***************************************************************************)
EXTENDS Integers

CONSTANTS
    Chains,         \* the chains that isChain knows
    EvmChains,      \* those of platform Evm
    PRECISION,      \* of the probability and the edge
    Missing         \* the value of a key that the file does not have

RootKeys == {"environment", "connection", "logging", "sourceTxHash", "computeUnits",
             "endpointConfig", "pricing", "knownAtaOwners"}

SectionKeys ==
    [connection   |-> {"rpc", "ws", "commitment", "nonceAccount", "addressLookupTable"},
     logging      |-> {"app", "logic"},
     sourceTxHash |-> {"maxRetries", "retryBackoff"},
     computeUnits |-> {"verifySignatures", "postVaa", "settleAuctionNoneCctp",
                       "settleAuctionNoneLocal", "settleAuctionComplete",
                       "initiateAuction", "improveOffer"}]

\* Only the keys of the file are looped over, so that "... is required" is never
\* said of one that is not there; a missing section fails when it is dereferenced.
ValidKeys(file) ==
    /\ file.root \subseteq RootKeys
    /\ DOMAIN SectionKeys \subseteq file.root
    /\ \A s \in DOMAIN SectionKeys : file.sections[s] \subseteq SectionKeys[s]

\* Devnet is in the enum and refused all the same.
ValidEnvironment(file) == file.environment \in {"Mainnet", "Testnet"}

\* new PublicKey(undefined) throws; the nonce account may be missing.
ValidConnection(file) == "addressLookupTable" \in file.sections.connection

\* new PublicKey throws for an owner that is no key.
ValidOwners(file) == file.knownAtaOwners # {} /\ file.ownersAreKeys

ValidPricing(file) ==
    /\ DOMAIN file.pricing \subseteq Chains
    /\ \A c \in DOMAIN file.pricing :
          /\ file.pricing[c].probability \in 1 .. PRECISION
          /\ file.pricing[c].edgePctOfFv >= 0

\* Every endpoint has its chain, the type of that chain, a node and an address, which
\* must be in its check-summed form.
ValidEndpoints(file) ==
    /\ DOMAIN file.endpoints # {}
    /\ DOMAIN file.endpoints \subseteq Chains
    /\ \A c \in DOMAIN file.endpoints :
          /\ file.endpoints[c].chainType \in {"Evm", "Solana"}
          /\ file.endpoints[c].rpc # Missing
          /\ file.endpoints[c].checksummed

ValidateEnvironmentConfig(file) ==
    /\ ValidKeys(file) /\ ValidEnvironment(file) /\ ValidConnection(file)
    /\ ValidOwners(file) /\ ValidPricing(file) /\ ValidEndpoints(file)
-----------------------------------------------------------------------------
\* The retries of a wormscan request: a comparison with undefined is false, so a
\* key that is missing makes the loop end before the first request.
MaxRetries(file) ==
    IF "maxRetries" \in file.sections.sourceTxHash THEN file.maxRetries ELSE 0

\* The associated token accounts of the known owners.
RecognizedTokenAccount(file, owner) == owner \in file.knownAtaOwners

PricingParameters(file, chain) ==
    IF chain \in DOMAIN file.pricing THEN file.pricing[chain] ELSE Missing

\* The spy lets through what the endpoint of a configured chain emits.
EmitterFilterForSpy(file, vaa) ==
    vaa.chain \in DOMAIN file.endpoints /\ file.endpoints[vaa.chain].address = vaa.emitter

\* Only Evm chains have a fast consistency level.
IsFastFinality(file, vaa) ==
    vaa.chain \in DOMAIN file.endpoints /\ vaa.chain \in EvmChains /\ vaa.consistency = "fast"
=============================================================================
