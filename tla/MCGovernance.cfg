\* Two keys that may each be owner and assistant, three buffers, two enactments.
SPECIFICATION Spec
CONSTANTS
    Signers = {"alice", "bob"}
    UpgradeAuthority = "authority"
    NoKey = "none"
    Deployer = "alice"
    FirstAssistant = "bob"
    FeeRecipients = {"f1"}
    FirstFeeRecipient = "f1"
    Parameters = {"p0", "bad"}
    ValidParameters = {"p0"}
    FirstParameters = "p0"
    EnactDelay = 1
    U32_MAX = 2
    U64_MAX = 100
    Chains = {"ethereum", "solana"}
    SolanaChain = "solana"
    Addresses = {"r1"}
    Buffers = {"alice1", "alice2", "bob1"}
    FirstBufferAuthority <- BufferOwners
    MaxSlot = 2
INVARIANTS
    ConfigsWereProposed
    ProposalsNeverStuck
    UpgradeCanCommit
PROPERTIES
    OwnershipSurvivesUpgrades
    CodeComesFromOwner
    FrozenDuringUpgrade
