----------------------------- MODULE Governance -----------------------------
(***************************************************************************)
(* Who may change the matching engine, and when: the custodian's owner,    *)
(* its two-step transfer, the owner assistant, proposals of auction        *)
(* parameters with their delay, router endpoints, and the upgrades of the  *)
(* program by the upgrade manager, which is its owner between executing    *)
(* and committing one.  (The token router's custodian has the same owner,  *)
(* assistant, pause and upgrade.)                                          *)
(*                                                                         *)
(* An action is one instruction; s is the signer that the instruction      *)
(* checks.  The upgrade authority is an address of the upgrade manager: it *)
(* signs only what the upgrade manager calls.                              *)
(***************************************************************************)
EXTENDS Integers

CONSTANTS
    Signers,                \* keys that sign transactions
    UpgradeAuthority,       \* common::UPGRADE_MANAGER_AUTHORITY
    NoKey,                  \* Pubkey::default(), and None of an optional key
    Deployer, FirstAssistant,
    FeeRecipients, FirstFeeRecipient,
    Parameters,             \* auction parameters of proposals
    ValidParameters,        \* those that require_valid_parameters accepts
    FirstParameters,        \* the ones given to initialize
    EnactDelay,             \* epoch_schedule.slots_per_epoch
    U32_MAX, U64_MAX,
    Chains, SolanaChain,    \* chains with a router endpoint
    Addresses,              \* addresses of routers
    Buffers,                \* buffer accounts with new code
    FirstBufferAuthority,   \* who may upload and deploy each of them
    MaxSlot                 \* bound on the slots

Keys == Signers \cup {UpgradeAuthority}

ASSUME GovernanceAssumption ==
    /\ UpgradeAuthority \notin Signers
    /\ NoKey \notin Keys \cup Addresses \cup Buffers \cup Parameters
    /\ Deployer \in Signers /\ FirstAssistant \in Keys
    /\ FirstFeeRecipient \in FeeRecipients
    /\ ValidParameters \subseteq Parameters /\ FirstParameters \in ValidParameters
    /\ EnactDelay \in Nat /\ U32_MAX \in Nat /\ U64_MAX \in Nat
    /\ SolanaChain \in Chains
    /\ "Absent" \notin Addresses /\ "Disabled" \notin Addresses
    /\ FirstBufferAuthority \in [Buffers -> Signers]
    /\ MaxSlot \in 0 .. U64_MAX

VARIABLES
    slot,
    \* The custodian.
    owner, pendingOwner, ownerAssistant, paused, pausedSetBy, feeRecipient,
    configId, nextProposalId,
    proposal,       \* proposal accounts, by id
    config,         \* auction config accounts, by id
    endpoint,       \* router endpoint of each chain
    \* The upgrade manager and the BPF loader.
    receipt,        \* the upgrade receipt of the program
    programSlot,    \* slot at which the program was deployed last
    code,           \* the buffer it was deployed from
    bufferAuthority \* of each buffer account; NoKey when it is gone

ownerVars == <<owner, pendingOwner>>
custodianVars == <<ownerAssistant, paused, pausedSetBy, feeRecipient>>
proposalVars == <<configId, nextProposalId, proposal, config>>
programVars == <<programSlot, code, bufferAuthority>>
vars == <<slot, ownerVars, custodianVars, proposalVars, endpoint, receipt,
          programVars>>
-----------------------------------------------------------------------------
ProposalIds == 0 .. U32_MAX

Proposals ==
    [exists : BOOLEAN, id : 0 .. U32_MAX, parameters : Parameters \cup {NoKey},
     by : Keys \cup {NoKey}, owner : Keys \cup {NoKey},
     proposedAt : Nat, enactDelay : Nat, enacted : BOOLEAN, enactedAt : Nat]

NoProposal ==
    [exists |-> FALSE, id |-> 0, parameters |-> NoKey, by |-> NoKey,
     owner |-> NoKey, proposedAt |-> 0, enactDelay |-> 0,
     enacted |-> FALSE, enactedAt |-> 0]

Receipts == [exists : BOOLEAN, owner : Keys \cup {NoKey}, slot : Nat]

NoReceipt == [exists |-> FALSE, owner |-> NoKey, slot |-> 0]

\* The state that initialize leaves.
Init ==
    /\ slot = 0
    /\ owner = Deployer /\ pendingOwner = NoKey
    /\ ownerAssistant = FirstAssistant
    /\ paused = FALSE /\ pausedSetBy = Deployer
    /\ feeRecipient = FirstFeeRecipient
    /\ configId = 0 /\ nextProposalId = 0
    /\ proposal = [i \in ProposalIds |-> NoProposal]
    /\ config = [i \in ProposalIds |-> IF i = 0 THEN FirstParameters ELSE NoKey]
    /\ endpoint = [c \in Chains |-> "Absent"]
    /\ receipt = NoReceipt
    /\ programSlot = 0 /\ code = NoKey
    /\ bufferAuthority = FirstBufferAuthority
-----------------------------------------------------------------------------
(* Roles *)

\* admin::utils::ownable::only_owner (OwnerOnly, OwnerOnlyMut)
OnlyOwner(s) == s = owner

\* admin::utils::assistant::only_authorized (Admin, AdminMut)
OnlyAuthorized(s) == s = owner \/ s = ownerAssistant
-----------------------------------------------------------------------------
(* Ownership and the custodian *)

ownershipFrame == <<slot, custodianVars, proposalVars, endpoint, receipt,
                    programVars>>

SubmitOwnershipTransferRequest(s, newOwner) ==
    /\ OnlyOwner(s)
    /\ newOwner # owner
    /\ pendingOwner' = newOwner
    /\ UNCHANGED <<owner, ownershipFrame>>

ConfirmOwnershipTransferRequest(s) ==
    /\ pendingOwner # NoKey
    /\ s = pendingOwner
    /\ owner' = pendingOwner
    /\ pendingOwner' = NoKey
    /\ UNCHANGED ownershipFrame

CancelOwnershipTransferRequest(s) ==
    /\ OnlyOwner(s)
    /\ pendingOwner' = NoKey
    /\ UNCHANGED <<owner, ownershipFrame>>

custodianFrame == <<slot, ownerVars, proposalVars, endpoint, receipt, programVars>>

UpdateOwnerAssistant(s, newAssistant) ==
    /\ OnlyOwner(s)
    /\ ownerAssistant' = newAssistant
    /\ UNCHANGED <<custodianFrame, paused, pausedSetBy, feeRecipient>>

SetPause(s, value) ==
    /\ OnlyAuthorized(s)
    /\ paused' = value
    /\ pausedSetBy' = s
    /\ UNCHANGED <<custodianFrame, ownerAssistant, feeRecipient>>

UpdateFeeRecipient(s, newFeeRecipient) ==
    /\ OnlyAuthorized(s)
    /\ feeRecipient' = newFeeRecipient
    /\ UNCHANGED <<custodianFrame, ownerAssistant, paused, pausedSetBy>>
-----------------------------------------------------------------------------
(* Proposals of auction parameters *)

proposalFrame == <<slot, ownerVars, custodianVars, endpoint, receipt, programVars>>

\* Mutation: the id of the configuration is not checked for overflow.
ConfigIdFree_Unchecked == TRUE

\* The id of the next configuration is a u32.
ConfigIdFree == configId + 1 <= U32_MAX

\* propose_auction_parameters: the account of the next proposal is created, so
\* there is none.
ProposeAuctionParameters(s, parameters) ==
    /\ OnlyAuthorized(s)
    /\ ~proposal[nextProposalId].exists
    /\ parameters \in ValidParameters
    /\ ConfigIdFree
    /\ nextProposalId + 1 <= U64_MAX
    /\ slot + EnactDelay <= U64_MAX
    /\ proposal' = [proposal EXCEPT ![nextProposalId] =
          [exists |-> TRUE, id |-> configId + 1, parameters |-> parameters,
           by |-> s, owner |-> owner, proposedAt |-> slot,
           enactDelay |-> slot + EnactDelay, enacted |-> FALSE, enactedAt |-> 0]]
    /\ UNCHANGED <<proposalFrame, configId, nextProposalId, config>>

\* Mutation: the next proposal id is not advanced.
NextProposalId_Same == nextProposalId

NextProposalId == nextProposalId + 1

\* update_auction_parameters
UpdateAuctionParameters(s, i) ==
    /\ OnlyOwner(s)
    /\ proposal[i].exists
    /\ proposal[i].owner = s
    /\ ~proposal[i].enacted
    /\ slot >= proposal[i].enactDelay
    /\ proposal[i].id = configId + 1
    /\ config[proposal[i].id] = NoKey
    /\ config' = [config EXCEPT ![proposal[i].id] = proposal[i].parameters]
    /\ configId' = proposal[i].id
    /\ proposal' = [proposal EXCEPT ![i].enacted = TRUE, ![i].enactedAt = slot]
    /\ nextProposalId' = NextProposalId
    /\ UNCHANGED proposalFrame

\* Mutation: a proposal may be closed after it was enacted.
ProposalClosable_Always(i) == proposal[i].exists

ProposalClosable(i) == proposal[i].exists /\ ~proposal[i].enacted

\* close_proposal
CloseProposal(s, i) ==
    /\ OnlyAuthorized(s)
    /\ ProposalClosable(i)
    /\ proposal' = [proposal EXCEPT ![i] = NoProposal]
    /\ UNCHANGED <<proposalFrame, configId, nextProposalId, config>>
-----------------------------------------------------------------------------
(* Router endpoints *)

endpointFrame == <<slot, ownerVars, custodianVars, proposalVars, receipt,
                   programVars>>

SetEndpoint(c, value) ==
    /\ endpoint' = [endpoint EXCEPT ![c] = value]
    /\ UNCHANGED endpointFrame

\* Created with "init": once there is an endpoint, disabled or not, it can only
\* be updated.
AddCctpRouterEndpoint(s, c, address) ==
    /\ OnlyAuthorized(s)
    /\ c # SolanaChain
    /\ endpoint[c] = "Absent"
    /\ SetEndpoint(c, address)

AddLocalRouterEndpoint(s, address) ==
    /\ OnlyAuthorized(s)
    /\ endpoint[SolanaChain] = "Absent"
    /\ SetEndpoint(SolanaChain, address)

\* Mutation: the assistant may disable an endpoint.
DisableRouterEndpoint_ByAssistant(s, c) ==
    /\ OnlyAuthorized(s)
    /\ endpoint[c] # "Absent"
    /\ SetEndpoint(c, "Disabled")

DisableRouterEndpoint(s, c) ==
    /\ OnlyOwner(s)
    /\ endpoint[c] # "Absent"
    /\ SetEndpoint(c, "Disabled")

UpdateCctpRouterEndpoint(s, c, address) ==
    /\ OnlyOwner(s)
    /\ c # SolanaChain
    /\ endpoint[c] # "Absent"
    /\ SetEndpoint(c, address)

UpdateLocalRouterEndpoint(s, address) ==
    /\ OnlyOwner(s)
    /\ endpoint[SolanaChain] # "Absent"
    /\ SetEndpoint(SolanaChain, address)
-----------------------------------------------------------------------------
(* Upgrades *)

\* Mutation: a second upgrade leaves the slot of the first in the receipt.
Uncommitted_FirstSlot(s) ==
    [exists |-> TRUE, owner |-> s,
     slot |-> IF receipt.exists THEN receipt.slot ELSE slot]

Uncommitted(s) == [exists |-> TRUE, owner |-> s, slot |-> slot]

\* handle_upgrade: write the receipt and deploy the buffer, whose authority the
\* signer must be and which the deployment consumes.
HandleUpgrade(s, buffer) ==
    /\ receipt' = Uncommitted(s)
    /\ bufferAuthority[buffer] = s
    /\ programSlot < slot
    /\ bufferAuthority' = [bufferAuthority EXCEPT ![buffer] = NoKey]
    /\ programSlot' = slot
    /\ code' = buffer

\* The program's owner submits a transfer to the upgrade authority, which
\* confirms it in the same instruction.
AuthorizeUpgrade(s) ==
    /\ OnlyOwner(s)
    /\ UpgradeAuthority # owner
    /\ owner' = UpgradeAuthority
    /\ pendingOwner' = NoKey

\* handle_new_upgrade
ExecuteNewUpgrade(s, buffer) ==
    /\ ~receipt.exists
    /\ AuthorizeUpgrade(s)
    /\ HandleUpgrade(s, buffer)
    /\ UNCHANGED <<slot, custodianVars, proposalVars, endpoint>>

\* Mutation: no check of who executed the upgrade.
ReceiptOwner_Unchecked(s) == receipt.owner \in Keys

\* The signer is the one who executed the upgrade.
ReceiptOwner(s) == receipt.owner = s

\* handle_upgrade_with_status
ExecuteUpgradeAgain(s, buffer) ==
    /\ receipt.exists
    /\ ReceiptOwner(s)
    /\ HandleUpgrade(s, buffer)
    /\ UNCHANGED <<slot, ownerVars, custodianVars, proposalVars, endpoint>>

\* Mutation: whoever signs gets the program.
CommitAllowed_Anyone(s) == receipt.exists /\ receipt.slot = programSlot

\* The accounts of CommitUpgrade.
CommitAllowed(s) ==
    /\ receipt.exists
    /\ s = receipt.owner
    /\ receipt.slot = programSlot

\* commit_matching_engine_upgrade: migrate, then the upgrade authority submits a
\* transfer to the signer, who confirms it.
CommitUpgrade(s) ==
    /\ CommitAllowed(s)
    /\ OnlyOwner(UpgradeAuthority)
    /\ s # owner
    /\ owner' = s
    /\ pendingOwner' = NoKey
    /\ receipt' = NoReceipt
    /\ UNCHANGED <<slot, custodianVars, proposalVars, endpoint, programVars>>
-----------------------------------------------------------------------------
AdvanceSlot ==
    /\ slot < MaxSlot
    /\ slot' = slot + 1
    /\ UNCHANGED <<ownerVars, custodianVars, proposalVars, endpoint, receipt,
                   programVars>>

CustodianStep(s) ==
    \/ \E k \in Keys : SubmitOwnershipTransferRequest(s, k)
    \/ ConfirmOwnershipTransferRequest(s)
    \/ CancelOwnershipTransferRequest(s)
    \/ \E k \in Keys : UpdateOwnerAssistant(s, k)
    \/ \E value \in BOOLEAN : SetPause(s, value)
    \/ \E r \in FeeRecipients : UpdateFeeRecipient(s, r)

ProposalStep(s) ==
    \/ \E p \in Parameters : ProposeAuctionParameters(s, p)
    \/ \E i \in ProposalIds : UpdateAuctionParameters(s, i) \/ CloseProposal(s, i)

EndpointStep(s) ==
    \/ \E c \in Chains, a \in Addresses :
          AddCctpRouterEndpoint(s, c, a) \/ UpdateCctpRouterEndpoint(s, c, a)
    \/ \E a \in Addresses :
          AddLocalRouterEndpoint(s, a) \/ UpdateLocalRouterEndpoint(s, a)
    \/ \E c \in Chains : DisableRouterEndpoint(s, c)

UpgradeStep(s) ==
    \/ \E b \in Buffers : ExecuteNewUpgrade(s, b) \/ ExecuteUpgradeAgain(s, b)
    \/ CommitUpgrade(s)

Next ==
    \/ \E s \in Signers :
          CustodianStep(s) \/ ProposalStep(s) \/ EndpointStep(s) \/ UpgradeStep(s)
    \/ AdvanceSlot

Spec == Init /\ [][Next]_vars
-----------------------------------------------------------------------------
(* Safety *)

CustodianTypeOK ==
    /\ owner \in Keys /\ pendingOwner \in Keys \cup {NoKey}
    /\ ownerAssistant \in Keys
    /\ paused \in BOOLEAN /\ pausedSetBy \in Keys
    /\ feeRecipient \in FeeRecipients

ProposalTypeOK ==
    /\ configId \in 0 .. U32_MAX /\ nextProposalId \in 0 .. U32_MAX
    /\ proposal \in [ProposalIds -> Proposals]
    /\ config \in [ProposalIds -> Parameters \cup {NoKey}]

EndpointTypeOK ==
    endpoint \in [Chains -> Addresses \cup {"Absent", "Disabled"}]

ProgramTypeOK ==
    /\ slot \in 0 .. MaxSlot
    /\ receipt \in Receipts
    /\ programSlot \in Nat /\ code \in Buffers \cup {NoKey}
    /\ bufferAuthority \in [Buffers -> Signers \cup {NoKey}]

\* Type invariant: the custodian, the proposals, the endpoints and the receipt.
TypeOK ==
    /\ CustodianTypeOK
    /\ ProposalTypeOK
    /\ EndpointTypeOK
    /\ ProgramTypeOK

\* Every configuration in force, now or earlier, was public for the whole delay
\* before it was enacted: its proposal is still there for anyone to see, with the
\* same parameters, although proposals are closed and made again at the same
\* address.
ConfigsWereProposed ==
    \A i \in 1 .. configId :
        LET p == proposal[i - 1]
        IN  /\ p.exists /\ p.enacted
            /\ p.id = i /\ p.parameters = config[i] /\ config[i] \in ValidParameters
            /\ p.enactedAt >= p.proposedAt + EnactDelay

\* Parameters can always be proposed again: the address of the next proposal is
\* free, or holds one that may still be closed; no other proposal is open, and no
\* configuration is there before its time ("init" of auction_config).
ProposalsNeverStuck ==
    /\ nextProposalId = configId
    /\ \A i \in ProposalIds :
          /\ i >= nextProposalId => ~proposal[i].enacted
          /\ i > nextProposalId => ~proposal[i].exists
          /\ i > configId => config[i] = NoKey
    /\ proposal[nextProposalId].exists => proposal[nextProposalId].id = configId + 1

\* An upgrade that was executed can be committed by whoever executed it: the
\* program is the upgrade manager's, nobody is waiting to become its owner, and
\* the receipt is that of the last deployment.
UpgradeCanCommit ==
    IF receipt.exists
    THEN /\ receipt.owner \in Signers
         /\ owner = UpgradeAuthority /\ pendingOwner = NoKey
         /\ receipt.slot = programSlot
    ELSE owner \in Signers
-----------------------------------------------------------------------------
(* What a step may never do *)

\* Whose program it is, also while the upgrade manager holds it.
TrueOwner == IF receipt.exists THEN receipt.owner ELSE owner

\* The program changes hands only to the key that its owner named, never by way
\* of an upgrade.
OwnershipSurvivesUpgrades ==
    [][TrueOwner' # TrueOwner => ~receipt.exists /\ pendingOwner = TrueOwner']_vars

\* New code comes from a buffer of the program's owner, also for a second upgrade
\* before the first is committed.
CodeComesFromOwner ==
    [][code' # code => bufferAuthority[code'] = TrueOwner]_vars

\* Between executing and committing an upgrade nothing that only the owner may
\* change does change: whatever the assistant does meanwhile.
FrozenDuringUpgrade ==
    [][receipt.exists /\ receipt'.exists =>
          /\ UNCHANGED <<ownerVars, ownerAssistant, configId, config>>
          /\ \A c \in Chains : endpoint[c] # "Absent" => endpoint'[c] = endpoint[c]]_vars
=============================================================================
