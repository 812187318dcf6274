-------------------------- MODULE GovernanceProofs --------------------------
(***************************************************************************)
(* Proofs about Governance, for any number of keys, proposals, chains and  *)
(* buffers, and any delay.                                                 *)
(***************************************************************************)
EXTENDS Governance, TLAPS

\* What a proposal says about itself.
ProposalTerms ==
    \A i \in ProposalIds : proposal[i].exists =>
        /\ proposal[i].parameters \in ValidParameters
        /\ proposal[i].enactDelay = proposal[i].proposedAt + EnactDelay

ProposalInv == ConfigsWereProposed /\ ProposalsNeverStuck /\ ProposalTerms

\* The inductive invariant.  The proposals need their own terms, and that every
\* enacted one is kept, to see that only the newest can be enacted; the upgrade
\* needs that the manager owns the program exactly while there is a receipt.
GovernanceInv == TypeOK /\ ProposalInv /\ UpgradeCanCommit

-----------------------------------------------------------------------------
LEMMA InitInv == Init => GovernanceInv
<1> SUFFICES ASSUME Init PROVE GovernanceInv
  OBVIOUS
<1>1. CustodianTypeOK /\ EndpointTypeOK /\ UpgradeCanCommit
  BY GovernanceAssumption
     DEF Init, CustodianTypeOK, EndpointTypeOK, UpgradeCanCommit, NoReceipt, Keys
<1>2. ProgramTypeOK
  BY GovernanceAssumption
     DEF Init, ProgramTypeOK, NoReceipt, Receipts
<1>3. ProposalTypeOK
  <2>1. NoProposal \in Proposals
    BY GovernanceAssumption DEF NoProposal, Proposals
  <2>. QED BY <2>1, GovernanceAssumption DEF Init, ProposalTypeOK, ProposalIds
<1>4. ProposalInv
  BY GovernanceAssumption
     DEF Init, ProposalInv, ConfigsWereProposed, ProposalsNeverStuck, ProposalTerms,
         ProposalIds, NoProposal
<1>. QED BY <1>1, <1>2, <1>3, <1>4 DEF GovernanceInv, TypeOK

-----------------------------------------------------------------------------
(* What a step that leaves a group of variables alone preserves. *)

LEMMA SameProposals ==
    ASSUME ProposalTypeOK, ProposalInv, UNCHANGED proposalVars
    PROVE  ProposalTypeOK' /\ ProposalInv'
BY DEF proposalVars, ProposalTypeOK, ProposalInv, ConfigsWereProposed,
       ProposalsNeverStuck, ProposalTerms

LEMMA SameCustodian ==
    ASSUME CustodianTypeOK, UNCHANGED <<ownerVars, custodianVars>>
    PROVE  CustodianTypeOK'
BY DEF ownerVars, custodianVars, CustodianTypeOK

LEMMA SameEndpoints ==
    ASSUME EndpointTypeOK, UNCHANGED endpoint
    PROVE  EndpointTypeOK'
BY DEF EndpointTypeOK

LEMMA SameProgram ==
    ASSUME ProgramTypeOK, UNCHANGED <<slot, receipt, programVars>>
    PROVE  ProgramTypeOK'
BY DEF ProgramTypeOK, programVars

LEMMA SameUpgrade ==
    ASSUME UpgradeCanCommit, UNCHANGED <<ownerVars, receipt, programVars>>
    PROVE  UpgradeCanCommit'
BY DEF UpgradeCanCommit, ownerVars, programVars

-----------------------------------------------------------------------------
LEMMA CustodianStepInv ==
    ASSUME GovernanceInv, NEW s \in Signers, CustodianStep(s)
    PROVE  GovernanceInv'
<1>1. UNCHANGED <<slot, proposalVars, endpoint, receipt, programVars>>
  BY DEF CustodianStep, SubmitOwnershipTransferRequest,
         ConfirmOwnershipTransferRequest, CancelOwnershipTransferRequest,
         UpdateOwnerAssistant, SetPause, UpdateFeeRecipient, ownershipFrame,
         custodianFrame
<1>2. CustodianTypeOK' /\ UpgradeCanCommit'
  <2>0. /\ CustodianTypeOK /\ UpgradeCanCommit
        /\ s # UpgradeAuthority /\ s # NoKey /\ s \in Keys
    BY GovernanceAssumption DEF GovernanceInv, TypeOK, Keys
  <2>1. ASSUME NEW k \in Keys, SubmitOwnershipTransferRequest(s, k)
        PROVE  CustodianTypeOK' /\ UpgradeCanCommit'
    BY <1>1, <2>0, <2>1
       DEF SubmitOwnershipTransferRequest, OnlyOwner, ownershipFrame, custodianVars,
           programVars, CustodianTypeOK, UpgradeCanCommit
  <2>2. CASE ConfirmOwnershipTransferRequest(s)
    BY <1>1, <2>0, <2>2
       DEF ConfirmOwnershipTransferRequest, ownershipFrame, custodianVars,
           programVars, CustodianTypeOK, UpgradeCanCommit
  <2>3. CASE CancelOwnershipTransferRequest(s)
    BY <1>1, <2>0, <2>3
       DEF CancelOwnershipTransferRequest, ownershipFrame, custodianVars,
           programVars, CustodianTypeOK, UpgradeCanCommit
  <2>4. ASSUME NEW k \in Keys, UpdateOwnerAssistant(s, k)
        PROVE  CustodianTypeOK' /\ UpgradeCanCommit'
    BY <2>0, <2>4, SameUpgrade
       DEF UpdateOwnerAssistant, custodianFrame, ownerVars, CustodianTypeOK
  <2>5. ASSUME NEW value \in BOOLEAN, SetPause(s, value)
        PROVE  CustodianTypeOK' /\ UpgradeCanCommit'
    BY <2>0, <2>5, SameUpgrade
       DEF SetPause, custodianFrame, ownerVars, CustodianTypeOK
  <2>6. ASSUME NEW r \in FeeRecipients, UpdateFeeRecipient(s, r)
        PROVE  CustodianTypeOK' /\ UpgradeCanCommit'
    BY <2>0, <2>6, SameUpgrade
       DEF UpdateFeeRecipient, custodianFrame, ownerVars, CustodianTypeOK
  <2>. QED BY <2>1, <2>2, <2>3, <2>4, <2>5, <2>6 DEF CustodianStep
<1>. QED BY <1>1, <1>2, SameProposals, SameEndpoints, SameProgram
         DEF GovernanceInv, TypeOK

-----------------------------------------------------------------------------
LEMMA ProposeInv ==
    ASSUME GovernanceInv, NEW s \in Signers, NEW p \in Parameters,
           ProposeAuctionParameters(s, p)
    PROVE  ProposalTypeOK' /\ ProposalInv'
<1> DEFINE n == nextProposalId
           new == [exists |-> TRUE, id |-> configId + 1, parameters |-> p,
                   by |-> s, owner |-> owner, proposedAt |-> slot,
                   enactDelay |-> slot + EnactDelay, enacted |-> FALSE,
                   enactedAt |-> 0]
<1>1. /\ proposal' = [proposal EXCEPT ![n] = new]
      /\ UNCHANGED <<configId, nextProposalId, config>>
      /\ p \in ValidParameters /\ configId + 1 <= U32_MAX
  BY DEF ProposeAuctionParameters, ConfigIdFree
<1>2. /\ ProposalTypeOK /\ ProposalInv
      /\ n \in ProposalIds /\ U32_MAX \in Nat /\ EnactDelay \in Nat /\ slot \in Nat
  BY GovernanceAssumption
     DEF GovernanceInv, TypeOK, ProposalTypeOK, ProgramTypeOK, ProposalIds
<1>3. new \in Proposals
  BY <1>1, <1>2 DEF GovernanceInv, TypeOK, ProposalTypeOK, CustodianTypeOK,
                    Proposals, Keys
<1>4. ProposalTypeOK'
  BY <1>1, <1>2, <1>3 DEF ProposalTypeOK
<1>5. /\ proposal'[n] = new
      /\ \A i \in ProposalIds : i # n => proposal'[i] = proposal[i]
  BY <1>1, <1>2 DEF ProposalTypeOK
<1>6. ProposalsNeverStuck'
  BY <1>1, <1>2, <1>5
     DEF ProposalInv, ProposalsNeverStuck, ProposalTypeOK, ProposalIds
<1>7. ProposalTerms'
  BY <1>1, <1>2, <1>5 DEF ProposalInv, ProposalTerms
<1>8. ConfigsWereProposed'
  <2> SUFFICES ASSUME NEW i \in 1 .. configId
               PROVE  proposal'[i - 1] = proposal[i - 1]
    BY <1>1, <1>2 DEF ProposalInv, ConfigsWereProposed
  <2>1. i - 1 \in ProposalIds /\ i - 1 # n
    BY <1>2 DEF ProposalInv, ProposalsNeverStuck, ProposalTypeOK, ProposalIds
  <2>. QED BY <1>5, <2>1
<1>. QED BY <1>4, <1>6, <1>7, <1>8 DEF ProposalInv

\* Only the newest proposal can be enacted.
LEMMA EnactsNewest ==
    ASSUME ProposalTypeOK, ProposalInv, NEW i \in ProposalIds,
           proposal[i].exists, ~proposal[i].enacted
    PROVE  i = nextProposalId
<1>1. i <= nextProposalId
  BY GovernanceAssumption
     DEF ProposalInv, ProposalsNeverStuck, ProposalTypeOK, ProposalIds
<1>2. ASSUME i < nextProposalId PROVE FALSE
  <2>1. i + 1 \in 1 .. configId
    BY <1>2, GovernanceAssumption
       DEF ProposalInv, ProposalsNeverStuck, ProposalTypeOK, ProposalIds
  <2>2. (i + 1) - 1 = i
    BY DEF ProposalIds
  <2>. QED BY <2>1, <2>2 DEF ProposalInv, ConfigsWereProposed
<1>. QED BY <1>1, <1>2, GovernanceAssumption DEF ProposalTypeOK, ProposalIds

LEMMA EnactInv ==
    ASSUME GovernanceInv, NEW s \in Signers, NEW i \in ProposalIds,
           UpdateAuctionParameters(s, i)
    PROVE  ProposalTypeOK' /\ ProposalInv'
<1> DEFINE p == proposal[i]
           enacted == [p EXCEPT !.enacted = TRUE, !.enactedAt = slot]
<1>0. ProposalTypeOK /\ ProposalInv /\ U32_MAX \in Nat /\ slot \in Nat
  BY GovernanceAssumption DEF GovernanceInv, TypeOK, ProgramTypeOK
<1>1. /\ p.exists /\ ~p.enacted /\ slot >= p.enactDelay /\ p.id = configId + 1
      /\ config' = [config EXCEPT ![p.id] = p.parameters]
      /\ configId' = p.id
      /\ proposal' = [proposal EXCEPT ![i] = enacted]
      /\ nextProposalId' = nextProposalId + 1
  BY DEF UpdateAuctionParameters, NextProposalId
<1>2. i = nextProposalId /\ i = configId
  BY <1>0, <1>1, EnactsNewest DEF ProposalInv, ProposalsNeverStuck
<1>3. /\ p \in Proposals /\ p.id \in ProposalIds
      /\ p.parameters \in ValidParameters /\ p.parameters \in Parameters
      /\ p.enactDelay = p.proposedAt + EnactDelay
  BY <1>0, <1>1, GovernanceAssumption
     DEF ProposalTypeOK, Proposals, ProposalInv, ProposalTerms, ProposalIds
<1>4. enacted \in Proposals
  BY <1>0, <1>3 DEF Proposals
<1>. HIDE DEF enacted
<1>5. /\ proposal'[i] = enacted
      /\ \A j \in ProposalIds : j # i => proposal'[j] = proposal[j]
      /\ config'[p.id] = p.parameters
      /\ \A j \in ProposalIds : j # p.id => config'[j] = config[j]
  BY <1>0, <1>1, <1>3 DEF ProposalTypeOK
<1>6. ProposalTypeOK'
  BY <1>0, <1>1, <1>2, <1>3, <1>4 DEF ProposalTypeOK, ProposalIds
<1>7. /\ enacted.exists /\ enacted.enacted /\ enacted.id = p.id
      /\ enacted.parameters = p.parameters /\ enacted.proposedAt = p.proposedAt
      /\ enacted.enactDelay = p.enactDelay /\ enacted.enactedAt = slot
  BY <1>1, <1>3 DEF enacted, Proposals
<1>8. ProposalsNeverStuck'
  <2>1. \A j \in ProposalIds :
          /\ j >= i + 1 => ~proposal'[j].enacted /\ ~proposal'[j].exists
          /\ j > i + 1 => config'[j] = NoKey
    BY <1>0, <1>1, <1>2, <1>5 DEF ProposalInv, ProposalsNeverStuck, ProposalIds
  <2>. QED BY <1>0, <1>1, <1>2, <1>6, <2>1
           DEF ProposalsNeverStuck, ProposalIds, ProposalTypeOK
<1>9. ProposalTerms'
  BY <1>0, <1>3, <1>5, <1>7 DEF ProposalInv, ProposalTerms
<1>10. ConfigsWereProposed'
  <2> SUFFICES ASSUME NEW j \in 1 .. configId'
               PROVE  LET q == proposal'[j - 1]
                      IN  /\ q.exists /\ q.enacted
                          /\ q.id = j /\ q.parameters = config'[j]
                          /\ config'[j] \in ValidParameters
                          /\ q.enactedAt >= q.proposedAt + EnactDelay
    BY DEF ConfigsWereProposed
  <2>1. CASE j = p.id
    <3>1. j - 1 = i
      BY <1>0, <1>1, <1>2, <2>1 DEF ProposalIds
    <3>. QED BY <1>0, <1>1, <1>3, <1>5, <1>7, <2>1, <3>1
  <2>2. CASE j # p.id
    <3>1. /\ j \in 1 .. configId /\ j \in ProposalIds
          /\ j - 1 \in ProposalIds /\ j - 1 # i
      BY <1>0, <1>1, <1>2, <2>2 DEF ProposalTypeOK, ProposalIds
    <3>2. proposal'[j - 1] = proposal[j - 1] /\ config'[j] = config[j]
      BY <1>5, <2>2, <3>1
    <3>. QED BY <1>0, <3>1, <3>2 DEF ProposalInv, ConfigsWereProposed
  <2>. QED BY <2>1, <2>2
<1>. QED BY <1>6, <1>8, <1>9, <1>10 DEF ProposalInv

LEMMA CloseInv ==
    ASSUME GovernanceInv, NEW s \in Signers, NEW i \in ProposalIds,
           CloseProposal(s, i)
    PROVE  ProposalTypeOK' /\ ProposalInv'
<1>0. ProposalTypeOK /\ ProposalInv /\ U32_MAX \in Nat
  BY GovernanceAssumption DEF GovernanceInv, TypeOK
<1>1. /\ proposal[i].exists /\ ~proposal[i].enacted
      /\ proposal' = [proposal EXCEPT ![i] = NoProposal]
      /\ UNCHANGED <<configId, nextProposalId, config>>
  BY DEF CloseProposal, ProposalClosable
<1>2. i = nextProposalId
  BY <1>0, <1>1, EnactsNewest
<1>3. /\ proposal'[i] = NoProposal
      /\ \A j \in ProposalIds : j # i => proposal'[j] = proposal[j]
  BY <1>0, <1>1 DEF ProposalTypeOK
<1>4. ProposalTypeOK'
  <2>1. NoProposal \in Proposals
    BY GovernanceAssumption DEF NoProposal, Proposals
  <2>. QED BY <1>0, <1>1, <2>1 DEF ProposalTypeOK
<1>5. ProposalsNeverStuck'
  BY <1>0, <1>1, <1>3 DEF ProposalInv, ProposalsNeverStuck, NoProposal
<1>6. ProposalTerms'
  BY <1>0, <1>1, <1>3 DEF ProposalInv, ProposalTerms, NoProposal
<1>7. ConfigsWereProposed'
  <2> SUFFICES ASSUME NEW j \in 1 .. configId
               PROVE  proposal'[j - 1] = proposal[j - 1]
    BY <1>0, <1>1 DEF ProposalInv, ConfigsWereProposed
  <2>1. j - 1 \in ProposalIds /\ j - 1 # i
    BY <1>0, <1>2 DEF ProposalInv, ProposalsNeverStuck, ProposalTypeOK, ProposalIds
  <2>. QED BY <1>3, <2>1
<1>. QED BY <1>4, <1>5, <1>6, <1>7 DEF ProposalInv

LEMMA ProposalStepInv ==
    ASSUME GovernanceInv, NEW s \in Signers, ProposalStep(s)
    PROVE  GovernanceInv'
<1>1. UNCHANGED <<slot, ownerVars, custodianVars, endpoint, receipt, programVars>>
  BY DEF ProposalStep, ProposeAuctionParameters, UpdateAuctionParameters,
         CloseProposal, proposalFrame
<1>2. ProposalTypeOK' /\ ProposalInv'
  BY ProposeInv, EnactInv, CloseInv DEF ProposalStep
<1>. QED BY <1>1, <1>2, SameCustodian, SameEndpoints, SameProgram, SameUpgrade
         DEF GovernanceInv, TypeOK

-----------------------------------------------------------------------------
LEMMA EndpointStepInv ==
    ASSUME GovernanceInv, NEW s \in Signers, EndpointStep(s)
    PROVE  GovernanceInv'
<1>1. \E c \in Chains, value \in Addresses \cup {"Absent", "Disabled"} :
         SetEndpoint(c, value)
  BY GovernanceAssumption
     DEF EndpointStep, AddCctpRouterEndpoint, UpdateCctpRouterEndpoint,
         AddLocalRouterEndpoint, UpdateLocalRouterEndpoint, DisableRouterEndpoint
<1>2. EndpointTypeOK' /\ UNCHANGED endpointFrame
  BY <1>1 DEF GovernanceInv, TypeOK, EndpointTypeOK, SetEndpoint
<1>. QED BY <1>2, SameCustodian, SameProposals, SameProgram, SameUpgrade
         DEF GovernanceInv, TypeOK, endpointFrame

-----------------------------------------------------------------------------
LEMMA DeploymentInv ==
    ASSUME GovernanceInv, NEW s \in Signers, NEW b \in Buffers, HandleUpgrade(s, b),
           UNCHANGED slot
    PROVE  /\ ProgramTypeOK'
           /\ receipt'.exists /\ receipt'.owner = s /\ receipt'.slot = programSlot'
<1>1. Uncommitted(s) \in Receipts
  BY GovernanceAssumption
     DEF GovernanceInv, TypeOK, ProgramTypeOK, Uncommitted, Receipts, Keys
<1>. QED BY <1>1, GovernanceAssumption
         DEF GovernanceInv, TypeOK, ProgramTypeOK, HandleUpgrade, Uncommitted

LEMMA UpgradeStepInv ==
    ASSUME GovernanceInv, NEW s \in Signers, UpgradeStep(s)
    PROVE  GovernanceInv'
<1>1. UNCHANGED <<slot, custodianVars, proposalVars, endpoint>>
  BY DEF UpgradeStep, ExecuteNewUpgrade, ExecuteUpgradeAgain, CommitUpgrade
<1>2. CustodianTypeOK' /\ ProgramTypeOK' /\ UpgradeCanCommit'
  <2>0. CustodianTypeOK /\ ProgramTypeOK /\ UpgradeCanCommit /\ s \in Keys
    BY DEF GovernanceInv, TypeOK, Keys
  <2>1. ASSUME NEW b \in Buffers, ExecuteNewUpgrade(s, b)
        PROVE  CustodianTypeOK' /\ ProgramTypeOK' /\ UpgradeCanCommit'
    <3>1. /\ ProgramTypeOK'
          /\ receipt'.exists /\ receipt'.owner = s /\ receipt'.slot = programSlot'
      BY <1>1, <2>1, DeploymentInv DEF ExecuteNewUpgrade
    <3>2. owner' = UpgradeAuthority /\ pendingOwner' = NoKey
      BY <2>1 DEF ExecuteNewUpgrade, AuthorizeUpgrade
    <3>3. CustodianTypeOK'
      BY <1>1, <2>0, <3>2 DEF CustodianTypeOK, custodianVars, Keys
    <3>. QED BY <3>1, <3>2, <3>3 DEF UpgradeCanCommit
  <2>2. ASSUME NEW b \in Buffers, ExecuteUpgradeAgain(s, b)
        PROVE  CustodianTypeOK' /\ ProgramTypeOK' /\ UpgradeCanCommit'
    <3>1. /\ ProgramTypeOK'
          /\ receipt'.exists /\ receipt'.owner = s /\ receipt'.slot = programSlot'
      BY <1>1, <2>2, DeploymentInv DEF ExecuteUpgradeAgain
    <3>2. receipt.exists /\ UNCHANGED ownerVars
      BY <2>2 DEF ExecuteUpgradeAgain
    <3>. QED BY <1>1, <2>0, <3>1, <3>2, SameCustodian
             DEF UpgradeCanCommit, ownerVars
  <2>3. CASE CommitUpgrade(s)
    <3>1. /\ owner' = s /\ pendingOwner' = NoKey /\ receipt' = NoReceipt
          /\ UNCHANGED programVars
      BY <2>3 DEF CommitUpgrade
    <3>2. CustodianTypeOK'
      BY <1>1, <2>0, <3>1 DEF CustodianTypeOK, custodianVars
    <3>3. ProgramTypeOK'
      BY <1>1, <2>0, <3>1
         DEF ProgramTypeOK, programVars, NoReceipt, Receipts
    <3>. QED BY <3>1, <3>2, <3>3 DEF UpgradeCanCommit, NoReceipt
  <2>. QED BY <2>1, <2>2, <2>3 DEF UpgradeStep
<1>. QED BY <1>1, <1>2, SameProposals, SameEndpoints DEF GovernanceInv, TypeOK

LEMMA AdvanceSlotInv ==
    ASSUME GovernanceInv, AdvanceSlot
    PROVE  GovernanceInv'
<1>1. /\ UNCHANGED <<ownerVars, custodianVars, proposalVars, endpoint, receipt,
                     programVars>>
      /\ slot' \in 0 .. MaxSlot
  BY GovernanceAssumption DEF AdvanceSlot, GovernanceInv, TypeOK, ProgramTypeOK
<1>2. ProgramTypeOK'
  BY <1>1 DEF GovernanceInv, TypeOK, ProgramTypeOK, programVars
<1>. QED BY <1>1, <1>2, SameCustodian, SameProposals, SameEndpoints, SameUpgrade
         DEF GovernanceInv, TypeOK

-----------------------------------------------------------------------------
LEMMA NextInv == GovernanceInv /\ [Next]_vars => GovernanceInv'
<1> SUFFICES ASSUME GovernanceInv, [Next]_vars PROVE GovernanceInv'
  OBVIOUS
<1>1. CASE Next
  BY <1>1, CustodianStepInv, ProposalStepInv, EndpointStepInv, UpgradeStepInv,
     AdvanceSlotInv DEF Next
<1>2. CASE UNCHANGED vars
  BY <1>2, SameCustodian, SameProposals, SameEndpoints, SameProgram, SameUpgrade
     DEF GovernanceInv, TypeOK, vars
<1>. QED BY <1>1, <1>2

LEMMA InvHolds == Spec => []GovernanceInv
BY InitInv, NextInv, PTL DEF Spec

\* The custodian, the proposals, the endpoints and the receipt always hold what
\* their types say.
THEOREM GovernanceTypeCorrect == Spec => []TypeOK
<1>1. GovernanceInv => TypeOK
  BY DEF GovernanceInv
<1>. QED BY <1>1, InvHolds, PTL

\* Every auction configuration was public for the whole delay before
\* update_auction_parameters enacted it.
THEOREM NoConfigWithoutNotice == Spec => []ConfigsWereProposed
<1>1. GovernanceInv => ConfigsWereProposed
  BY DEF GovernanceInv, ProposalInv
<1>. QED BY <1>1, InvHolds, PTL

\* Proposals never block each other: the next one can be made, or the open one
\* closed with close_proposal.
THEOREM ProposalsStayOpen == Spec => []ProposalsNeverStuck
<1>1. GovernanceInv => ProposalsNeverStuck
  BY DEF GovernanceInv, ProposalInv
<1>. QED BY <1>1, InvHolds, PTL

\* An executed upgrade can always be committed by whoever executed it.
THEOREM UpgradeStaysCommittable == Spec => []UpgradeCanCommit
<1>1. GovernanceInv => UpgradeCanCommit
  BY DEF GovernanceInv
<1>. QED BY <1>1, InvHolds, PTL
-----------------------------------------------------------------------------
(* What a step may never do: the steps that touch the owner, the code, or what *)
(* only the owner may change.                                                  *)

LEMMA OwnerSteps ==
    ASSUME GovernanceInv, NEW s \in Signers, CustodianStep(s)
    PROVE  /\ UNCHANGED <<receipt, programVars, proposalVars, endpoint>>
           /\ receipt.exists => UNCHANGED <<ownerVars, ownerAssistant>>
           /\ owner' = owner \/ owner' = pendingOwner
<1>1. receipt.exists => owner # s /\ pendingOwner # s
  BY GovernanceAssumption DEF GovernanceInv, UpgradeCanCommit, Keys
<1>. QED BY <1>1
         DEF CustodianStep, SubmitOwnershipTransferRequest,
             ConfirmOwnershipTransferRequest, CancelOwnershipTransferRequest,
             UpdateOwnerAssistant, SetPause, UpdateFeeRecipient, OnlyOwner,
             ownershipFrame, custodianFrame, ownerVars, custodianVars

LEMMA ProposalSteps ==
    ASSUME GovernanceInv, NEW s \in Signers, ProposalStep(s)
    PROVE  /\ UNCHANGED <<receipt, programVars, ownerVars, ownerAssistant, endpoint>>
           /\ receipt.exists => UNCHANGED <<configId, config>>
<1>1. receipt.exists => owner # s
  BY GovernanceAssumption DEF GovernanceInv, UpgradeCanCommit
<1>. QED BY <1>1
         DEF ProposalStep, ProposeAuctionParameters, UpdateAuctionParameters,
             CloseProposal, OnlyOwner, proposalFrame, custodianVars

LEMMA EndpointSteps ==
    ASSUME GovernanceInv, NEW s \in Signers, EndpointStep(s)
    PROVE  /\ UNCHANGED <<receipt, programVars, ownerVars, ownerAssistant,
                          proposalVars>>
           /\ receipt.exists => \A c \in Chains :
                 endpoint[c] # "Absent" => endpoint'[c] = endpoint[c]
<1>1. receipt.exists => owner # s
  BY GovernanceAssumption DEF GovernanceInv, UpgradeCanCommit
<1>2. endpoint \in [Chains -> Addresses \cup {"Absent", "Disabled"}]
  BY DEF GovernanceInv, TypeOK, EndpointTypeOK
<1>. QED BY <1>1, <1>2, GovernanceAssumption
         DEF EndpointStep, AddCctpRouterEndpoint, UpdateCctpRouterEndpoint,
             AddLocalRouterEndpoint, UpdateLocalRouterEndpoint,
             DisableRouterEndpoint, SetEndpoint, OnlyOwner, endpointFrame,
             custodianVars

LEMMA UpgradeSteps ==
    ASSUME GovernanceInv, NEW s \in Signers, UpgradeStep(s)
    PROVE  /\ TrueOwner = s /\ TrueOwner' = s
           /\ code' # code => bufferAuthority[code'] = s
           /\ UNCHANGED <<ownerAssistant, proposalVars, endpoint>>
           /\ receipt.exists /\ receipt'.exists => UNCHANGED ownerVars
<1>1. ASSUME NEW b \in Buffers, ExecuteNewUpgrade(s, b) \/ ExecuteUpgradeAgain(s, b)
      PROVE  /\ TrueOwner = s /\ TrueOwner' = s
             /\ code' = b /\ bufferAuthority[b] = s
             /\ receipt.exists => UNCHANGED ownerVars
  BY <1>1 DEF ExecuteNewUpgrade, ExecuteUpgradeAgain, AuthorizeUpgrade, OnlyOwner,
              ReceiptOwner, HandleUpgrade, Uncommitted, TrueOwner
<1>2. ASSUME CommitUpgrade(s)
      PROVE  /\ TrueOwner = s /\ TrueOwner' = s
             /\ UNCHANGED code /\ ~receipt'.exists
  BY <1>2 DEF CommitUpgrade, CommitAllowed, NoReceipt, TrueOwner, programVars
<1>3. UNCHANGED <<ownerAssistant, proposalVars, endpoint>>
  BY DEF UpgradeStep, ExecuteNewUpgrade, ExecuteUpgradeAgain, CommitUpgrade,
         custodianVars
<1>. QED BY <1>1, <1>2, <1>3 DEF UpgradeStep

LEMMA SlotSteps ==
    ASSUME AdvanceSlot \/ UNCHANGED vars
    PROVE  UNCHANGED <<receipt, programVars, ownerVars, ownerAssistant,
                       proposalVars, endpoint>>
BY DEF AdvanceSlot, vars, custodianVars

\* The program changes hands only to the key its owner named, never by way of
\* execute_upgrade and commit_upgrade.
THEOREM OwnershipKept == Spec => OwnershipSurvivesUpgrades
<1>1. ASSUME GovernanceInv, [Next]_vars, TrueOwner' # TrueOwner
      PROVE  ~receipt.exists /\ pendingOwner = TrueOwner'
  <2>1. ASSUME NEW s \in Signers, CustodianStep(s)
        PROVE  ~receipt.exists /\ pendingOwner = TrueOwner'
    BY <1>1, <2>1, OwnerSteps DEF TrueOwner, ownerVars
  <2>2. ASSUME NEW s \in Signers, ProposalStep(s) \/ EndpointStep(s)
        PROVE  FALSE
    BY <1>1, <2>2, ProposalSteps, EndpointSteps DEF TrueOwner, ownerVars
  <2>3. ASSUME NEW s \in Signers, UpgradeStep(s)
        PROVE  FALSE
    BY <1>1, <2>3, UpgradeSteps
  <2>4. ASSUME AdvanceSlot \/ UNCHANGED vars
        PROVE  FALSE
    BY <1>1, <2>4, SlotSteps DEF TrueOwner, ownerVars
  <2>. QED BY <1>1, <2>1, <2>2, <2>3, <2>4 DEF Next
<1>. QED BY <1>1, InvHolds, PTL DEF Spec, OwnershipSurvivesUpgrades

\* New code always comes from a buffer of the program's owner, whether
\* execute_upgrade runs for the first time or again.
THEOREM CodeIsOwners == Spec => CodeComesFromOwner
<1>1. ASSUME GovernanceInv, [Next]_vars, code' # code
      PROVE  bufferAuthority[code'] = TrueOwner
  <2>1. ASSUME NEW s \in Signers,
               CustodianStep(s) \/ ProposalStep(s) \/ EndpointStep(s)
        PROVE  FALSE
    BY <1>1, <2>1, OwnerSteps, ProposalSteps, EndpointSteps DEF programVars
  <2>2. ASSUME NEW s \in Signers, UpgradeStep(s)
        PROVE  bufferAuthority[code'] = TrueOwner
    BY <1>1, <2>2, UpgradeSteps
  <2>3. ASSUME AdvanceSlot \/ UNCHANGED vars
        PROVE  FALSE
    BY <1>1, <2>3, SlotSteps DEF programVars
  <2>. QED BY <1>1, <2>1, <2>2, <2>3 DEF Next
<1>. QED BY <1>1, InvHolds, PTL DEF Spec, CodeComesFromOwner

\* While an upgrade is uncommitted, what only the owner may change stays as it is.
THEOREM UpgradeFreezes == Spec => FrozenDuringUpgrade
<1>1. ASSUME GovernanceInv, [Next]_vars, receipt.exists, receipt'.exists
      PROVE  /\ UNCHANGED <<ownerVars, ownerAssistant, configId, config>>
             /\ \A c \in Chains : endpoint[c] # "Absent" => endpoint'[c] = endpoint[c]
  <2> DEFINE Frozen ==
        /\ UNCHANGED <<ownerVars, ownerAssistant, configId, config>>
        /\ \A c \in Chains : endpoint[c] # "Absent" => endpoint'[c] = endpoint[c]
  <2>1. ASSUME NEW s \in Signers, CustodianStep(s)
        PROVE  Frozen
    BY <1>1, <2>1, OwnerSteps DEF proposalVars
  <2>2. ASSUME NEW s \in Signers, ProposalStep(s)
        PROVE  Frozen
    BY <1>1, <2>2, ProposalSteps
  <2>3. ASSUME NEW s \in Signers, EndpointStep(s)
        PROVE  Frozen
    BY <1>1, <2>3, EndpointSteps DEF proposalVars
  <2>4. ASSUME NEW s \in Signers, UpgradeStep(s)
        PROVE  Frozen
    BY <1>1, <2>4, UpgradeSteps DEF proposalVars
  <2>5. ASSUME AdvanceSlot \/ UNCHANGED vars
        PROVE  Frozen
    BY <2>5, SlotSteps DEF proposalVars
  <2>. QED BY <1>1, <2>1, <2>2, <2>3, <2>4, <2>5 DEF Next
<1>. QED BY <1>1, InvHolds, PTL DEF Spec, FrozenDuringUpgrade
=============================================================================
