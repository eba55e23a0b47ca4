------------------------ MODULE BuyerAuthorityProofs ------------------------
(***************************************************************************)
(* What the rows of authority go through, whoever builds on them: types,   *)
(* the ways approvals change, and that authority once found stays.         *)
(***************************************************************************)
EXTENDS BuyerAuthority, TLAPS

\* Nothing is approved before it is decided, and every decision is of a request.
AuthorityInv ==
    /\ AuthorityTypeOK
    /\ \A d \in Decisions : decisions[d] = NoDecisionRow => approvals[d] = "none"
    /\ \A d \in Decisions : decisions[d] # NoDecisionRow => decisions[d].req \in Requests

\* The steps of the owner and of time.
OwnerStep ==
    \/ EnsureAgent
    \/ \E policy \in Policies : CompileMandate(policy)
    \/ ConfirmMandate
    \/ \E new \in {"active", "paused", "revoked"} : SetAgentStatus(new)
    \/ \E d \in Decisions : Lapse(d)

\* The only ways an approval changes.
ApprovalsClose ==
    \E to \in {"expired", "revoked"} : approvals' = CloseIssued(to)
ApprovalIssued ==
    \E d \in Decisions :
        approvals[d] = "none" /\ approvals' = [approvals EXCEPT ![d] = "issued"]

\* What a step leaves of decisions and spent approvals: all of them.
AuthorityStays ==
    \A d \in Decisions :
        /\ decisions[d] # NoDecisionRow => decisions'[d] = decisions[d]
        /\ approvals[d] = "consumed" => approvals'[d] = "consumed"

LEMMA AuthorityStarts == AuthorityInit => AuthorityInv
  <1>1. /\ NoDecisionRow \in DecisionRow
        /\ [status |-> "absent", policy |-> DefaultPolicy] \in MandateRow
    BY VersionAssumption, PolicyAssumption DEF NoDecisionRow, DecisionRow, MandateRow
  <1> QED BY <1>1, VersionAssumption
          DEF AuthorityInit, AuthorityInv, AuthorityTypeOK, AgentStatus, ApprovalStatus

LEMMA CloseIssuedType ==
    ASSUME approvals \in [Decisions -> ApprovalStatus], NEW to \in ApprovalStatus
    PROVE  CloseIssued(to) \in [Decisions -> ApprovalStatus]
  BY DEF CloseIssued

LEMMA OwnerType == ASSUME AuthorityTypeOK, OwnerStep PROVE AuthorityTypeOK'
  <1> USE VersionAssumption DEF AuthorityTypeOK, Versions
  <1>1. CASE EnsureAgent
    BY <1>1 DEF EnsureAgent, AgentStatus
  <1>2. ASSUME NEW policy \in Policies, CompileMandate(policy) PROVE AuthorityTypeOK'
    <2>1. [status |-> "draft", policy |-> policy] \in MandateRow
      BY DEF MandateRow
    <2>2. mandates' \in [Versions -> MandateRow]
      BY <1>2, <2>1 DEF CompileMandate
    <2>3. status' \in AgentStatus /\ latest' \in 0..MaxVersion
      BY <1>2 DEF CompileMandate, AgentStatus
    <2> QED BY <1>2, <2>2, <2>3 DEF CompileMandate
  <1>3. CASE ConfirmMandate
    <2>1. latest \in Versions /\ latest + 1 \in Versions
      BY <1>3 DEF ConfirmMandate
    <2>2. [status |-> "active", policy |-> mandates[latest].policy] \in MandateRow
      BY <2>1 DEF MandateRow
    <2>3. mandates' \in [Versions -> MandateRow]
      BY <1>3, <2>1, <2>2 DEF ConfirmMandate
    <2>4. approvals' \in [Decisions -> ApprovalStatus]
      BY <1>3, CloseIssuedType DEF ConfirmMandate, ApprovalStatus
    <2> QED BY <1>3, <2>1, <2>3, <2>4 DEF ConfirmMandate
  <1>4. ASSUME NEW new \in {"active", "paused", "revoked"}, SetAgentStatus(new)
        PROVE  AuthorityTypeOK'
    <2>1. approvals' \in [Decisions -> ApprovalStatus]
      BY <1>4, CloseIssuedType DEF SetAgentStatus, ApprovalStatus
    <2> QED BY <1>4, <2>1 DEF SetAgentStatus, AgentStatus
  <1>5. ASSUME NEW d \in Decisions, Lapse(d) PROVE AuthorityTypeOK'
    BY <1>5 DEF Lapse
  <1> QED BY <1>1, <1>2, <1>3, <1>4, <1>5 DEF OwnerStep

\* The owner and time leave decisions alone and only close approvals.
LEMMA OwnerInv ==
    ASSUME AuthorityInv, OwnerStep
    PROVE  /\ AuthorityInv' /\ AuthorityStays
           /\ approvals' = approvals \/ ApprovalsClose
           /\ decisions' = decisions
  <1>1. decisions' = decisions
    BY DEF OwnerStep, EnsureAgent, CompileMandate, ConfirmMandate, SetAgentStatus, Lapse
  <1>2. approvals' = approvals \/ ApprovalsClose
    BY DEF OwnerStep, EnsureAgent, CompileMandate, ConfirmMandate, SetAgentStatus, Lapse,
           ApprovalsClose
  <1>3. AuthorityTypeOK'
    BY OwnerType DEF AuthorityInv
  <1>4. \A d \in Decisions :
            approvals[d] \in {"none", "consumed"} => approvals'[d] = approvals[d]
    BY <1>2 DEF ApprovalsClose, CloseIssued
  <1> QED BY <1>1, <1>2, <1>3, <1>4 DEF AuthorityStays, AuthorityInv

LEMMA InsertDecisionInv ==
    ASSUME AuthorityInv, NEW d \in Decisions, NEW verdict \in Verdicts, NEW q \in Requests,
           NEW ver \in 0..MaxVersion, InsertDecision(d, verdict, q, ver),
           UNCHANGED <<mandateVars, lapsed>>
    PROVE  /\ AuthorityInv' /\ AuthorityStays
           /\ approvals' = approvals \/ ApprovalIssued
  <1> USE DEF AuthorityInv, AuthorityTypeOK, mandateVars
  <1> DEFINE row == [status |-> verdict, req |-> q, ver |-> ver]
  <1>1. row \in DecisionRow /\ row.req = q /\ row # NoDecisionRow
    BY RequestAssumption DEF DecisionRow, NoDecisionRow
  <1>2. decisions[d] = NoDecisionRow /\ decisions' = [decisions EXCEPT ![d] = row]
    BY DEF InsertDecision
  <1> HIDE DEF row
  <1>3. decisions' \in [Decisions -> DecisionRow]
    BY <1>1, <1>2
  <1>4. approvals' \in [Decisions -> ApprovalStatus]
    BY DEF InsertDecision, ApprovalStatus
  <1>5. AuthorityStays
    BY DEF AuthorityStays, InsertDecision
  <1>6. \A e \in Decisions : decisions'[e] = NoDecisionRow => approvals'[e] = "none"
    BY <1>1, <1>2 DEF InsertDecision
  <1>7. \A e \in Decisions : decisions'[e] # NoDecisionRow => decisions'[e].req \in Requests
    BY <1>1, <1>2
  <1>8. approvals' = approvals \/ ApprovalIssued
    BY <1>2 DEF InsertDecision, ApprovalIssued
  <1> QED BY <1>3, <1>4, <1>5, <1>6, <1>7, <1>8

LEMMA SpendInv ==
    ASSUME AuthorityInv, NEW d \in Decisions, approvals' = Spend(d),
           UNCHANGED <<mandateVars, decisions, lapsed>>
    PROVE  AuthorityInv' /\ AuthorityStays
  BY DEF AuthorityInv, AuthorityTypeOK, mandateVars, AuthorityStays, Spend, ApprovalStatus,
         NeedsApproval, NoDecisionRow

LEMMA AuthorityAlone ==
    ASSUME AuthorityInv, UNCHANGED authorityVars
    PROVE  AuthorityInv' /\ AuthorityStays
  BY DEF AuthorityInv, AuthorityTypeOK, authorityVars, AuthorityStays

LEMMA AuthorisedStays ==
    ASSUME AuthorityStays, NEW d \in Decisions, decisions[d] # NoDecisionRow, Authorises(d)
    PROVE  Authorises(d)'
  BY DEF AuthorityStays, Authorises

=============================================================================
