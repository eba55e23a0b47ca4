----------------------- MODULE AgentGuardSellerProofs -----------------------
(***************************************************************************)
(* What AgentGuardSeller keeps for every number of requests, keys,         *)
(* decisions, concurrent runners and mandate versions, wherever a request  *)
(* may crash.  The inductive invariant says what each row was backed by    *)
(* when it was written: an approval by a decision that asked for it, a     *)
(* bound key by spent authority for its request, a running effect by the   *)
(* key it holds.                                                           *)
(***************************************************************************)
EXTENDS AgentGuardSeller, TLAPS

\* Approvals exist only for decisions that need one.
ApprovalsForNeed == \A d \in Decisions : approvals[d] # "none" => NeedsApproval(d)

\* A key that was ever bound is bound by spent authority for its request.
IntentBacked ==
    \A k \in Keys :
        IF intents[k].status = "absent" THEN intents[k].decision = NoDecision
        ELSE /\ intents[k].decision \in Decisions
             /\ Authorises(intents[k].decision, intents[k].req)

Holding == {"checked", "effect", "effected", "failing", "missing", "denied"}

\* A request past its checks holds a key and a decision about its own request,
\* and one past its claim holds a key that is bound.
RunnerBacked ==
    \A r \in Runners :
        /\ runner[r].pc = "refusing" => runner[r].decision \in Decisions
        /\ runner[r].pc \in Holding =>
              runner[r].key \in Keys /\ runner[r].decision \in Decisions
        /\ runner[r].pc = "checked" =>
              /\ decisions[runner[r].decision].status \in {"allow", "need_approval"}
              /\ decisions[runner[r].decision].req = runner[r].req
        /\ Executing(r) => intents[runner[r].key].status # "absent"

IInv ==
    /\ TypeOK
    /\ ApprovalsForNeed
    /\ IntentBacked
    /\ RunnerBacked
    /\ EffectAuthorised
    /\ ApprovalBindsOneKey
    /\ SucceededHasReceipt
-----------------------------------------------------------------------------
(* Which steps touch what.                                                 *)

\* Only these transactions write intents.
LEMMA IntentWriters ==
    ASSUME [Next]_vars
    PROVE  \/ intents' = intents
           \/ \E r \in Runners : Claim(r) \/ Complete(r) \/ ReleaseFailed(r)
<1> SUFFICES ASSUME intents' # intents
             PROVE  \E r \in Runners : Claim(r) \/ Complete(r) \/ ReleaseFailed(r)
  OBVIOUS
<1>1. ~ UNCHANGED vars
  BY DEF vars
<1>2. CASE Owner
  BY <1>2 DEF Owner, EnsureAgent, CompileMandate, BeginConfirm, CommitConfirm,
              AbortConfirm, SetAgentStatus
<1>3. CASE Time
  BY <1>3 DEF Time, Lapse, AgeIntent
<1>4. ASSUME NEW r \in Runners, Arrive(r) \/ Serve(r) \/ Crash(r)
      PROVE  Claim(r) \/ Complete(r) \/ ReleaseFailed(r)
  BY <1>4 DEF Arrive, Serve, ReadAuthority, CheckRequest, RecordDecision, RefuseDenied,
              Join, AnswerWithoutEffect, RunEffect, RecordMissingOrder, Crash
<1> QED
  BY <1>1, <1>2, <1>3, <1>4 DEF Next

\* Only record_decision writes decisions.
LEMMA DecisionWriters ==
    ASSUME [Next]_vars
    PROVE  decisions' = decisions \/ \E r \in Runners : RecordDecision(r)
<1> SUFFICES ASSUME decisions' # decisions
             PROVE  \E r \in Runners : RecordDecision(r)
  OBVIOUS
<1>1. ~ UNCHANGED vars
  BY DEF vars
<1>2. CASE Owner
  BY <1>2 DEF Owner, EnsureAgent, CompileMandate, BeginConfirm, CommitConfirm,
              AbortConfirm, SetAgentStatus
<1>3. CASE Time
  BY <1>3 DEF Time, Lapse, AgeIntent
<1>4. ASSUME NEW r \in Runners, Arrive(r) \/ Serve(r) \/ Crash(r)
      PROVE  RecordDecision(r)
  BY <1>4 DEF Arrive, Serve, ReadAuthority, CheckRequest, RefuseDenied, Claim, Join,
              AnswerWithoutEffect, RunEffect, Complete, RecordMissingOrder,
              ReleaseFailed, Crash
<1> QED
  BY <1>1, <1>2, <1>3, <1>4 DEF Next

\* An approval changes when it is issued, spent, or closed by its owner.
LEMMA ApprovalWriters ==
    ASSUME [Next]_vars
    PROVE  \/ approvals' = approvals
           \/ \E r \in Runners : RecordDecision(r) \/ Claim(r)
           \/ \E c \in Confirmers : CommitConfirm(c)
           \/ \E new \in {"paused", "revoked"} : SetAgentStatus(new)
<1> SUFFICES ASSUME approvals' # approvals
             PROVE  \/ \E r \in Runners : RecordDecision(r) \/ Claim(r)
                    \/ \E c \in Confirmers : CommitConfirm(c)
                    \/ \E new \in {"paused", "revoked"} : SetAgentStatus(new)
  OBVIOUS
<1>1. ~ UNCHANGED vars
  BY DEF vars
<1>2. CASE Owner
  <2>1. ~ SetAgentStatus("active")
    BY DEF SetAgentStatus
  <2> QED
    BY <1>2, <2>1 DEF Owner, EnsureAgent, CompileMandate, BeginConfirm, AbortConfirm
<1>3. CASE Time
  BY <1>3 DEF Time, Lapse, AgeIntent
<1>4. ASSUME NEW r \in Runners, Arrive(r) \/ Serve(r) \/ Crash(r)
      PROVE  RecordDecision(r) \/ Claim(r)
  BY <1>4 DEF Arrive, Serve, ReadAuthority, CheckRequest, RefuseDenied, Join,
              AnswerWithoutEffect, RunEffect, Complete, RecordMissingOrder,
              ReleaseFailed, Crash
<1> QED
  BY <1>1, <1>2, <1>3, <1>4 DEF Next
-----------------------------------------------------------------------------
(* Authority, once it exists, stays.                                       *)

\* A recorded decision is never rewritten.
LEMMA DecisionStays ==
    ASSUME TypeOK, [Next]_vars,
           NEW d \in Decisions, decisions[d].status # "absent"
    PROVE  decisions'[d] = decisions[d]
<1>1. CASE decisions' = decisions
  BY <1>1
<1>2. ASSUME NEW r \in Runners, RecordDecision(r)
      PROVE  decisions'[d] = decisions[d]
  <2>1. PICK e \in Decisions :
          /\ decisions[e] = NoDecisionRow
          /\ decisions' = [decisions EXCEPT ![e] =
               [status |-> runner[r].verdict, req |-> runner[r].req, ver |-> runner[r].ver]]
    BY <1>2 DEF RecordDecision
  <2>2. d # e
    BY <2>1 DEF NoDecisionRow
  <2> QED
    BY <2>1, <2>2 DEF TypeOK
<1> QED
  BY <1>1, <1>2, DecisionWriters

\* A spent approval stays spent: nothing reopens or closes it.
LEMMA SpentStays ==
    ASSUME TypeOK, ApprovalsForNeed, [Next]_vars,
           NEW d \in Decisions, approvals[d] = "consumed"
    PROVE  approvals'[d] = "consumed"
<1>1. CASE approvals' = approvals
  BY <1>1
<1>2. ASSUME NEW r \in Runners, RecordDecision(r)
      PROVE  approvals'[d] = "consumed"
  <2>1. PICK e \in Decisions :
          /\ decisions[e] = NoDecisionRow
          /\ approvals' = IF runner[r].verdict = "need_approval"
                          THEN [approvals EXCEPT ![e] = "issued"] ELSE approvals
    BY <1>2 DEF RecordDecision
  <2>2. d # e
    BY <2>1 DEF ApprovalsForNeed, NeedsApproval, NoDecisionRow
  <2> QED
    BY <2>1, <2>2 DEF TypeOK
<1>3. ASSUME NEW r \in Runners, Claim(r)
      PROVE  approvals'[d] = "consumed"
  BY <1>3 DEF Claim, Spend, TypeOK
<1>4. ASSUME NEW c \in Confirmers, CommitConfirm(c)
      PROVE  approvals'[d] = "consumed"
  BY <1>4 DEF CommitConfirm, CloseIssued
<1>5. ASSUME NEW new \in {"paused", "revoked"}, SetAgentStatus(new)
      PROVE  approvals'[d] = "consumed"
  BY <1>5 DEF SetAgentStatus, CloseIssued
<1> QED
  BY <1>1, <1>2, <1>3, <1>4, <1>5, ApprovalWriters

LEMMA AuthorityStays ==
    ASSUME TypeOK, ApprovalsForNeed, [Next]_vars,
           NEW d \in Decisions, NEW q, Authorises(d, q)
    PROVE  Authorises(d, q)'
<1>1. decisions'[d] = decisions[d]
  BY DecisionStays DEF Authorises, NeedsApproval
<1>2. CASE decisions[d].status = "allow"
  BY <1>1, <1>2 DEF Authorises, NeedsApproval
<1>3. CASE NeedsApproval(d) /\ approvals[d] = "consumed"
  BY <1>1, <1>3, SpentStays DEF Authorises, NeedsApproval
<1> QED
  BY <1>2, <1>3 DEF Authorises
-----------------------------------------------------------------------------
(* Types.                                                                  *)

LEMMA InitTypeOK == Init => TypeOK
<1> SUFFICES ASSUME Init PROVE TypeOK
  OBVIOUS
<1>1. /\ status \in AgentStatus /\ current \in 0..MaxVersion /\ latest \in 0..MaxVersion
      /\ lapsed \in SUBSET Decisions /\ stale \in SUBSET Keys
      /\ receipts \in SUBSET Receipt
  BY BoundAssumption DEF Init, AgentStatus
<1>2. /\ mandates \in [Versions -> MandateRow]
      /\ confirming \in [Confirmers -> Confirmation]
  BY PolicyAssumption, BoundAssumption DEF Init, MandateRow, Confirmation, NotConfirming
<1>3. /\ decisions \in [Decisions -> DecisionRow]
      /\ approvals \in [Decisions -> ApprovalStatus]
      /\ intents \in [Keys -> IntentRow]
  BY BoundAssumption DEF Init, DecisionRow, ApprovalStatus, IntentRow, NoDecisionRow, NoIntent
<1>4. runner \in [Runners -> RunnerState]
  BY BoundAssumption DEF Init, RunnerState, IdleRunner
<1> QED
  BY <1>1, <1>2, <1>3, <1>4 DEF TypeOK

LEMMA ClosedIsApproval ==
    ASSUME TypeOK, NEW closing, NEW to \in {"expired", "revoked"}
    PROVE  CloseIssued(closing, to) \in [Decisions -> ApprovalStatus]
  BY DEF TypeOK, CloseIssued, ApprovalStatus

LEMMA IdleIsRunnerState == IdleRunner \in RunnerState
  BY BoundAssumption DEF IdleRunner, RunnerState

LEMMA NotConfirmingType == NotConfirming \in Confirmation
  BY PolicyAssumption, BoundAssumption DEF NotConfirming, Confirmation

LEMMA TypeOKStep == IInv /\ [Next]_vars => TypeOK'
<1> SUFFICES ASSUME IInv, [Next]_vars PROVE TypeOK'
  OBVIOUS
<1> USE DEF IInv
<1>0. CASE UNCHANGED vars
  BY <1>0 DEF TypeOK, vars
<1>1. CASE EnsureAgent
  <2>1. mandates' \in [Versions -> MandateRow]
    BY <1>1, PolicyAssumption, BoundAssumption DEF EnsureAgent, TypeOK, Versions, MandateRow
  <2> QED
    BY <1>1, <2>1, BoundAssumption DEF EnsureAgent, TypeOK, AgentStatus
<1>2. ASSUME NEW policy \in Policies, CompileMandate(policy)
      PROVE  TypeOK'
  <2>1. mandates' \in [Versions -> MandateRow]
    BY <1>2 DEF CompileMandate, TypeOK, Versions, MandateRow
  <2>2. latest' \in 0..MaxVersion
    BY <1>2, BoundAssumption DEF CompileMandate, TypeOK
  <2> QED
    BY <1>2, <2>1, <2>2 DEF CompileMandate, TypeOK
<1>3. ASSUME NEW c \in Confirmers, BeginConfirm(c)
      PROVE  TypeOK'
  <2>1. confirming' \in [Confirmers -> Confirmation]
    BY <1>3, BoundAssumption DEF BeginConfirm, TypeOK, Versions, MandateRow, Confirmation
  <2> QED
    BY <1>3, <2>1 DEF BeginConfirm, TypeOK
<1>4. ASSUME NEW c \in Confirmers, CommitConfirm(c)
      PROVE  TypeOK'
  <2>1. confirming[c].draft + 1 \in 0..MaxVersion
    BY <1>4, BoundAssumption DEF CommitConfirm, TypeOK, Confirmation
  <2>2. mandates' \in [Versions -> MandateRow]
    BY <1>4 DEF CommitConfirm, TypeOK, MandateRow, Confirmation
  <2>3. confirming' \in [Confirmers -> Confirmation]
    BY <1>4, NotConfirmingType DEF CommitConfirm, TypeOK
  <2>4. approvals' \in [Decisions -> ApprovalStatus]
    BY <1>4, ClosedIsApproval DEF CommitConfirm
  <2> QED
    BY <1>4, <2>1, <2>2, <2>3, <2>4 DEF CommitConfirm, TypeOK
<1>5. ASSUME NEW c \in Confirmers, AbortConfirm(c)
      PROVE  TypeOK'
  <2>1. confirming' \in [Confirmers -> Confirmation]
    BY <1>5, NotConfirmingType DEF AbortConfirm, TypeOK
  <2> QED
    BY <1>5, <2>1 DEF AbortConfirm, TypeOK
<1>6. ASSUME NEW new \in {"active", "paused", "revoked"}, SetAgentStatus(new)
      PROVE  TypeOK'
  <2>1. approvals' \in [Decisions -> ApprovalStatus]
    BY <1>6, ClosedIsApproval DEF SetAgentStatus, TypeOK
  <2> QED
    BY <1>6, <2>1 DEF SetAgentStatus, TypeOK, AgentStatus
<1>7. ASSUME NEW r \in Runners, Arrive(r) \/ Serve(r) \/ Crash(r)
      PROVE  TypeOK'
  <2> USE IdleIsRunnerState
  <2> DEFINE k == runner[r].key
  <2>1. ASSUME NEW q \in Requests, ReadAuthority(r, q)
        PROVE  TypeOK'
    <3>1. current \in Versions
      BY <2>1, BoundAssumption DEF ReadAuthority, TypeOK, Versions
    <3>2. mandates[current].policy[q] \in Verdicts
      BY <3>1, PolicyAssumption DEF TypeOK, MandateRow
    <3> DEFINE verdict == IF status # "active" THEN "deny" ELSE mandates[current].policy[q]
    <3>3. verdict \in Verdicts
      BY <3>2 DEF Verdicts
    <3> HIDE DEF verdict
    <3>4. [IdleRunner EXCEPT !.pc = "evaluating", !.req = q, !.ver = current,
                             !.verdict = verdict] \in RunnerState
      BY <3>3 DEF RunnerState, Busy, TypeOK
    <3>5. runner' = [runner EXCEPT ![r] =
             [IdleRunner EXCEPT !.pc = "evaluating", !.req = q, !.ver = current,
                                !.verdict = verdict]]
      BY <2>1, Zenon DEF ReadAuthority, verdict
    <3>6. runner' \in [Runners -> RunnerState]
      BY <3>4, <3>5 DEF TypeOK
    <3> QED
      BY <2>1, <3>6 DEF ReadAuthority, TypeOK, authority
  <2>2. CASE RecordDecision(r)
    <3>1. decisions' \in [Decisions -> DecisionRow]
      BY <2>2 DEF RecordDecision, TypeOK, DecisionRow, RunnerState
    <3>2. approvals' \in [Decisions -> ApprovalStatus]
      BY <2>2 DEF RecordDecision, TypeOK, ApprovalStatus
    <3>3. runner' \in [Runners -> RunnerState]
      BY <2>2 DEF RecordDecision, TypeOK, RunnerState, Busy
    <3> QED
      BY <2>2, <3>1, <3>2, <3>3 DEF RecordDecision, TypeOK, authority
  <2>3. CASE RefuseDenied(r)
    <3>1. receipts' \in SUBSET Receipt
      BY <2>3 DEF RefuseDenied, WithReceipt, Receipt, TypeOK, RunnerState, RunnerBacked
    <3> QED
      BY <2>3, <3>1 DEF RefuseDenied, TypeOK, authority
  <2>4. ASSUME NEW d \in Decisions, NEW l \in Keys, CheckRequest(r, d, l)
        PROVE  TypeOK'
    <3>1. [IdleRunner EXCEPT !.pc = "checked", !.req = decisions[d].req,
                             !.key = l, !.decision = d] \in RunnerState
      BY DEF RunnerState, Busy, TypeOK, DecisionRow
    <3>2. runner' \in [Runners -> RunnerState]
      BY <2>4, <3>1 DEF CheckRequest, TypeOK
    <3> QED
      BY <2>4, <3>2 DEF CheckRequest, TypeOK, authority
  <2>5. CASE Claim(r)
    <3>1. runner[r] \in RunnerState /\ runner[r].decision \in Decisions /\ k \in Keys
      BY <2>5 DEF Claim, TypeOK, RunnerBacked, Holding
    <3>2. intents' \in [Keys -> IntentRow]
      BY <2>5, <3>1 DEF Claim, TypeOK, RunnerState, IntentRow
    <3>3. approvals' \in [Decisions -> ApprovalStatus]
      BY <2>5 DEF Claim, Spend, TypeOK, ApprovalStatus
    <3>4. runner' \in [Runners -> RunnerState]
      BY <2>5 DEF Claim, TypeOK, RunnerState, Busy
    <3>5. stale' \in SUBSET Keys
      BY <2>5 DEF Claim, TypeOK
    <3> QED
      BY <2>5, <3>2, <3>3, <3>4, <3>5 DEF Claim, TypeOK, authority
  <2>6. CASE Join(r)
    BY <2>6 DEF Join, TypeOK, RunnerState, Busy, authority
  <2>7. CASE AnswerWithoutEffect(r)
    BY <2>7 DEF AnswerWithoutEffect, TypeOK, authority
  <2>8. CASE RunEffect(r)
    BY <2>8 DEF RunEffect, TypeOK, RunnerState, Busy, authority
  <2>9. ASSUME NEW outcome \in {"succeeded", "failed"}
        PROVE  SettledIntent(r, outcome) \in [Keys -> IntentRow]
    <3>1. runner[r].req \in Requests \cup {NoRequest}
      BY DEF TypeOK, RunnerState
    <3>2. ASSUME k \in Keys
          PROVE  [intents[k] EXCEPT !.status = outcome, !.result = runner[r].req] \in IntentRow
      <4>1. intents[k] \in IntentRow
        BY <3>2 DEF TypeOK
      <4> QED
        BY <3>1, <4>1 DEF IntentRow
    <3>3. intents \in [Keys -> IntentRow]
      BY DEF TypeOK
    <3> HIDE DEF k
    <3>4. SettledIntent(r, outcome) =
            [intents EXCEPT ![k] = [intents[k] EXCEPT !.status = outcome,
                                                      !.result = runner[r].req]]
      BY DEF SettledIntent, k
    <3> QED
      BY <3>2, <3>3, <3>4
  <2>10. ASSUME NEW outcome \in {"succeeded", "denied"}, runner[r].pc \in Holding
         PROVE  WithReceipt(r, outcome) \in SUBSET Receipt
    BY <2>10 DEF WithReceipt, Receipt, TypeOK, RunnerState, RunnerBacked
  <2>11. CASE Complete(r)
    <3>1. intents' \in [Keys -> IntentRow] /\ receipts' \in SUBSET Receipt
      BY <2>9, <2>10, <2>11 DEF Complete, Holding
    <3> QED
      BY <2>11, <3>1 DEF Complete, TypeOK, authority
  <2>12. CASE RecordMissingOrder(r)
    <3>1. receipts' \in SUBSET Receipt
      BY <2>10, <2>12 DEF RecordMissingOrder, Holding
    <3> QED
      BY <2>12, <3>1 DEF RecordMissingOrder, TypeOK, RunnerState, Busy, authority
  <2>13. CASE ReleaseFailed(r)
    <3>1. intents' \in [Keys -> IntentRow]
      BY <2>9, <2>13 DEF ReleaseFailed
    <3> QED
      BY <2>13, <3>1 DEF ReleaseFailed, TypeOK, authority
  <2>14. CASE Crash(r)
    BY <2>14 DEF Crash, TypeOK, authority
  <2> QED
    BY <1>7, <2>1, <2>2, <2>3, <2>4, <2>5, <2>6, <2>7, <2>8, <2>11, <2>12, <2>13, <2>14
    DEF Arrive, Serve
<1>8. CASE Time
  BY <1>8 DEF Time, Lapse, AgeIntent, TypeOK, authority
<1> QED
  BY <1>0, <1>1, <1>2, <1>3, <1>4, <1>5, <1>6, <1>7, <1>8 DEF Next, Owner
-----------------------------------------------------------------------------
(* The invariant, one part at a time.                                      *)

LEMMA ApprovalsForNeedStep == IInv /\ [Next]_vars => ApprovalsForNeed'
<1> SUFFICES ASSUME IInv, [Next]_vars, NEW d \in Decisions, approvals'[d] # "none"
             PROVE  NeedsApproval(d)'
  BY DEF ApprovalsForNeed
<1> USE DEF IInv
<1>1. CASE approvals[d] # "none"
  <2>1. decisions[d].status = "need_approval"
    BY <1>1 DEF ApprovalsForNeed, NeedsApproval
  <2>2. decisions'[d] = decisions[d]
    BY <2>1, DecisionStays
  <2> QED
    BY <2>1, <2>2 DEF NeedsApproval
<1>2. CASE approvals[d] = "none"
  <2>1. ASSUME NEW r \in Runners, RecordDecision(r)
        PROVE  NeedsApproval(d)'
    <3>1. PICK e \in Decisions :
            /\ decisions' = [decisions EXCEPT ![e] =
                 [status |-> runner[r].verdict, req |-> runner[r].req,
                  ver |-> runner[r].ver]]
            /\ approvals' = IF runner[r].verdict = "need_approval"
                            THEN [approvals EXCEPT ![e] = "issued"] ELSE approvals
      BY <2>1 DEF RecordDecision
    <3>2. d = e /\ runner[r].verdict = "need_approval"
      BY <1>2, <3>1 DEF TypeOK
    <3> QED
      BY <3>1, <3>2 DEF TypeOK, NeedsApproval
  <2>2. ASSUME NEW r \in Runners, Claim(r)
        PROVE  NeedsApproval(d)'
    BY <1>2, <2>2 DEF Claim, Spend, TypeOK, NeedsApproval
  <2>3. ASSUME NEW c \in Confirmers
        PROVE  ~CommitConfirm(c)
    BY <1>2 DEF CommitConfirm, CloseIssued
  <2>4. ASSUME NEW new \in {"paused", "revoked"}
        PROVE  ~SetAgentStatus(new)
    BY <1>2 DEF SetAgentStatus, CloseIssued
  <2> QED
    BY <1>2, <2>1, <2>2, <2>3, <2>4, ApprovalWriters
<1> QED
  BY <1>1, <1>2

\* The claim is the only step that creates authority, for the request it binds.
LEMMA ClaimAuthorises ==
    ASSUME TypeOK, RunnerBacked, NEW r \in Runners, Claim(r)
    PROVE  /\ runner[r].decision \in Decisions
           /\ Authorises(runner[r].decision, runner[r].req)'
<1> DEFINE d == runner[r].decision
<1>1. /\ d \in Decisions /\ decisions[d].req = runner[r].req
      /\ decisions[d].status \in {"allow", "need_approval"}
  BY DEF Claim, RunnerBacked, Holding
<1>2. decisions' = decisions
  BY DEF Claim
<1>3. NeedsApproval(d) => approvals'[d] = "consumed"
  BY <1>1 DEF Claim, Spend, TypeOK
<1>4. runner'[r].req = runner[r].req
  BY DEF Claim, TypeOK, RunnerState
<1>5. /\ decisions'[runner'[r].decision].req = runner'[r].req
      /\ \/ decisions'[d].status = "allow"
         \/ decisions'[d].status = "need_approval" /\ approvals'[d] = "consumed"
      /\ runner'[r].decision = d
  BY <1>1, <1>2, <1>3, <1>4 DEF Claim, TypeOK, RunnerState, NeedsApproval
<1> QED
  BY <1>1, <1>5 DEF Authorises, NeedsApproval

LEMMA IntentBackedStep == IInv /\ [Next]_vars => IntentBacked'
<1> SUFFICES ASSUME IInv, [Next]_vars, NEW k \in Keys
             PROVE  (IF intents[k].status = "absent" THEN intents[k].decision = NoDecision
                     ELSE /\ intents[k].decision \in Decisions
                          /\ Authorises(intents[k].decision, intents[k].req))'
  BY DEF IntentBacked
<1> USE DEF IInv
<1>1. CASE /\ intents'[k].decision = intents[k].decision
           /\ intents'[k].req = intents[k].req
           /\ intents'[k].status = "absent" <=> intents[k].status = "absent"
  <2>1. CASE intents[k].status = "absent"
    BY <1>1, <2>1 DEF IntentBacked
  <2>2. CASE intents[k].status # "absent"
    <3>1. /\ intents[k].decision \in Decisions
          /\ Authorises(intents[k].decision, intents[k].req)
      BY <2>2 DEF IntentBacked
    <3>2. Authorises(intents[k].decision, intents[k].req)'
      <4> DEFINE d == intents[k].decision
                 q == intents[k].req
      <4>1. Authorises(d, q)
        BY <3>1
      <4> HIDE DEF d, q
      <4>2. d \in Decisions
        BY <3>1 DEF d
      <4> QED
        BY <1>1, <3>1, DecisionStays, SpentStays DEF Authorises, NeedsApproval
    <3> QED
      BY <1>1, <2>2, <3>1, <3>2
  <2> QED
    BY <2>1, <2>2
<1>2. ASSUME NEW r \in Runners, Claim(r)
      PROVE  (IF intents[k].status = "absent" THEN intents[k].decision = NoDecision
              ELSE /\ intents[k].decision \in Decisions
                   /\ Authorises(intents[k].decision, intents[k].req))'
  <2>1. CASE k = runner[r].key
    <3>1. /\ intents'[k].status = "executing"
          /\ intents'[k].decision = runner[r].decision
          /\ intents'[k].req = runner[r].req
      BY <1>2, <2>1 DEF Claim, TypeOK
    <3>2. runner'[r].decision = runner[r].decision /\ runner'[r].req = runner[r].req
      BY <1>2 DEF Claim, TypeOK, RunnerState
    <3> QED
      BY <1>2, <3>1, <3>2, ClaimAuthorises DEF Authorises, NeedsApproval
  <2>2. CASE k # runner[r].key
    BY <1>1, <1>2, <2>2 DEF Claim, TypeOK
  <2> QED
    BY <2>1, <2>2
<1>3. ASSUME NEW r \in Runners, NEW outcome \in {"succeeded", "failed"},
             Executing(r), intents' = SettledIntent(r, outcome)
      PROVE  (IF intents[k].status = "absent" THEN intents[k].decision = NoDecision
              ELSE /\ intents[k].decision \in Decisions
                   /\ Authorises(intents[k].decision, intents[k].req))'
  <2>1. intents[runner[r].key].status # "absent"
    BY <1>3 DEF RunnerBacked
  <2> QED
    BY <1>1, <1>3, <2>1 DEF SettledIntent, TypeOK, IntentRow
<1>4. CASE intents' = intents
  BY <1>1, <1>4
<1> QED
  BY <1>2, <1>3, <1>4, IntentWriters DEF Complete, ReleaseFailed, Executing
\* A bound key stays bound: no transaction deletes an intent.
LEMMA BoundKeyStays ==
    ASSUME TypeOK, RunnerBacked, [Next]_vars,
           NEW k \in Keys, intents[k].status # "absent"
    PROVE  intents'[k].status # "absent"
<1>1. ASSUME NEW r \in Runners, Claim(r)
      PROVE  intents'[k].status # "absent"
  BY <1>1 DEF Claim, TypeOK
<1>2. ASSUME NEW r \in Runners, NEW outcome \in {"succeeded", "failed"},
             intents' = SettledIntent(r, outcome)
      PROVE  intents'[k].status # "absent"
  BY <1>2 DEF SettledIntent, TypeOK, IntentRow
<1> QED
  BY <1>1, <1>2, IntentWriters DEF Complete, ReleaseFailed

LEMMA RunnerBackedStep == IInv /\ [Next]_vars => RunnerBacked'
<1> SUFFICES ASSUME IInv, [Next]_vars PROVE RunnerBacked'
  OBVIOUS
<1> USE DEF IInv
<1> DEFINE Backed(r) ==
      /\ runner[r].pc = "refusing" => runner[r].decision \in Decisions
      /\ runner[r].pc \in Holding =>
            runner[r].key \in Keys /\ runner[r].decision \in Decisions
      /\ runner[r].pc = "checked" =>
            /\ decisions[runner[r].decision].status \in {"allow", "need_approval"}
            /\ decisions[runner[r].decision].req = runner[r].req
      /\ Executing(r) => intents[runner[r].key].status # "absent"
<1>1. ASSUME NEW r \in Runners, runner'[r] = runner[r]
      PROVE  Backed(r)'
  <2>1. Backed(r)
    BY DEF RunnerBacked
  <2> HIDE DEF IInv
  <2>2. ASSUME runner[r].pc = "checked"
        PROVE  decisions'[runner[r].decision] = decisions[runner[r].decision]
    BY <2>1, <2>2, DecisionStays DEF Holding, IInv
  <2>3. Executing(r) => intents'[runner[r].key].status # "absent"
    BY <2>1, BoundKeyStays DEF Holding, Executing, IInv
  <2> QED
    BY <1>1, <2>1, <2>2, <2>3 DEF Holding, Executing
<1>2. ASSUME NEW r \in Runners, Arrive(r) \/ Serve(r) \/ Crash(r)
      PROVE  Backed(r)' /\ \A s \in Runners \ {r} : runner'[s] = runner[s]
  <2> Backed(r)
    BY DEF RunnerBacked
  <2>1. ASSUME runner' = [runner EXCEPT ![r] = IdleRunner]
        PROVE  Backed(r)' /\ \A s \in Runners \ {r} : runner'[s] = runner[s]
    BY <2>1 DEF TypeOK, IdleRunner, Executing, Holding
  <2>2. ASSUME NEW q \in Requests, ReadAuthority(r, q)
        PROVE  Backed(r)' /\ \A s \in Runners \ {r} : runner'[s] = runner[s]
    <3>1. runner'[r].pc = "evaluating"
      <4> DEFINE verdict == IF status # "active" THEN "deny" ELSE mandates[current].policy[q]
      <4>1. runner' = [runner EXCEPT ![r] =
               [IdleRunner EXCEPT !.pc = "evaluating", !.req = q, !.ver = current,
                                  !.verdict = verdict]]
        BY <2>2, Zenon DEF ReadAuthority
      <4> HIDE DEF verdict
      <4> QED
        BY <4>1 DEF TypeOK, IdleRunner
    <3>2. \A s \in Runners \ {r} : runner'[s] = runner[s]
      <4>1. PICK any : runner' = [runner EXCEPT ![r] = any]
        BY <2>2, Zenon DEF ReadAuthority
      <4> QED
        BY <4>1 DEF TypeOK
    <3> QED
      BY <3>1, <3>2 DEF Executing, Holding
  <2>3. CASE RecordDecision(r)
    <3>1. CASE runner' = [runner EXCEPT ![r] = IdleRunner]
      BY <2>1, <3>1
    <3>2. ASSUME NEW d \in Decisions,
                 runner' = [runner EXCEPT ![r].pc = "refusing", ![r].decision = d]
          PROVE  Backed(r)' /\ \A s \in Runners \ {r} : runner'[s] = runner[s]
      BY <3>2 DEF TypeOK, RunnerState, Executing, Holding
    <3> QED
      BY <2>3, <3>1, <3>2 DEF RecordDecision
  <2>4. ASSUME NEW d \in Decisions, NEW k \in Keys, CheckRequest(r, d, k)
        PROVE  Backed(r)' /\ \A s \in Runners \ {r} : runner'[s] = runner[s]
    BY <2>4 DEF CheckRequest, TypeOK, IdleRunner, Executing, Holding
  <2>5. CASE Claim(r)
    <3>1. /\ runner'[r].pc = "effect" /\ runner'[r].key = runner[r].key
          /\ runner'[r].decision = runner[r].decision
      BY <2>5 DEF Claim, TypeOK, RunnerState
    <3>2. runner[r].key \in Keys /\ runner[r].decision \in Decisions
      BY <2>5 DEF Claim, Holding
    <3>3. intents'[runner[r].key].status = "executing"
      BY <2>5, <3>2 DEF Claim, TypeOK
    <3>4. \A s \in Runners \ {r} : runner'[s] = runner[s]
      BY <2>5 DEF Claim, TypeOK
    <3> QED
      BY <3>1, <3>2, <3>3, <3>4 DEF Executing
  <2>6. CASE Join(r)
    <3>1. /\ runner'[r].pc = "effect" /\ runner'[r].key = runner[r].key
          /\ runner'[r].decision = runner[r].decision
          /\ \A s \in Runners \ {r} : runner'[s] = runner[s]
      BY <2>6 DEF Join, TypeOK, RunnerState
    <3> QED
      BY <2>6, <3>1 DEF Join, MayJoin, Executing, Holding
  <2>7. ASSUME Executing(r), intents' = intents,
               NEW next \in {"effected", "failing", "missing", "denied"},
               runner' = [runner EXCEPT ![r].pc = next]
        PROVE  Backed(r)' /\ \A s \in Runners \ {r} : runner'[s] = runner[s]
    <3>1. /\ runner'[r].pc = next /\ runner'[r].key = runner[r].key
          /\ runner'[r].decision = runner[r].decision
          /\ \A s \in Runners \ {r} : runner'[s] = runner[s]
      BY <2>7 DEF TypeOK, RunnerState
    <3> QED
      BY <2>7, <3>1 DEF Executing, Holding
  <2> QED
    BY <1>2, <2>1, <2>2, <2>3, <2>4, <2>5, <2>6, <2>7
    DEF Arrive, Serve, RefuseDenied, AnswerWithoutEffect, RunEffect, Complete,
        RecordMissingOrder, ReleaseFailed, Crash, Executing
<1>3. CASE Owner \/ Time \/ UNCHANGED vars
  <2>1. runner' = runner
    BY <1>3 DEF Owner, EnsureAgent, CompileMandate, BeginConfirm, CommitConfirm,
                AbortConfirm, SetAgentStatus, Time, Lapse, AgeIntent, vars
  <2> QED
    BY <1>1, <2>1 DEF RunnerBacked
<1> QED
  <2>1. ASSUME NEW r \in Runners PROVE Backed(r)'
    BY <1>1, <1>2, <1>3 DEF Next, RunnerBacked
  <2> QED
    BY <2>1 DEF RunnerBacked

\* A request in its effect has just claimed or joined its key, or was there before.
LEMMA ExecutingFrom ==
    ASSUME TypeOK, [Next]_vars, NEW r \in Runners, Executing(r)'
    PROVE  /\ runner'[r].req = runner[r].req
           /\ runner'[r].key = runner[r].key
           /\ Executing(r) \/ Claim(r) \/ Join(r)
<1> DEFINE Same == runner'[r].req = runner[r].req /\ runner'[r].key = runner[r].key
<1>1. ASSUME NEW s \in Runners, Claim(s) \/ Join(s)
      PROVE  Same /\ (Executing(r) \/ Claim(r) \/ Join(r))
  <2>1. runner' = [runner EXCEPT ![s].pc = "effect"]
    BY <1>1 DEF Claim, Join
  <2> QED
    BY <1>1, <2>1 DEF TypeOK, RunnerState, Executing
<1>2. ASSUME NEW s \in Runners, Arrive(s) \/ Serve(s) \/ Crash(s), ~Claim(s), ~Join(s)
      PROVE  Executing(r) /\ Same
  <2>1. ASSUME runner' = [runner EXCEPT ![s] = IdleRunner]
        PROVE  Executing(r) /\ Same
    BY <2>1 DEF TypeOK, IdleRunner, Executing
  <2>2. ASSUME NEW q \in Requests, ReadAuthority(s, q)
        PROVE  Executing(r) /\ Same
    <3> DEFINE verdict == IF status # "active" THEN "deny" ELSE mandates[current].policy[q]
    <3>1. runner' = [runner EXCEPT ![s] =
             [IdleRunner EXCEPT !.pc = "evaluating", !.req = q, !.ver = current,
                                !.verdict = verdict]]
      BY <2>2, Zenon DEF ReadAuthority
    <3> HIDE DEF verdict
    <3> QED
      BY <3>1 DEF TypeOK, IdleRunner, Executing
  <2>3. CASE RecordDecision(s)
    <3>1. ASSUME NEW d \in Decisions,
                 runner' = [runner EXCEPT ![s].pc = "refusing", ![s].decision = d]
          PROVE  Executing(r) /\ Same
      BY <3>1 DEF TypeOK, RunnerState, Executing
    <3> QED
      BY <2>1, <2>3, <3>1 DEF RecordDecision
  <2>4. ASSUME NEW d \in Decisions, NEW k \in Keys, CheckRequest(s, d, k)
        PROVE  Executing(r) /\ Same
    BY <2>4 DEF CheckRequest, TypeOK, IdleRunner, Executing
  <2>5. ASSUME Executing(s), NEW next \in {"effected", "failing", "missing", "denied"},
               runner' = [runner EXCEPT ![s].pc = next]
        PROVE  Executing(r) /\ Same
    BY <2>5 DEF TypeOK, RunnerState, Executing
  <2> QED
    BY <1>2, <2>1, <2>2, <2>3, <2>4, <2>5
    DEF Arrive, Serve, RefuseDenied, AnswerWithoutEffect, RunEffect, Complete,
        RecordMissingOrder, ReleaseFailed, Crash, Executing
<1>3. CASE Owner \/ Time \/ UNCHANGED vars
  <2>1. runner' = runner
    BY <1>3 DEF Owner, EnsureAgent, CompileMandate, BeginConfirm, CommitConfirm,
                AbortConfirm, SetAgentStatus, Time, Lapse, AgeIntent, vars
  <2> QED
    BY <2>1 DEF Executing
<1> QED
  BY <1>1, <1>2, <1>3 DEF Next

LEMMA EffectAuthorisedStep == IInv /\ [Next]_vars => EffectAuthorised'
<1> SUFFICES ASSUME IInv, [Next]_vars, NEW r \in Runners, Executing(r)'
             PROVE  \E d \in Decisions : Authorises(d, runner[r].req)'
  BY DEF EffectAuthorised, Authorises, NeedsApproval
<1> USE DEF IInv
<1>1. ASSUME NEW d \in Decisions, NEW q, Authorises(d, q), runner'[r].req = q
      PROVE  \E e \in Decisions : Authorises(e, runner[r].req)'
  <2>1. decisions'[d] = decisions[d]
    BY <1>1, DecisionStays DEF Authorises, NeedsApproval
  <2>2. approvals[d] = "consumed" => approvals'[d] = "consumed"
    BY SpentStays
  <2> QED
    BY <1>1, <2>1, <2>2 DEF Authorises, NeedsApproval
<1>2. CASE Executing(r) /\ runner'[r].req = runner[r].req
  BY <1>1, <1>2 DEF EffectAuthorised
<1>3. CASE Claim(r)
  <2>1. runner'[r].decision = runner[r].decision /\ runner'[r].req = runner[r].req
    BY <1>3 DEF Claim, TypeOK, RunnerState
  <2> QED
    BY <1>3, <2>1, ClaimAuthorises DEF Authorises, NeedsApproval
<1>4. CASE Join(r)
  <2>1. /\ runner[r].key \in Keys
        /\ intents[runner[r].key].status = "executing"
        /\ intents[runner[r].key].req = runner[r].req
    BY <1>4 DEF Join, MayJoin, RunnerBacked, Holding
  <2>2. /\ intents[runner[r].key].decision \in Decisions
        /\ Authorises(intents[runner[r].key].decision, runner[r].req)
    BY <2>1 DEF IntentBacked
  <2> QED
    BY <1>1, <2>2, ExecutingFrom
<1> QED
  BY <1>2, <1>3, <1>4, ExecutingFrom

LEMMA ApprovalBindsOneKeyStep == IInv /\ [Next]_vars => ApprovalBindsOneKey'
<1> SUFFICES ASSUME IInv, [Next]_vars PROVE ApprovalBindsOneKey'
  OBVIOUS
<1> USE DEF IInv
<1>1. ASSUME NEW k \in Keys, intents[k].decision # NoDecision
      PROVE  /\ intents[k].decision \in Decisions
             /\ NeedsApproval(intents[k].decision) =>
                    approvals[intents[k].decision] = "consumed"
             /\ decisions'[intents[k].decision] = decisions[intents[k].decision]
  BY <1>1, DecisionStays DEF IntentBacked, Authorises, NeedsApproval
<1>2. CASE \A k \in Keys : intents'[k].decision = intents[k].decision
  BY <1>1, <1>2 DEF ApprovalBindsOneKey, NeedsApproval
<1>3. ASSUME NEW r \in Runners, Claim(r)
      PROVE  ApprovalBindsOneKey'
  <2> DEFINE l == runner[r].key
             d == runner[r].decision
  <2>1. /\ l \in Keys /\ d \in Decisions /\ intents'[l].decision = d
        /\ \A k \in Keys \ {l} : intents'[k] = intents[k]
        /\ decisions' = decisions
    BY <1>3 DEF Claim, TypeOK, RunnerBacked, Holding
  <2>2. NeedsApproval(d) => approvals[d] = "issued"
    BY <1>3 DEF Claim, MayClaim, Consumable
  <2>3. NeedsApproval(d) => \A k \in Keys : intents[k].decision # d
    BY <1>1, <2>1, <2>2, NullAssumption
  <2> HIDE DEF l, d
  <2> QED
    BY <2>1, <2>3 DEF ApprovalBindsOneKey, NeedsApproval
<1>4. ASSUME NEW r \in Runners, NEW outcome \in {"succeeded", "failed"},
             intents' = SettledIntent(r, outcome)
      PROVE  \A k \in Keys : intents'[k].decision = intents[k].decision
  BY <1>4 DEF SettledIntent, TypeOK, IntentRow
<1> QED
  BY <1>2, <1>3, <1>4, IntentWriters DEF Complete, ReleaseFailed

\* Receipts are append-only.
LEMMA ReceiptsGrow == ASSUME [Next]_vars PROVE receipts \subseteq receipts'
<1>1. CASE Owner \/ Time \/ UNCHANGED vars
  BY <1>1 DEF Owner, EnsureAgent, CompileMandate, BeginConfirm, CommitConfirm,
              AbortConfirm, SetAgentStatus, Time, Lapse, AgeIntent, vars
<1>2. ASSUME NEW r \in Runners, Arrive(r) \/ Serve(r) \/ Crash(r)
      PROVE  receipts \subseteq receipts'
  <2>1. ASSUME NEW q \in Requests, ReadAuthority(r, q)
        PROVE  receipts' = receipts
    BY <2>1, Zenon DEF ReadAuthority
  <2> QED
    BY <1>2, <2>1
    DEF Arrive, Serve, CheckRequest, RecordDecision, RefuseDenied, Claim, Join,
        AnswerWithoutEffect, RunEffect, Complete, RecordMissingOrder, ReleaseFailed,
        Crash, WithReceipt
<1> QED
  BY <1>1, <1>2 DEF Next

LEMMA SucceededHasReceiptStep == IInv /\ [Next]_vars => SucceededHasReceipt'
<1> SUFFICES ASSUME IInv, [Next]_vars, NEW k \in Keys, intents'[k].status = "succeeded"
             PROVE  \E p \in receipts' : /\ p.key = k
                                          /\ p.req = intents'[k].result
                                          /\ p.outcome = "succeeded"
  BY DEF SucceededHasReceipt
<1> USE DEF IInv
<1>1. CASE intents'[k] = intents[k]
  BY <1>1, ReceiptsGrow DEF SucceededHasReceipt
<1>2. ASSUME NEW r \in Runners, Claim(r)
      PROVE  intents'[k] = intents[k]
  BY <1>2 DEF Claim, TypeOK
<1>3. ASSUME NEW r \in Runners, ReleaseFailed(r)
      PROVE  intents'[k] = intents[k]
  BY <1>3 DEF ReleaseFailed, SettledIntent, TypeOK, IntentRow
<1>4. ASSUME NEW r \in Runners, Complete(r), intents'[k] # intents[k]
      PROVE  \E p \in receipts' : /\ p.key = k
                                   /\ p.req = intents'[k].result
                                   /\ p.outcome = "succeeded"
  <2>1. runner[r].key = k /\ intents'[k].result = runner[r].req
    BY <1>4 DEF Complete, SettledIntent, TypeOK, IntentRow
  <2> DEFINE p == [key |-> runner[r].key, decision |-> runner[r].decision,
                   req |-> runner[r].req, outcome |-> "succeeded"]
  <2>2. p \in receipts'
    BY <1>4 DEF Complete, WithReceipt
  <2> QED
    BY <2>1, <2>2
<1> QED
  BY <1>1, <1>2, <1>3, <1>4, IntentWriters
-----------------------------------------------------------------------------
(* The theorems.                                                           *)

LEMMA InitIInv == Init => IInv
<1> SUFFICES ASSUME Init PROVE IInv
  OBVIOUS
<1>1. TypeOK
  BY InitTypeOK
<1>2. ApprovalsForNeed /\ IntentBacked
  BY DEF Init, ApprovalsForNeed, IntentBacked, NoIntent
<1>3. RunnerBacked /\ EffectAuthorised
  BY DEF Init, RunnerBacked, EffectAuthorised, Executing, Holding, IdleRunner
<1>4. ApprovalBindsOneKey /\ SucceededHasReceipt
  BY DEF Init, ApprovalBindsOneKey, SucceededHasReceipt, NoIntent
<1> QED
  BY <1>1, <1>2, <1>3, <1>4 DEF IInv

LEMMA IInvStep == IInv /\ [Next]_vars => IInv'
  BY TypeOKStep, ApprovalsForNeedStep, IntentBackedStep, RunnerBackedStep,
     EffectAuthorisedStep, ApprovalBindsOneKeyStep, SucceededHasReceiptStep
  DEF IInv

\* Every reachable state satisfies the inductive invariant.
THEOREM Inductive == Spec => []IInv
<1> QED
  BY InitIInv, IInvStep, PTL DEF Spec

\* Every variable keeps its type, in particular no approval, intent or agent
\* ever holds a status the tables do not know.
THEOREM TypeCorrect == Spec => []TypeOK
<1>1. IInv => TypeOK
  BY DEF IInv
<1> QED
  BY <1>1, Inductive, PTL

\* No protected effect runs without authority for exactly its request, however
\* many duplicates, crashes and reclaims came before it (execute).
THEOREM EffectsAreAuthorised == Spec => []EffectAuthorised
<1>1. IInv => EffectAuthorised
  BY DEF IInv
<1> QED
  BY <1>1, Inductive, PTL

\* One human approval never binds two idempotency keys (create_execution_intent
\* and consume_approval in one transaction).
THEOREM ApprovalsBindOnce == Spec => []ApprovalBindsOneKey
<1>1. IInv => ApprovalBindsOneKey
  BY DEF IInv
<1> QED
  BY <1>1, Inductive, PTL

\* Whatever a succeeded key replays has its signed receipt.
THEOREM SuccessIsReceipted == Spec => []SucceededHasReceipt
<1>1. IInv => SucceededHasReceipt
  BY DEF IInv
<1> QED
  BY <1>1, Inductive, PTL

-----------------------------------------------------------------------------
(* What a key replays.                                                     *)

\* Requests that are in the effect of one key at the same time are the same
\* request: duplicates may overlap, a reclaim by another request may not.
OneRequestPerKey ==
    \A r, s \in Runners :
        Executing(r) /\ Executing(s) /\ runner[r].key = runner[s].key
            => runner[r].req = runner[s].req

\* Whoever is in the effect of a key is the request the key is bound to.
HoldsItsKey ==
    \A r \in Runners : Executing(r) => intents[runner[r].key].req = runner[r].req

\* Settling a key keeps the request it is bound to, and touches no other key.
LEMMA SettledKeepsRequest ==
    ASSUME TypeOK, NEW s \in Runners, NEW outcome \in {"succeeded", "failed"}, NEW k \in Keys
    PROVE  /\ SettledIntent(s, outcome)[k].req = intents[k].req
           /\ k = runner[s].key => SettledIntent(s, outcome)[k].result = runner[s].req
           /\ k # runner[s].key => SettledIntent(s, outcome)[k] = intents[k]
<1> DEFINE Row == [intents[k] EXCEPT !.status = outcome, !.result = runner[s].req]
<1>1. /\ intents[k] \in IntentRow
      /\ intents \in [Keys -> IntentRow]
  BY DEF TypeOK
<1>2. Row.req = intents[k].req /\ Row.result = runner[s].req
  BY <1>1 DEF IntentRow
<1>3. k = runner[s].key => SettledIntent(s, outcome)[k] = Row
  BY <1>1, Zenon DEF SettledIntent
<1>4. k # runner[s].key => SettledIntent(s, outcome)[k] = intents[k]
  BY <1>1 DEF SettledIntent
<1> HIDE DEF Row
<1> QED
  BY <1>2, <1>3, <1>4

LEMMA HoldsItsKeyStep ==
    ASSUME IInv, HoldsItsKey, [Next]_vars, OneRequestPerKey'
    PROVE  HoldsItsKey'
<1> SUFFICES ASSUME NEW r \in Runners, Executing(r)'
             PROVE  intents'[runner'[r].key].req = runner'[r].req
  BY DEF HoldsItsKey
<1> USE DEF IInv
<1> DEFINE k == runner[r].key
<1>1. /\ runner'[r].req = runner[r].req
      /\ runner'[r].key = k
      /\ Executing(r) \/ Claim(r) \/ Join(r)
  BY ExecutingFrom
<1>2. k \in Keys
  BY <1>1 DEF RunnerBacked, Executing, Holding, Claim, Join
<1>3. Executing(r) \/ Join(r) => intents[k].req = runner[r].req
  BY DEF HoldsItsKey, Join, MayJoin
<1>4. ASSUME NEW s \in Runners, Claim(s)
      PROVE  intents'[k].req = runner[r].req
  <2>1. /\ runner[s].key \in Keys
        /\ intents'[runner[s].key].req = runner[s].req
        /\ \A l \in Keys \ {runner[s].key} : intents'[l] = intents[l]
    BY <1>4 DEF Claim, TypeOK, RunnerBacked, Holding
  <2>2. /\ Executing(s)'
        /\ runner'[s].key = runner[s].key
        /\ runner'[s].req = runner[s].req
    BY <1>4 DEF Claim, Executing, TypeOK, RunnerState
  <2>3. CASE runner[s].key = k
    BY <1>1, <2>1, <2>2, <2>3 DEF OneRequestPerKey
  <2>4. CASE runner[s].key # k
    <3>1. ~Claim(r)
      BY <1>4, <2>4 DEF Claim, TypeOK, RunnerState
    <3> QED
      BY <1>1, <1>2, <1>3, <2>1, <2>4, <3>1
  <2> QED
    BY <2>3, <2>4
<1>5. ASSUME NEW s \in Runners, Complete(s) \/ ReleaseFailed(s)
      PROVE  intents'[k].req = runner[r].req
  <2>1. ~Claim(r)
    BY <1>5 DEF Claim, Complete, ReleaseFailed, TypeOK, RunnerState
  <2>2. intents'[k].req = intents[k].req
    BY <1>2, <1>5, SettledKeepsRequest DEF Complete, ReleaseFailed
  <2> QED
    BY <1>1, <1>3, <2>1, <2>2
<1>6. CASE intents' = intents
  BY <1>1, <1>3, <1>4, <1>6
<1> QED
  BY <1>1, <1>4, <1>5, <1>6, IntentWriters

LEMMA ReplayMatchesStep ==
    ASSUME IInv, HoldsItsKey, ReplayMatchesRequest, [Next]_vars
    PROVE  ReplayMatchesRequest'
<1> SUFFICES ASSUME NEW k \in Keys, intents'[k].result # NoRequest
             PROVE  intents'[k].result = intents'[k].req
  BY DEF ReplayMatchesRequest
<1> USE DEF IInv
<1>1. ASSUME intents'[k] = intents[k]
      PROVE  intents'[k].result = intents'[k].req
  BY <1>1 DEF ReplayMatchesRequest
<1>2. ASSUME NEW s \in Runners, Claim(s)
      PROVE  intents'[k].result = intents'[k].req
  BY <1>1, <1>2 DEF Claim, TypeOK
<1>3. ASSUME NEW s \in Runners, Complete(s) \/ ReleaseFailed(s)
      PROVE  intents'[k].result = intents'[k].req
  <2>1. CASE runner[s].key = k
    <3>1. intents[k].req = runner[s].req
      BY <1>3, <2>1 DEF HoldsItsKey, Executing, Complete, ReleaseFailed
    <3>2. intents'[k].result = runner[s].req /\ intents'[k].req = intents[k].req
      BY <1>3, <2>1, SettledKeepsRequest DEF Complete, ReleaseFailed
    <3> QED
      BY <3>1, <3>2
  <2>2. CASE runner[s].key # k
    BY <1>1, <1>3, <2>2, SettledKeepsRequest DEF Complete, ReleaseFailed
  <2> QED
    BY <2>1, <2>2
<1> QED
  BY <1>1, <1>2, <1>3, IntentWriters

\* A key replays the result of the very request it is bound to, through every
\* crash, failure and reclaim, unless a different request reclaims the key
\* while the effect of the first still runs (create_execution_intent,
\* set_execution_intent_status).
THEOREM ReplaysItsRequest == Spec /\ []OneRequestPerKey => []ReplayMatchesRequest
<1> DEFINE J == HoldsItsKey /\ ReplayMatchesRequest
<1>1. Init => J
  BY DEF Init, HoldsItsKey, ReplayMatchesRequest, Executing, IdleRunner, NoIntent
<1>2. J /\ IInv /\ OneRequestPerKey' /\ [Next]_vars => J'
  BY HoldsItsKeyStep, ReplayMatchesStep
<1>3. J => ReplayMatchesRequest
  OBVIOUS
<1> HIDE DEF J
<1> QED
  BY <1>1, <1>2, <1>3, Inductive, PTL DEF Spec

\* Served one at a time, requests never get the result of another: a single
\* worker needs no hypothesis about who overlaps.
THEOREM OneRunnerReplaysItsRequest ==
    ASSUME \A r, s \in Runners : r = s
    PROVE  Spec => []ReplayMatchesRequest
<1>1. OneRequestPerKey
  BY DEF OneRequestPerKey
<1> QED
  BY <1>1, ReplaysItsRequest, PTL

-----------------------------------------------------------------------------
(* Steps: consumption under live authority.                                *)

LEMMA ConsumptionIsLive ==
    ASSUME IInv, [Next]_vars,
           NEW d \in Decisions, approvals[d] # "consumed", approvals'[d] = "consumed"
    PROVE  /\ status = "active" /\ current = decisions[d].ver
           /\ \E k \in Keys : /\ intents[k] # intents'[k]
                              /\ intents'[k].decision = d
                              /\ intents'[k].req = decisions[d].req
           /\ InHand(d)
<1> USE DEF IInv
<1>1. ASSUME NEW r \in Runners, RecordDecision(r)
      PROVE  FALSE
  BY <1>1 DEF RecordDecision, TypeOK
<1>2. ASSUME NEW c \in Confirmers
      PROVE  ~CommitConfirm(c)
  BY DEF CommitConfirm, CloseIssued
<1>3. ASSUME NEW new \in {"paused", "revoked"}
      PROVE  ~SetAgentStatus(new)
  BY DEF SetAgentStatus, CloseIssued
<1>4. PICK r \in Runners : Claim(r)
  BY <1>1, <1>2, <1>3, ApprovalWriters
<1>5. d = runner[r].decision /\ NeedsApproval(d)
  BY <1>4 DEF Claim, Spend, TypeOK
<1>6. Consumable(d)
  BY <1>4, <1>5 DEF Claim, MayClaim
<1> DEFINE k == runner[r].key
<1>7. /\ k \in Keys
      /\ intents'[k].decision = d
      /\ intents'[k].req = decisions[d].req
  BY <1>4, <1>5 DEF Claim, TypeOK, RunnerBacked, Holding
<1>8. intents[k].decision # d
  BY <1>6, <1>7, <1>5, NullAssumption DEF IntentBacked, Authorises, Consumable, NeedsApproval
<1>9. InHand(d)
  BY <1>4, <1>5 DEF Claim, InHand
<1> QED
  BY <1>6, <1>7, <1>8, <1>9 DEF Consumable

\* Nobody takes a lapsed decision in hand: the clock is read before.
LEMMA InHandFrom ==
    ASSUME TypeOK, [Next]_vars, NEW d \in Decisions, d \in lapsed, InHand(d)'
    PROVE  InHand(d)
<1> PICK r \in Runners : runner'[r].pc = "checked" /\ runner'[r].decision = d
  BY DEF InHand
<1> SUFFICES ASSUME runner'[r] # runner[r] PROVE FALSE
  BY DEF InHand
<1>1. ASSUME NEW s \in Runners, Arrive(s) \/ Serve(s) \/ Crash(s)
      PROVE  FALSE
  <2>1. ASSUME runner' = [runner EXCEPT ![s] = IdleRunner]
        PROVE  FALSE
    BY <2>1 DEF TypeOK, IdleRunner
  <2>2. ASSUME NEW q \in Requests, ReadAuthority(s, q)
        PROVE  FALSE
    <3> DEFINE verdict == IF status # "active" THEN "deny" ELSE mandates[current].policy[q]
    <3>1. runner' = [runner EXCEPT ![s] =
             [IdleRunner EXCEPT !.pc = "evaluating", !.req = q, !.ver = current,
                                !.verdict = verdict]]
      BY <2>2, Zenon DEF ReadAuthority
    <3> HIDE DEF verdict
    <3> QED
      BY <3>1 DEF TypeOK, IdleRunner
  <2>3. CASE RecordDecision(s)
    <3>1. ASSUME NEW e \in Decisions,
                 runner' = [runner EXCEPT ![s].pc = "refusing", ![s].decision = e]
          PROVE  FALSE
      BY <3>1 DEF TypeOK, RunnerState
    <3> QED
      BY <2>1, <2>3, <3>1 DEF RecordDecision
  <2>4. ASSUME NEW e \in Decisions, NEW k \in Keys, CheckRequest(s, e, k)
        PROVE  FALSE
    <3>1. s = r /\ runner'[s].decision = e
      BY <2>4 DEF CheckRequest, TypeOK, IdleRunner
    <3> QED
      BY <2>4, <3>1 DEF CheckRequest, Unexpired
  <2>5. ASSUME NEW next \in {"effect", "effected", "failing", "missing", "denied"},
               runner' = [runner EXCEPT ![s].pc = next]
        PROVE  FALSE
    BY <2>5 DEF TypeOK, RunnerState
  <2> QED
    BY <1>1, <2>1, <2>2, <2>3, <2>4, <2>5
    DEF Arrive, Serve, RefuseDenied, Claim, Join, AnswerWithoutEffect, RunEffect, Complete,
        RecordMissingOrder, ReleaseFailed, Crash
<1>2. CASE Owner \/ Time \/ UNCHANGED vars
  BY <1>2 DEF Owner, EnsureAgent, CompileMandate, BeginConfirm, CommitConfirm,
              AbortConfirm, SetAgentStatus, Time, Lapse, AgeIntent, vars
<1> QED
  BY <1>1, <1>2 DEF Next

LEMMA LapsedStays == ASSUME [Next]_vars PROVE lapsed \subseteq lapsed'
<1>1. CASE Owner \/ Time \/ UNCHANGED vars
  BY <1>1 DEF Owner, EnsureAgent, CompileMandate, BeginConfirm, CommitConfirm,
              AbortConfirm, SetAgentStatus, Time, Lapse, AgeIntent, vars
<1>2. ASSUME NEW r \in Runners, Arrive(r) \/ Serve(r) \/ Crash(r)
      PROVE  lapsed' = lapsed
  <2>1. ASSUME NEW q \in Requests, ReadAuthority(r, q)
        PROVE  lapsed' = lapsed
    BY <2>1, Zenon DEF ReadAuthority
  <2> QED
    BY <1>2, <2>1
    DEF Arrive, Serve, CheckRequest, RecordDecision, RefuseDenied, Claim, Join,
        AnswerWithoutEffect, RunEffect, Complete, RecordMissingOrder, ReleaseFailed,
        Crash
<1> QED
  BY <1>1, <1>2 DEF Next

LEMMA DeadStays ==
    ASSUME IInv, [Next]_vars, NEW d \in Decisions, Dead(d)
    PROVE  Dead(d)'
<1>1. d \in lapsed'
  BY LapsedStays DEF Dead
<1>2. ~InHand(d)'
  BY InHandFrom DEF Dead, IInv
<1>3. approvals'[d] # "consumed"
  BY ConsumptionIsLive DEF Dead
<1> QED
  BY <1>1, <1>2, <1>3 DEF Dead, InHand

\* An approval is only ever spent by an active agent under the mandate it was
\* issued for, together with the key it authorises, and never once it has
\* lapsed with no request left that read the clock in time (consume_approval).
THEOREM ConsumesUnderLiveAuthority == Spec => ConsumeUnderLiveAuthority
<1>1. IInv /\ [Next]_vars =>
        [\A d \in Decisions :
            /\ approvals[d] # "consumed" /\ approvals'[d] = "consumed" =>
                /\ status = "active" /\ current = decisions[d].ver
                /\ \E k \in Keys : /\ intents[k] # intents'[k]
                                   /\ intents'[k].decision = d
                                   /\ intents'[k].req = decisions[d].req
            /\ Dead(d) => Dead(d)']_vars
  BY ConsumptionIsLive, DeadStays
<1> QED
  BY <1>1, Inductive, PTL DEF Spec, ConsumeUnderLiveAuthority

-----------------------------------------------------------------------------
(* Mandates: what a confirmation activates.                                *)

\* Versions are taken in order, the current one among them, and every
\* confirmation that is under way holds a draft as it still is.
VersionsInOrder ==
    /\ TypeOK
    /\ current <= latest
    /\ status = "absent" => latest = 0
    /\ \A v \in Versions : v > latest => mandates[v].status = "absent"
    /\ \A c \in Confirmers : confirming[c].draft > 0 =>
        /\ confirming[c].draft <= latest
        /\ mandates[confirming[c].draft] =
               [status |-> "draft", policy |-> confirming[c].policy]

\* What the step of a mandate does to the rows and to the current one.
DraftActivated ==
    /\ \A v \in Versions : mandates[v].status # "absent" => mandates'[v] = mandates[v]
    /\ current' # current /\ current > 0 =>
        /\ current' > current
        /\ mandates'[current'].status = "active"
        /\ mandates[current' - 1] = [status |-> "draft", policy |-> mandates'[current'].policy]

LEMMA ConfirmingHolds ==
    ASSUME VersionsInOrder, NEW c \in Confirmers
    PROVE  /\ confirming[c].draft \in Nat
           /\ confirming[c].draft > 0 => confirming[c].draft <= latest
<1>1. confirming[c] \in [draft : 0..MaxVersion, policy : Policies]
  BY DEF VersionsInOrder, TypeOK, Confirmation
<1>2. confirming[c].draft \in 0..MaxVersion
  BY <1>1
<1>3. confirming[c].draft > 0 => confirming[c].draft <= latest
  BY DEF VersionsInOrder
<1> QED
  BY <1>2, <1>3, BoundAssumption

LEMMA OwnerActivatesDraft ==
    ASSUME VersionsInOrder, TypeOK', Owner
    PROVE  VersionsInOrder' /\ DraftActivated
<1> USE BoundAssumption DEF VersionsInOrder, TypeOK, Versions
<1>0. ASSUME NEW c \in Confirmers
      PROVE  /\ confirming[c].draft \in Nat
             /\ confirming[c].draft > 0 => confirming[c].draft <= latest
  BY ConfirmingHolds
<1>1. CASE EnsureAgent
  <2>0. latest = 0 /\ current = 0
    BY <1>1 DEF EnsureAgent
  <2>1. /\ latest = 0 /\ current = 0 /\ \A c \in Confirmers : confirming[c].draft = 0
        /\ latest' = 1 /\ current' = 1 /\ confirming' = confirming /\ status' = "active"
    <3>1. ASSUME NEW c \in Confirmers
          PROVE  confirming[c].draft = 0
      <4>1. confirming[c].draft \in Nat /\ ~(confirming[c].draft > 0)
        BY <1>0, <2>0
      <4> QED
        BY <4>1
    <3> QED
      BY <1>1, <2>0, <3>1 DEF EnsureAgent
  <2>2. \A v \in Versions : v # 1 => mandates'[v] = mandates[v]
    BY <1>1 DEF EnsureAgent
  <2>3. \A v \in Versions : mandates[v].status = "absent"
    BY <2>1
  <2>4. VersionsInOrder'
    BY <2>1, <2>2, <2>3
  <2>5. DraftActivated
    BY <2>1, <2>3 DEF DraftActivated
  <2> QED
    BY <2>4, <2>5
<1>2. ASSUME NEW policy \in Policies, CompileMandate(policy)
      PROVE  VersionsInOrder' /\ DraftActivated
  <2>1. \A v \in Versions : v # latest + 1 => mandates'[v] = mandates[v]
    BY <1>2 DEF CompileMandate
  <2>2. \A c \in Confirmers : confirming[c].draft \in Nat
    BY DEF Confirmation
  <2> QED
    BY <1>2, <2>1, <2>2 DEF CompileMandate, DraftActivated
<1>3. ASSUME NEW c \in Confirmers, BeginConfirm(c)
      PROVE  VersionsInOrder' /\ DraftActivated
  <2>1. latest \in Versions /\ mandates[latest] \in MandateRow
    BY <1>3 DEF BeginConfirm
  <2>2. mandates[latest] = [status |-> "draft", policy |-> mandates[latest].policy]
    BY <1>3, <2>1 DEF BeginConfirm, MandateRow
  <2>3. /\ confirming'[c] = [draft |-> latest, policy |-> mandates[latest].policy]
        /\ \A o \in Confirmers \ {c} : confirming'[o] = confirming[o]
    BY <1>3 DEF BeginConfirm
  <2>4. /\ mandates' = mandates /\ latest' = latest
        /\ current' = current /\ status' = status
    BY <1>3 DEF BeginConfirm
  <2>5. \A o \in Confirmers : confirming'[o].draft > 0 =>
          /\ confirming'[o].draft <= latest
          /\ mandates[confirming'[o].draft] =
                 [status |-> "draft", policy |-> confirming'[o].policy]
    <3> SUFFICES ASSUME NEW o \in Confirmers, confirming'[o].draft > 0
                 PROVE  /\ confirming'[o].draft <= latest
                        /\ mandates[confirming'[o].draft] =
                               [status |-> "draft", policy |-> confirming'[o].policy]
      OBVIOUS
    <3>1. CASE o = c
      BY <2>1, <2>2, <2>3, <3>1
    <3>2. CASE o # c
      BY <2>3, <3>2
    <3> QED
      BY <3>1, <3>2
  <2> QED
    BY <2>4, <2>5 DEF DraftActivated
<1>4. ASSUME NEW c \in Confirmers, CommitConfirm(c)
      PROVE  VersionsInOrder' /\ DraftActivated
  <2> DEFINE v == confirming[c].draft + 1
  <2>1. /\ confirming[c].draft \in Versions /\ v \in Versions /\ latest = confirming[c].draft
        /\ mandates' = [mandates EXCEPT
                           ![v] = [status |-> "active", policy |-> confirming[c].policy]]
        /\ latest' = v /\ current' = v /\ status' = status
    BY <1>4 DEF CommitConfirm, VersionFree, Confirmation
  <2>2. mandates'[v] = [status |-> "active", policy |-> confirming[c].policy]
    BY <2>1
  <2>3. \A w \in Versions : w # v => mandates'[w] = mandates[w]
    BY <2>1
  <2>4. \A o \in Confirmers : confirming'[o].draft = 0 \/ confirming'[o] = confirming[o]
    BY <1>4 DEF CommitConfirm, NotConfirming
  <2>5. status # "absent"
    BY <2>1
  <2>6. \A o \in Confirmers : confirming'[o].draft > 0 =>
          /\ confirming'[o].draft <= latest'
          /\ mandates'[confirming'[o].draft] =
                 [status |-> "draft", policy |-> confirming'[o].policy]
    <3> SUFFICES ASSUME NEW o \in Confirmers, confirming'[o].draft > 0
                 PROVE  /\ confirming'[o].draft <= latest'
                        /\ mandates'[confirming'[o].draft] =
                               [status |-> "draft", policy |-> confirming'[o].policy]
      OBVIOUS
    <3>0. confirming'[o] = confirming[o]
      BY <2>4
    <3>1. /\ confirming'[o] = confirming[o]
          /\ confirming[o].draft \in 1..latest
      BY <1>0, <3>0
    <3>2. mandates'[confirming[o].draft] = mandates[confirming[o].draft]
      BY <2>1, <2>3, <3>1
    <3> QED
      BY <2>1, <3>1, <3>2
  <2>7. VersionsInOrder'
    BY <2>1, <2>3, <2>5, <2>6
  <2>8. DraftActivated
    BY <2>1, <2>2, <2>3, <1>4 DEF DraftActivated, CommitConfirm
  <2> QED
    BY <2>7, <2>8
<1>5. ASSUME NEW c \in Confirmers, AbortConfirm(c)
      PROVE  VersionsInOrder' /\ DraftActivated
  <2>1. \A o \in Confirmers : confirming'[o].draft = 0 \/ confirming'[o] = confirming[o]
    BY <1>5 DEF AbortConfirm, NotConfirming
  <2> QED
    BY <1>5, <2>1 DEF AbortConfirm, DraftActivated
<1>6. ASSUME NEW new \in {"active", "paused", "revoked"}, SetAgentStatus(new)
      PROVE  VersionsInOrder' /\ DraftActivated
  BY <1>6 DEF SetAgentStatus, DraftActivated
<1> QED
  BY <1>1, <1>2, <1>3, <1>4, <1>5, <1>6 DEF Owner

\* Only the owner touches mandates.
LEMMA MandateWriters ==
    ASSUME [Next]_vars, ~Owner
    PROVE  UNCHANGED authority
BY DEF Next, Time, Arrive, Serve, authority, vars, ReadAuthority, CheckRequest, RecordDecision,
       RefuseDenied, Claim, Join, AnswerWithoutEffect, RunEffect, Complete,
       RecordMissingOrder, ReleaseFailed, Crash, Lapse, AgeIntent

LEMMA StepActivatesDraft ==
    ASSUME VersionsInOrder, TypeOK', [Next]_vars
    PROVE  VersionsInOrder' /\ DraftActivated
<1>1. CASE Owner
  BY <1>1, OwnerActivatesDraft
<1>2. CASE ~Owner
  BY <1>2, MandateWriters DEF authority, VersionsInOrder, DraftActivated
<1> QED
  BY <1>1, <1>2

\* However many compiles and confirmations overlap, of one draft or of several,
\* the mandate that becomes current is the draft its confirmation read, and
\* mandate rows never change (confirm_mandate).
THEOREM ConfirmationsActivateTheirDraft == Spec => ConfirmActivatesItsDraft
<1>1. Init => VersionsInOrder
  BY InitTypeOK DEF Init, VersionsInOrder, NotConfirming
<1>2. VersionsInOrder /\ IInv' /\ [Next]_vars => VersionsInOrder'
  BY StepActivatesDraft DEF IInv
<1>3. VersionsInOrder /\ IInv' /\ [Next]_vars =>
        [/\ \A v \in Versions : mandates[v].status # "absent" => mandates'[v] = mandates[v]
         /\ current' # current /\ current > 0 =>
              /\ current' > current
              /\ mandates'[current'].status = "active"
              /\ mandates[current' - 1] = [status |-> "draft",
                                           policy |-> mandates'[current'].policy]]_vars
  BY StepActivatesDraft DEF IInv, DraftActivated
<1> QED
  BY <1>1, <1>2, <1>3, Inductive, PTL DEF Spec, ConfirmActivatesItsDraft

-----------------------------------------------------------------------------
(* The one-time approval.                                                  *)

LEMMA CloseRefines ==
    ASSUME TypeOK, NEW closing, NEW to \in {"expired", "revoked"},
           approvals' = CloseIssued(closing, to)
    PROVE  Approval!Next
<1> DEFINE A == {d \in Decisions : approvals[d] = "issued" /\ closing[d]}
<1>1. approvals' = [d \in Decisions |-> IF d \in A THEN to ELSE approvals[d]]
  BY DEF CloseIssued
<1>2. A \in SUBSET Decisions /\ \A d \in A : approvals[d] = "issued"
  OBVIOUS
<1> HIDE DEF A
<1>3. Approval!Close(A, to)
  BY <1>1, <1>2 DEF Approval!Close
<1> QED
  BY <1>2, <1>3 DEF Approval!Next

\* The approval rows, under every interleaving of owners and requests, are
\* one-time approvals.
THEOREM ApprovalsAreOneTime == Spec => OneTime
<1>1. Init => Approval!Init
  BY DEF Init, Approval!Init
<1>2. IInv /\ [Next]_vars => [Approval!Next]_approvals
  <2> SUFFICES ASSUME IInv, [Next]_vars
               PROVE  approvals' = approvals \/ Approval!Next
    OBVIOUS
  <2> USE DEF IInv
  <2>1. ASSUME NEW r \in Runners, RecordDecision(r)
        PROVE  approvals' = approvals \/ Approval!Next
    <3>1. PICK d \in Decisions :
            /\ decisions[d] = NoDecisionRow
            /\ approvals' = IF runner[r].verdict = "need_approval"
                            THEN [approvals EXCEPT ![d] = "issued"] ELSE approvals
      BY <2>1 DEF RecordDecision
    <3>2. approvals[d] = "none"
      BY <3>1 DEF ApprovalsForNeed, NeedsApproval, NoDecisionRow
    <3>3. CASE approvals' = [approvals EXCEPT ![d] = "issued"]
      BY <3>2, <3>3 DEF Approval!Next, Approval!Issue
    <3> QED
      BY <3>1, <3>3
  <2>2. ASSUME NEW r \in Runners, Claim(r)
        PROVE  approvals' = approvals \/ Approval!Next
    <3>1. runner[r].decision \in Decisions
      BY <2>2 DEF Claim, RunnerBacked, Holding
    <3>2. CASE NeedsApproval(runner[r].decision)
      <4>1. Approval!Consume(runner[r].decision)
        BY <2>2, <3>2 DEF Claim, MayClaim, Consumable, Spend, Approval!Consume
      <4> QED
        BY <3>1, <4>1 DEF Approval!Next
    <3>3. CASE ~NeedsApproval(runner[r].decision)
      BY <2>2, <3>3 DEF Claim, Spend
    <3> QED
      BY <3>2, <3>3
  <2>3. ASSUME NEW c \in Confirmers, CommitConfirm(c)
        PROVE  Approval!Next
    BY <2>3, CloseRefines DEF CommitConfirm
  <2>4. ASSUME NEW new \in {"paused", "revoked"}, SetAgentStatus(new)
        PROVE  Approval!Next
    BY <2>4, CloseRefines DEF SetAgentStatus
  <2> QED
    BY <2>1, <2>2, <2>3, <2>4, ApprovalWriters
<1> QED
  BY <1>1, <1>2, Inductive, PTL DEF Spec, OneTime, Approval!Spec
=============================================================================
