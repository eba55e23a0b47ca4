--------------------------- MODULE BuyerAuthority ---------------------------
(***************************************************************************)
(* The Buyer's authority rows: the agent, its mandate versions, the        *)
(* decisions taken under them and the one-time approvals                   *)
(* (checkout_orchestrator.py, agentguard_repository.py).  The checkout and *)
(* the other protected actions of the Buyer are built on this module.      *)
(*                                                                         *)
(* A bound request is a member of Requests, its actor ActorOf of it.  A    *)
(* mandate payload is the verdict it gives each request.  An approval has  *)
(* the id of the one decision it was issued for.  Time is the set lapsed   *)
(* of decisions past their expiry, which their approvals share.            *)
(***************************************************************************)
EXTENDS Naturals, FiniteSets

CONSTANTS
    Requests,      \* hashes of bound Buyer actions
    ActorOf,       \* who executes a request: "agent", or "user" in person
    Decisions,     \* decision identifiers (bounds the evaluations)
    Policies,      \* mandate payloads: verdict per request
    DefaultPolicy,
    MaxVersion,    \* bound on mandate versions
    NoRequest

Verdicts == {"allow", "need_approval", "deny"}

ASSUME ActorAssumption == ActorOf \in [Requests -> {"agent", "user"}]
ASSUME PolicyAssumption ==
    /\ Policies \subseteq [Requests -> Verdicts]
    /\ DefaultPolicy \in Policies
ASSUME VersionAssumption == MaxVersion \in Nat
ASSUME RequestAssumption == NoRequest \notin Requests

VARIABLES
    status,      \* agentguard_agents.status, "absent" before ensure_agent
    current,     \* agentguard_agents.current_mandate_version, 0 for NULL
    latest,      \* the highest mandate version inserted, 0 for none
    mandates,    \* mandates[v]: the row of version v
    decisions,   \* decisions[d]
    approvals,   \* approvals[d]: the approval issued for decision d
    lapsed       \* decisions past their expiry

mandateVars == <<status, current, latest, mandates>>
authorityVars == <<status, current, latest, mandates, decisions, approvals, lapsed>>

AgentStatus == {"absent", "active", "paused", "revoked"}
Versions == 1..MaxVersion
MandateRow == [status : {"absent", "draft", "active"}, policy : Policies]
DecisionRow == [status : Verdicts \cup {"absent"},
                req : Requests \cup {NoRequest}, ver : 0..MaxVersion]
ApprovalStatus == {"none", "issued", "consumed", "expired", "revoked"}

NoDecisionRow == [status |-> "absent", req |-> NoRequest, ver |-> 0]

AuthorityTypeOK ==
    /\ status \in AgentStatus
    /\ current \in 0..MaxVersion
    /\ latest \in 0..MaxVersion
    /\ mandates \in [Versions -> MandateRow]
    /\ decisions \in [Decisions -> DecisionRow]
    /\ approvals \in [Decisions -> ApprovalStatus]
    /\ lapsed \in SUBSET Decisions

AuthorityInit ==
    /\ status = "absent"
    /\ current = 0
    /\ latest = 0
    /\ mandates = [v \in Versions |-> [status |-> "absent", policy |-> DefaultPolicy]]
    /\ decisions = [d \in Decisions |-> NoDecisionRow]
    /\ approvals = [d \in Decisions |-> "none"]
    /\ lapsed = {}

-----------------------------------------------------------------------------

\* Variant: the UPDATE forgets AND status = 'issued'.
CloseAnyStatus(to) ==
    [d \in Decisions |-> IF approvals[d] # "none" THEN to ELSE approvals[d]]

\* The UPDATEs of set_agent_status and create_mandate_version.
CloseIssued(to) ==
    [d \in Decisions |-> IF approvals[d] = "issued" THEN to ELSE approvals[d]]

\* ensure_agent: a Buyer agent starts without a mandate.
EnsureAgent ==
    /\ status = "absent"
    /\ status' = "active"
    /\ UNCHANGED <<current, latest, mandates, decisions, approvals, lapsed>>

\* compile_mandate: a draft one version above the latest, and the agent if it
\* is missing.  Two compilations at once collide on the primary key.
CompileMandate(policy) ==
    /\ status # "revoked"
    /\ latest < MaxVersion
    /\ status' = IF status = "absent" THEN "active" ELSE status
    /\ latest' = latest + 1
    /\ mandates' = [mandates EXCEPT ![latest + 1] = [status |-> "draft", policy |-> policy]]
    /\ UNCHANGED <<current, decisions, approvals, lapsed>>

\* confirm_mandate: the draft's copy becomes current.  With a current active
\* mandate the call returns that one, whatever drafts are newer: a step without
\* effect.  Whatever could change between its reads and its INSERT takes the
\* version it inserts, so that the transaction fails on the primary key.
ConfirmMandate ==
    /\ current = 0
    /\ latest \in 1..MaxVersion - 1
    /\ mandates[latest].status = "draft"
    /\ status # "revoked"
    /\ mandates' = [mandates EXCEPT ![latest + 1] =
                        [status |-> "active", policy |-> mandates[latest].policy]]
    /\ latest' = latest + 1
    /\ current' = latest + 1
    /\ approvals' = CloseIssued("revoked")
    /\ UNCHANGED <<status, decisions, lapsed>>

\* set_agent_status: a revoked agent stays revoked; leaving "active" closes
\* every approval nobody consumed.
SetAgentStatus(new) ==
    /\ status # "absent"
    /\ status # "revoked" \/ new = "revoked"
    /\ status' = new
    /\ approvals' = IF new = "active" THEN approvals
                    ELSE CloseIssued(IF new = "revoked" THEN "revoked" ELSE "expired")
    /\ UNCHANGED <<current, latest, mandates, decisions, lapsed>>

\* The ten minutes of a decision pass.
Lapse(d) ==
    /\ decisions[d] # NoDecisionRow
    /\ d \notin lapsed
    /\ lapsed' = lapsed \cup {d}
    /\ UNCHANGED <<status, current, latest, mandates, decisions, approvals>>

-----------------------------------------------------------------------------

\* _authority: a paused agent leaves the user in person free to act.
HasAuthority(actor) ==
    /\ current > 0
    /\ mandates[current].status = "active"
    /\ status = "active" \/ (actor = "user" /\ status = "paused")

\* record_decision and, for need_approval, issue_approval.
InsertDecision(d, verdict, req, ver) ==
    /\ decisions[d] = NoDecisionRow
    /\ decisions' = [decisions EXCEPT ![d] = [status |-> verdict, req |-> req, ver |-> ver]]
    /\ approvals' = IF verdict = "need_approval"
                    THEN [approvals EXCEPT ![d] = "issued"] ELSE approvals

NeedsApproval(d) == decisions[d].status = "need_approval"

\* Variant: the expiry of the decision is not compared with the clock.
NeverExpires(d) == TRUE

\* _utcnow() against the decision's expiry, at the start of an execution.
Unexpired(d) == d \notin lapsed

\* Variant: the UPDATE finds the approval by its id alone.
ConsumableById(d, actor) == TRUE

\* The WHERE clause of consume_approval; a person acting for themselves passes
\* allow_paused_agent.  Its expires_at > NOW() is absent: NOW() is the start of
\* the transaction, before the clock that Unexpired stands for was read, so an
\* approval that lapses while the transaction waits for a lock passes too.
Consumable(d, actor) ==
    /\ approvals[d] = "issued"
    /\ status = "active" \/ (actor = "user" /\ status = "paused")
    /\ current = decisions[d].ver

\* Variant: the approval is looked at but not consumed.
SpendNothing(d) == approvals

\* consume_approval, which an allowed decision does not reach.
Spend(d) == IF NeedsApproval(d) THEN [approvals EXCEPT ![d] = "consumed"] ELSE approvals

\* The decision allowed its request, or a person approved it and the approval
\* is spent.
Authorises(d) ==
    \/ decisions[d].status = "allow"
    \/ decisions[d].status = "need_approval" /\ approvals[d] = "consumed"

=============================================================================
