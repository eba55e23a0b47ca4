-------------------------- MODULE AgentGuardSeller --------------------------
(***************************************************************************)
(* The PostgreSQL AgentGuard of one Seller principal: the agent row, its   *)
(* append-only mandate versions, decisions, one-time approvals, execution  *)
(* intents and receipts, and the concurrent requests that evaluate and     *)
(* execute protected actions against them                                  *)
(* (seller_agentguard_orchestrator.py, agentguard_repository.py).          *)
(*                                                                         *)
(* One action is one committed transaction, or the reads a READ COMMITTED  *)
(* transaction makes before its first write.  The protected effect runs    *)
(* between two transactions of the same request, holding no lock.          *)
(*                                                                         *)
(*   - a request hash (_hash of the bound action) is a member of Requests; *)
(*   - an approval has the id of the one decision it was issued for;       *)
(*   - a mandate payload is the verdict it gives each request;             *)
(*   - time is two sets: lapsed (decisions and their approvals past the    *)
(*     common ten-minute expiry) and stale (keys whose intent has not      *)
(*     moved for STALE_INTENT_RECLAIM_SECONDS).                            *)
(***************************************************************************)
EXTENDS Naturals, FiniteSets

CONSTANTS
    Requests,        \* request hashes of bound Seller actions
    RefundRequests,  \* those whose action is seller.refund.issue
    Keys,            \* (operation, idempotency key) pairs the client uses
    RefundKeys,      \* those of operation seller.refund.issue
    Decisions,       \* decision identifiers (bounds the evaluations)
    Runners,         \* requests the gateway serves at the same time
    Confirmers,      \* confirm_mandate transactions open at the same time
    Policies,        \* mandate payloads: verdict per request
    DefaultPolicy,   \* the payload ensure_agent activates
    MaxVersion,      \* bound on mandate versions
    CrashPoints,     \* where a request may die between its transactions
    NoRequest, NoKey, NoDecision

Verdicts == {"allow", "need_approval", "deny"}
Busy == {"evaluating", "refusing", "checked", "effect", "effected", "failing",
         "missing", "denied"}

ASSUME PolicyAssumption ==
    /\ Policies \subseteq [Requests -> Verdicts]
    /\ DefaultPolicy \in Policies
ASSUME BoundAssumption == MaxVersion \in Nat /\ MaxVersion >= 1
ASSUME OperationAssumption ==
    /\ RefundRequests \subseteq Requests
    /\ RefundKeys \subseteq Keys
    /\ CrashPoints \subseteq Busy
ASSUME NullAssumption ==
    /\ NoRequest \notin Requests
    /\ NoKey \notin Keys
    /\ NoDecision \notin Decisions

VARIABLES
    status,      \* agentguard_agents.status, "absent" before ensure_agent
    current,     \* agentguard_agents.current_mandate_version, 0 for NULL
    latest,      \* the highest mandate version inserted, 0 for none
    mandates,    \* mandates[v]: the row of version v
    confirming,  \* confirming[c]: the draft a confirm_mandate has read
    decisions,   \* decisions[d]
    approvals,   \* approvals[d]: the approval issued for decision d
    lapsed,      \* decisions past their expiry
    intents,     \* intents[k]: the execution intent of key k
    stale,       \* keys whose intent is older than the reclaim window
    receipts,    \* signed receipts
    runner       \* runner[r]: the request r is serving and how far it got

authority == <<status, current, latest, mandates, confirming>>
vars == <<status, current, latest, mandates, confirming, decisions, approvals,
          lapsed, intents, stale, receipts, runner>>

AgentStatus == {"absent", "active", "paused", "revoked"}
Versions == 1..MaxVersion
MandateRow == [status : {"absent", "draft", "active"}, policy : Policies]
Confirmation == [draft : 0..MaxVersion, policy : Policies]
DecisionRow == [status : Verdicts \cup {"absent"},
                req : Requests \cup {NoRequest}, ver : 0..MaxVersion]
ApprovalStatus == {"none", "issued", "consumed", "expired", "revoked"}
IntentRow == [status : {"absent", "executing", "succeeded", "failed"},
              req : Requests \cup {NoRequest},
              decision : Decisions \cup {NoDecision},
              result : Requests \cup {NoRequest}]
Receipt == [key : Keys \cup {NoKey}, decision : Decisions,
            req : Requests \cup {NoRequest}, outcome : {"succeeded", "denied"}]
RunnerState ==
    [pc : Busy \cup {"idle"},
     req : Requests \cup {NoRequest}, key : Keys \cup {NoKey},
     decision : Decisions \cup {NoDecision},
     verdict : Verdicts \cup {"absent"}, ver : 0..MaxVersion]

NoDecisionRow == [status |-> "absent", req |-> NoRequest, ver |-> 0]
NoIntent == [status |-> "absent", req |-> NoRequest,
             decision |-> NoDecision, result |-> NoRequest]
NotConfirming == [draft |-> 0, policy |-> DefaultPolicy]
IdleRunner == [pc |-> "idle", req |-> NoRequest, key |-> NoKey,
               decision |-> NoDecision, verdict |-> "absent", ver |-> 0]

TypeOK ==
    /\ status \in AgentStatus
    /\ current \in 0..MaxVersion
    /\ latest \in 0..MaxVersion
    /\ mandates \in [Versions -> MandateRow]
    /\ confirming \in [Confirmers -> Confirmation]
    /\ decisions \in [Decisions -> DecisionRow]
    /\ approvals \in [Decisions -> ApprovalStatus]
    /\ lapsed \in SUBSET Decisions
    /\ intents \in [Keys -> IntentRow]
    /\ stale \in SUBSET Keys
    /\ receipts \in SUBSET Receipt
    /\ runner \in [Runners -> RunnerState]

Init ==
    /\ status = "absent"
    /\ current = 0
    /\ latest = 0
    /\ mandates = [v \in Versions |-> [status |-> "absent", policy |-> DefaultPolicy]]
    /\ confirming = [c \in Confirmers |-> NotConfirming]
    /\ decisions = [d \in Decisions |-> NoDecisionRow]
    /\ approvals = [d \in Decisions |-> "none"]
    /\ lapsed = {}
    /\ intents = [k \in Keys |-> NoIntent]
    /\ stale = {}
    /\ receipts = {}
    /\ runner = [r \in Runners |-> IdleRunner]

-----------------------------------------------------------------------------
(* The owner: agent status and mandates.                                   *)

\* Variant: the UPDATE forgets AND status = 'issued'.
CloseAnyStatus(closing, to) ==
    [d \in Decisions |->
        IF approvals[d] # "none" /\ closing[d] THEN to ELSE approvals[d]]

\* Variant: the UPDATE writes the agent's status instead of its CASE.
CloseWithAgentStatus(closing, to) ==
    [d \in Decisions |->
        IF approvals[d] = "issued" /\ closing[d]
        THEN IF to = "expired" THEN "paused" ELSE to
        ELSE approvals[d]]

\* CASE of the UPDATE in set_agent_status and of the one in
\* create_mandate_version: only issued approvals are closed.
CloseIssued(closing, to) ==
    [d \in Decisions |->
        IF approvals[d] = "issued" /\ closing[d] THEN to ELSE approvals[d]]

\* ensure_agent: creates the agent and its first, already active mandate.
EnsureAgent ==
    /\ status = "absent"
    /\ status' = "active"
    /\ mandates' = [mandates EXCEPT ![1] = [status |-> "active", policy |-> DefaultPolicy]]
    /\ latest' = 1
    /\ current' = 1
    /\ UNCHANGED <<confirming, decisions, approvals, lapsed, intents, stale, receipts, runner>>

\* compile_mandate: a draft one version above the latest; authority is untouched.
\* Its revocation check belongs to the ensure_agent before it: a draft confers
\* nothing, so the two are one step here.
CompileMandate(policy) ==
    /\ status \in {"active", "paused"}
    /\ latest < MaxVersion
    /\ latest' = latest + 1
    /\ mandates' = [mandates EXCEPT ![latest + 1] = [status |-> "draft", policy |-> policy]]
    /\ UNCHANGED <<status, current, confirming, decisions, approvals, lapsed, intents,
                   stale, receipts, runner>>

\* confirm_mandate up to its INSERT: the latest row is a draft.
BeginConfirm(c) ==
    /\ confirming[c].draft = 0
    /\ latest > 0
    /\ mandates[latest].status = "draft"
    /\ confirming' = [confirming EXCEPT ![c] =
        [draft |-> latest, policy |-> mandates[latest].policy]]
    /\ UNCHANGED <<status, current, latest, mandates, decisions, approvals, lapsed,
                   intents, stale, receipts, runner>>

\* Variant: the version is upserted instead of inserted.
VersionAlwaysFree(c) == TRUE

\* The INSERT at draft + 1 violates the primary key when another transaction,
\* a compile or another confirmation, inserted that version after the read.
VersionFree(c) == latest = confirming[c].draft

\* The rest of confirm_mandate: the confirmed copy of the draft becomes the
\* current mandate and every approval issued under another version is revoked.
CommitConfirm(c) ==
    LET v == confirming[c].draft + 1 IN
    /\ confirming[c].draft > 0
    /\ v <= MaxVersion
    /\ VersionFree(c)
    /\ status # "revoked"
    /\ mandates' = [mandates EXCEPT ![v] = [status |-> "active", policy |-> confirming[c].policy]]
    /\ latest' = v
    /\ current' = v
    /\ approvals' = CloseIssued([d \in Decisions |-> decisions[d].ver # v], "revoked")
    /\ confirming' = [confirming EXCEPT ![c] = NotConfirming]
    /\ UNCHANGED <<status, decisions, lapsed, intents, stale, receipts, runner>>

\* The transaction rolls back: version taken, agent revoked, or process death.
AbortConfirm(c) ==
    /\ confirming[c].draft > 0
    /\ confirming' = [confirming EXCEPT ![c] = NotConfirming]
    /\ UNCHANGED <<status, current, latest, mandates, decisions, approvals, lapsed,
                   intents, stale, receipts, runner>>

\* set_agent_status: pause, resume, revoke.  A revoked agent stays revoked.
SetAgentStatus(new) ==
    /\ status # "absent"
    /\ status # "revoked" \/ new = "revoked"
    /\ status' = new
    /\ approvals' =
        IF new = "active" THEN approvals
        ELSE CloseIssued([d \in Decisions |-> TRUE],
                         IF new = "revoked" THEN "revoked" ELSE "expired")
    /\ UNCHANGED <<current, latest, mandates, confirming, decisions, lapsed, intents,
                   stale, receipts, runner>>

-----------------------------------------------------------------------------
(* evaluate: reads the agent and its mandate, then records the decision.   *)

\* The reads of evaluate; the verdict is computed from what they returned.
ReadAuthority(r, q) ==
    /\ runner[r].pc = "idle"
    /\ current > 0
    /\ \E d \in Decisions : decisions[d] = NoDecisionRow      \* bound
    /\ runner' = [runner EXCEPT ![r] =
        [IdleRunner EXCEPT
            !.pc = "evaluating", !.req = q, !.ver = current,
            !.verdict = IF status # "active" THEN "deny" ELSE mandates[current].policy[q]]]
    /\ UNCHANGED <<authority, decisions, approvals, lapsed, intents, stale, receipts>>

\* record_decision and, for need_approval, issue_approval; then COMMIT.
\* An execute call that evaluated for itself goes on to refuse a denial.
RecordDecision(r) ==
    /\ runner[r].pc = "evaluating"
    /\ \E d \in Decisions :
        /\ decisions[d] = NoDecisionRow
        /\ decisions' = [decisions EXCEPT ![d] =
            [status |-> runner[r].verdict, req |-> runner[r].req, ver |-> runner[r].ver]]
        /\ approvals' = IF runner[r].verdict = "need_approval"
                        THEN [approvals EXCEPT ![d] = "issued"] ELSE approvals
        /\ \/ runner' = [runner EXCEPT ![r] = IdleRunner]
           \/ /\ runner[r].verdict = "deny"
              /\ runner' = [runner EXCEPT ![r].pc = "refusing", ![r].decision = d]
    /\ UNCHANGED <<authority, lapsed, intents, stale, receipts>>

\* Variant: the outcome commits without its receipt.
WithoutReceipt(r, outcome) == receipts

\* record_receipt: append-only, never checked against the intent.
WithReceipt(r, outcome) ==
    receipts \cup {[key |-> runner[r].key, decision |-> runner[r].decision,
                    req |-> runner[r].req, outcome |-> outcome]}

\* _record_denied_receipt of a self-evaluated execute, which then raises.
RefuseDenied(r) ==
    /\ runner[r].pc = "refusing"
    /\ receipts' = WithReceipt(r, "denied")
    /\ runner' = [runner EXCEPT ![r] = IdleRunner]
    /\ UNCHANGED <<authority, decisions, approvals, lapsed, intents, stale>>

-----------------------------------------------------------------------------
(* execute: the checks and the claim (first transaction), the effect, and  *)
(* the outcome (second transaction).                                       *)

NeedsApproval(d) == decisions[d].status = "need_approval"

\* Variant: the expiry of the decision is not compared with the clock.
NeverExpires(d) == TRUE

\* _utcnow() against the decision's expires_at.
Unexpired(d) == d \notin lapsed

\* The reads of the first transaction, all of which must pass.
CheckRequest(r, d, k) ==
    /\ runner[r].pc = "idle"
    /\ decisions[d].status \in {"allow", "need_approval"}
    /\ (decisions[d].req \in RefundRequests) = (k \in RefundKeys)
    /\ Unexpired(d)
    /\ status = "active"
    /\ current = decisions[d].ver
    /\ runner' = [runner EXCEPT ![r] =
        [IdleRunner EXCEPT !.pc = "checked", !.req = decisions[d].req,
                           !.key = k, !.decision = d]]
    /\ UNCHANGED <<authority, decisions, approvals, lapsed, intents, stale, receipts>>

\* The WHERE clause of the reclaiming UPDATE.
Reclaimable(k) ==
    \/ intents[k].status = "failed"
    \/ k \notin RefundKeys /\ intents[k].status = "executing" /\ k \in stale

\* create_execution_intent answers created = True.
Claimable(k) == intents[k].status = "absent" \/ Reclaimable(k)

\* Variant: the UPDATE finds the approval by its id alone.
ConsumableById(d) == TRUE

\* The WHERE clause of the consuming UPDATE.  Its expires_at > NOW() is absent:
\* NOW() is the start of the transaction, before the clock that CheckRequest
\* read, so whatever passed there passes here, also when it lapsed while the
\* transaction waited for a row lock.
Consumable(d) ==
    /\ approvals[d] = "issued"
    /\ status = "active"
    /\ current = decisions[d].ver

MayClaim(r) ==
    /\ Claimable(runner[r].key)
    /\ NeedsApproval(runner[r].decision) => Consumable(runner[r].decision)

\* Variant: ON CONFLICT without the request_hash comparison.
MayJoinAnyRequest(r) ==
    ~Claimable(runner[r].key) /\ intents[runner[r].key].status = "executing"

\* The key is in flight for this very request and has no result yet.
MayJoin(r) ==
    /\ ~Claimable(runner[r].key)
    /\ intents[runner[r].key].status = "executing"
    /\ intents[runner[r].key].req = runner[r].req

\* Variant: the approval is looked at but not consumed.
SpendNothing(d) == approvals

\* consume_approval, which an allowed decision does not reach.
Spend(d) == IF NeedsApproval(d) THEN [approvals EXCEPT ![d] = "consumed"] ELSE approvals

\* created: bind the intent to this request, consume the approval, execute.
Claim(r) ==
    LET k == runner[r].key
        d == runner[r].decision
    IN
    /\ runner[r].pc = "checked"
    /\ MayClaim(r)
    /\ intents' = [intents EXCEPT ![k] =
        [status |-> "executing", req |-> runner[r].req,
         decision |-> d, result |-> NoRequest]]
    /\ approvals' = Spend(d)
    /\ stale' = stale \ {k}
    /\ runner' = [runner EXCEPT ![r].pc = "effect"]
    /\ UNCHANGED <<authority, decisions, lapsed, receipts>>

\* not created and no result: the duplicate runs the effect as well.
Join(r) ==
    /\ runner[r].pc = "checked"
    /\ MayJoin(r)
    /\ stale' = stale \ {runner[r].key}
    /\ runner' = [runner EXCEPT ![r].pc = "effect"]
    /\ UNCHANGED <<authority, decisions, approvals, lapsed, intents, receipts>>

\* The stored result is replayed, the key conflicts with another request, or
\* the approval is not consumable: the first transaction leaves no trace.  A
\* key that fails between the reclaiming UPDATE and the INSERT answers too.
AnswerWithoutEffect(r) ==
    /\ runner[r].pc = "checked"
    /\ ~MayJoin(r)
    /\ ~MayClaim(r) \/ intents[runner[r].key].status = "failed"
    /\ runner' = [runner EXCEPT ![r] = IdleRunner]
    /\ UNCHANGED <<authority, decisions, approvals, lapsed, intents, stale, receipts>>

\* _execute_effect: it returns, it raises, or a refund finds no such order.
RunEffect(r) ==
    /\ runner[r].pc = "effect"
    /\ \E outcome \in {"effected", "failing", "missing"} :
        /\ outcome = "missing" => runner[r].req \in RefundRequests
        /\ runner' = [runner EXCEPT ![r].pc = outcome]
    /\ UNCHANGED <<authority, decisions, approvals, lapsed, intents, stale, receipts>>

\* Variant: only success is recorded, a failed effect leaves "executing".
SettledOnlyOnSuccess(r, outcome) ==
    IF outcome = "failed" THEN intents
    ELSE [intents EXCEPT ![runner[r].key] =
             [@ EXCEPT !.status = outcome, !.result = runner[r].req]]

\* set_execution_intent_status: by intent id, whatever the row holds now.
SettledIntent(r, outcome) ==
    [intents EXCEPT ![runner[r].key] =
        [@ EXCEPT !.status = outcome, !.result = runner[r].req]]

\* The second transaction: the outcome and its receipt commit together.
Complete(r) ==
    /\ runner[r].pc = "effected"
    /\ intents' = SettledIntent(r, "succeeded")
    /\ receipts' = WithReceipt(r, "succeeded")
    /\ stale' = stale \ {runner[r].key}
    /\ runner' = [runner EXCEPT ![r] = IdleRunner]
    /\ UNCHANGED <<authority, decisions, approvals, lapsed>>

\* The first half of _fail_missing_order_refund: the denied receipt.
RecordMissingOrder(r) ==
    /\ runner[r].pc = "missing"
    /\ receipts' = WithReceipt(r, "denied")
    /\ runner' = [runner EXCEPT ![r].pc = "denied"]
    /\ UNCHANGED <<authority, decisions, approvals, lapsed, intents, stale>>

\* _release_failed_intent, or the second half of _fail_missing_order_refund.
ReleaseFailed(r) ==
    /\ runner[r].pc \in {"failing", "denied"}
    /\ intents' = SettledIntent(r, "failed")
    /\ stale' = stale \ {runner[r].key}
    /\ runner' = [runner EXCEPT ![r] = IdleRunner]
    /\ UNCHANGED <<authority, decisions, approvals, lapsed, receipts>>

\* Process death, cancellation, or a database error after the first
\* transaction: the request is gone, what it committed stays.
Crash(r) ==
    /\ runner[r].pc \in CrashPoints
    /\ runner' = [runner EXCEPT ![r] = IdleRunner]
    /\ UNCHANGED <<authority, decisions, approvals, lapsed, intents, stale, receipts>>

-----------------------------------------------------------------------------
(* Time.                                                                   *)

Lapse(d) ==
    /\ decisions[d] # NoDecisionRow
    /\ d \notin lapsed
    /\ lapsed' = lapsed \cup {d}
    /\ UNCHANGED <<authority, decisions, approvals, intents, stale, receipts, runner>>

\* No reclaim ever reads the age of a refund's intent.
AgeIntent(k) ==
    /\ k \notin RefundKeys
    /\ intents[k].status = "executing"
    /\ k \notin stale
    /\ stale' = stale \cup {k}
    /\ UNCHANGED <<authority, decisions, approvals, lapsed, intents, receipts, runner>>

-----------------------------------------------------------------------------
Owner ==
    \/ EnsureAgent
    \/ \E policy \in Policies : CompileMandate(policy)
    \/ \E c \in Confirmers : BeginConfirm(c) \/ CommitConfirm(c) \/ AbortConfirm(c)
    \/ \E new \in {"active", "paused", "revoked"} : SetAgentStatus(new)

\* What the gateway itself goes on with once a request has arrived.
Serve(r) ==
    \/ RecordDecision(r)
    \/ RefuseDenied(r)
    \/ Claim(r)
    \/ Join(r)
    \/ AnswerWithoutEffect(r)
    \/ RunEffect(r)
    \/ Complete(r)
    \/ RecordMissingOrder(r)
    \/ ReleaseFailed(r)

Arrive(r) ==
    \/ \E q \in Requests : ReadAuthority(r, q)
    \/ \E d \in Decisions, k \in Keys : CheckRequest(r, d, k)

Time ==
    \/ \E d \in Decisions : Lapse(d)
    \/ \E k \in Keys : AgeIntent(k)

Next ==
    \/ Owner
    \/ \E r \in Runners : Arrive(r) \/ Serve(r) \/ Crash(r)
    \/ Time

Spec == Init /\ [][Next]_vars

\* The event loop keeps running every request it has accepted.
FairSpec == Spec /\ \A r \in Runners : WF_vars(Serve(r))

-----------------------------------------------------------------------------
(* Properties.                                                             *)

\* Decision d is authority for request q: it allowed exactly q, or a human
\* approved exactly q and that approval has been spent.
Authorises(d, q) ==
    /\ decisions[d].req = q
    /\ \/ decisions[d].status = "allow"
       \/ /\ NeedsApproval(d)
          /\ approvals[d] = "consumed"

Executing(r) == runner[r].pc \in {"effect", "effected", "failing", "missing", "denied"}

\* No effect runs without authority for exactly its request, whoever claimed
\* the key: the duplicate that joins an in-flight intent relies on the
\* authority of the request that bound it, even after a crash or a reclaim.
EffectAuthorised ==
    \A r \in Runners : Executing(r) => \E d \in Decisions : Authorises(d, runner[r].req)

\* One approval binds at most one idempotency key, through failures, retries
\* and reclaims of either key (consumption and claim share a transaction).
ApprovalBindsOneKey ==
    \A k, l \in Keys :
        /\ intents[k].decision # NoDecision
        /\ intents[k].decision = intents[l].decision
        /\ NeedsApproval(intents[k].decision)
        => k = l

\* A succeeded intent always has the receipt of the result it will replay.
SucceededHasReceipt ==
    \A k \in Keys : intents[k].status = "succeeded" =>
        \E p \in receipts : /\ p.key = k
                            /\ p.req = intents[k].result
                            /\ p.outcome = "succeeded"

\* A request that read the clock while d was in time has d in hand.
InHand(d) == \E r \in Runners : runner[r].pc = "checked" /\ runner[r].decision = d

\* An approval nobody may spend any more.
Dead(d) == d \in lapsed /\ approvals[d] # "consumed" /\ ~InHand(d)

\* An approval is consumed in the transaction that binds a key to its request,
\* by an active agent under the mandate it was issued for: a pause, revocation
\* or new mandate that commits after the reads of the first transaction still
\* stops it.  Expiry does not stop a transaction that read the clock in time;
\* once no such transaction is left, a lapsed approval is never spent.
ConsumeUnderLiveAuthority ==
    [][\A d \in Decisions :
          /\ approvals[d] # "consumed" /\ approvals'[d] = "consumed" =>
              /\ status = "active" /\ current = decisions[d].ver
              /\ \E k \in Keys : /\ intents[k] # intents'[k]
                                 /\ intents'[k].decision = d
                                 /\ intents'[k].req = decisions[d].req
          /\ Dead(d) => Dead(d)']_vars

\* Mandate rows never change, and the mandate that becomes current is a copy of
\* the draft directly below it: a compile that slips between the reads and the
\* insert of confirm_mandate cannot get another payload activated, nor can a
\* second confirmation of the same draft overwrite the first.
ConfirmActivatesItsDraft ==
    [][/\ \A v \in Versions : mandates[v].status # "absent" => mandates'[v] = mandates[v]
       /\ current' # current /\ current > 0 =>
            /\ current' > current
            /\ mandates'[current'].status = "active"
            /\ mandates[current' - 1] = [status |-> "draft",
                                         policy |-> mandates'[current'].policy]]_vars

\* The result a key replays is the result of the request it is bound to, across
\* crashes, failures and reclaims by other requests, while requests run one at a
\* time.  (SuccessKeepsItsKey shows what overlapping requests do instead.)
ReplayMatchesRequest ==
    \A k \in Keys : intents[k].result # NoRequest => intents[k].result = intents[k].req

\* An effect that raised gives its key back: it does not stay "executing".
FailedEffectReleasesKey ==
    \A r \in Runners, k \in Keys :
        (runner[r].pc \in {"failing", "missing", "denied"} /\ runner[r].key = k)
            ~> (intents[k].status # "executing")

\* The approval column implements the one-time approval.
Approval == INSTANCE OneTimeApproval WITH Approvals <- Decisions, approval <- approvals
OneTime == Approval!Spec

\* A key that has succeeded is not handed to a different request (a test says
\* "A different request after success is still a key-reuse conflict").
SuccessKeepsItsKey ==
    [][\A k \in Keys :
          (\E p \in receipts : /\ p.key = k /\ p.outcome = "succeeded"
                               /\ p.req = intents[k].req)
          => intents'[k].req = intents[k].req]_vars

\* A receipt for an action that needed approval cites a spent approval (the
\* migration invariant "consumed once").
ReceiptCitesSpentApproval ==
    \A p \in receipts :
        p.outcome = "succeeded" /\ NeedsApproval(p.decision)
            => approvals[p.decision] = "consumed"
=============================================================================
