---------------------------- MODULE BuyerActions ----------------------------
(***************************************************************************)
(* The protected actions of the Buyer's agent after checkout: cancelling   *)
(* an order, returning it, accepting a remedy.  Each is evaluated and      *)
(* claimed under BuyerAuthority's rows, then carried out, in a transaction *)
(* of its own, on an order that callbacks, the Seller and the network move *)
(* meanwhile, and recorded in a third (checkout_orchestrator.py).          *)
(*                                                                         *)
(* Reads that a READ COMMITTED transaction makes before it writes are a    *)
(* step of their own.  All actions act for the agent.                      *)
(***************************************************************************)
EXTENDS BuyerAuthority, Fulfilment, Issues

CONSTANTS
    KindOf,       \* the action a request asks for
    IssueOf,      \* the issue a remedy is accepted for
    Keys,         \* idempotency keys the client uses
    Runners,      \* calls the gateway serves at the same time
    Scenarios,    \* what happens to the order, and how much of it
    NoDecision

Kinds == {"cancel", "return", "remedy"}
ASSUME KindAssumption == KindOf \in [Requests -> Kinds]
ASSUME IssueAssumption == IssueOf \in [Requests -> IssueIds]
ASSUME ScenarioAssumption ==
    Scenarios \subseteq [start : [order : OrderStatuses, captured : BOOLEAN,
                                  rail : {"simulated", "razorpay_test"}],
                         retail : SUBSET RetailCallbacks,
                         logistics : SUBSET LogisticsCallbacks,
                         targets : SUBSET OrderStatuses,
                         requests : SUBSET Requests,
                         issues : SUBSET IssueIds]
ASSUME NullAssumption == NoKey \notin Keys /\ NoDecision \notin Decisions

VARIABLES
    scenario,
    intents,     \* intents[k]: the execution intent of key k
    receipts,    \* keys whose intent has a signed receipt
    runner       \* runner[r]: the call r is serving and how far it got

callVars == <<scenario, intents, receipts, runner>>
vars == <<authorityVars, fulfilmentVars, issueVars, callVars>>

NoIntent == [status |-> "absent", req |-> NoRequest, decision |-> NoDecision]
IdleRunner == [pc |-> "idle", req |-> NoRequest, key |-> NoKey,
               decision |-> NoDecision, verdict |-> "absent", ver |-> 0]

TypeOK ==
    /\ AuthorityTypeOK
    /\ FulfilmentTypeOK
    /\ IssuesTypeOK
    /\ scenario \in Scenarios
    /\ intents \in [Keys -> [status : {"absent", "executing", "succeeded"},
                             req : Requests \cup {NoRequest},
                             decision : Decisions \cup {NoDecision}]]
    /\ receipts \in SUBSET Keys
    /\ runner \in [Runners -> [pc : {"idle", "evaluating", "checked", "claimed", "verified"},
                               req : Requests \cup {NoRequest}, key : Keys \cup {NoKey},
                               decision : Decisions \cup {NoDecision},
                               verdict : Verdicts \cup {"absent"}, ver : 0..MaxVersion]]

Init ==
    /\ AuthorityInit
    /\ FulfilmentInit
    /\ IssuesInit
    /\ scenario \in Scenarios
    /\ order = scenario.start.order
    /\ captured = scenario.start.captured
    /\ rail = scenario.start.rail
    /\ intents = [k \in Keys |-> NoIntent]
    /\ receipts = {}
    /\ runner = [r \in Runners |-> IdleRunner]

AtStep(r, pc) == runner[r].pc = pc

-----------------------------------------------------------------------------
(* evaluate_protected_action.                                              *)

\* An agent that is not active is denied, and so is an action its mandate does
\* not name.
VerdictFor(q) == IF status = "active" THEN mandates[current].policy[q] ELSE "deny"

BeginEvaluate(r, q) ==
    /\ AtStep(r, "idle")
    /\ current > 0
    /\ runner' = [runner EXCEPT ![r] =
        [IdleRunner EXCEPT !.pc = "evaluating", !.req = q, !.ver = current,
                           !.verdict = VerdictFor(q)]]
    /\ UNCHANGED <<authorityVars, fulfilmentVars, issueVars, scenario, intents, receipts>>

RecordDecision(r, d) ==
    /\ AtStep(r, "evaluating")
    /\ InsertDecision(d, runner[r].verdict, runner[r].req, runner[r].ver)
    /\ runner' = [runner EXCEPT ![r] = IdleRunner]
    /\ UNCHANGED <<mandateVars, lapsed, fulfilmentVars, issueVars, scenario, intents, receipts>>

-----------------------------------------------------------------------------
(* execute_protected_action.                                               *)

\* Decision, agent and approval as read before the intent is inserted.
CheckAction(r, d, k) ==
    /\ AtStep(r, "idle")
    /\ decisions[d].status \in {"allow", "need_approval"}
    /\ Unexpired(d)
    /\ status = "active"
    /\ decisions[d].ver = current
    /\ runner' = [runner EXCEPT ![r] =
        [IdleRunner EXCEPT !.pc = "checked", !.req = decisions[d].req,
                           !.key = k, !.decision = d]]
    /\ UNCHANGED <<authorityVars, fulfilmentVars, issueVars, scenario, intents, receipts>>

\* created: the approval is consumed with the intent.
ClaimAction(r) ==
    LET k == runner[r].key
        d == runner[r].decision
    IN
    /\ AtStep(r, "checked")
    /\ intents[k] = NoIntent
    /\ NeedsApproval(d) => Consumable(d, "agent")
    /\ intents' = [intents EXCEPT ![k] =
        [status |-> "executing", req |-> runner[r].req, decision |-> d]]
    /\ approvals' = Spend(d)
    /\ runner' = [runner EXCEPT ![r].pc = "claimed"]
    /\ UNCHANGED <<mandateVars, decisions, lapsed, fulfilmentVars, issueVars, scenario,
                   receipts>>

\* The key is bound to this very request and has no result yet: the action is
\* tried again, on the approval that was consumed for it.
JoinAction(r) ==
    LET k == runner[r].key IN
    /\ AtStep(r, "checked")
    /\ intents[k].status = "executing"
    /\ intents[k].req = runner[r].req
    /\ runner' = [runner EXCEPT ![r].pc = "claimed"]
    /\ UNCHANGED <<authorityVars, fulfilmentVars, issueVars, scenario, intents, receipts>>

\* _execute_protected_effect; what raises leaves the intent executing.
RunEffect(r) ==
    LET q == runner[r].req
        i == IssueOf[q]
    IN
    /\ AtStep(r, "claimed")
    /\ \/ /\ KindOf[q] = "cancel"
          /\ TransitionOrder("cancelled", NoProvider)
          /\ UNCHANGED issueVars
       \/ /\ KindOf[q] = "return"
          /\ CreateReturn
          /\ UNCHANGED issueVars
       \/ /\ KindOf[q] = "remedy"
          /\ ~issues[i].protocol
          /\ CanAcceptRemedy(i)
          /\ AcceptRemedy(i)
          /\ UNCHANGED <<fulfilmentVars, binders>>
    /\ runner' = [runner EXCEPT ![r].pc = "verified"]
    /\ UNCHANGED <<authorityVars, scenario, intents, receipts>>

\* Last transaction: the result and its receipt.
RecordOutcome(r) ==
    /\ AtStep(r, "verified")
    /\ intents' = [intents EXCEPT ![runner[r].key].status = "succeeded"]
    /\ receipts' = receipts \cup {runner[r].key}
    /\ runner' = [runner EXCEPT ![r] = IdleRunner]
    /\ UNCHANGED <<authorityVars, fulfilmentVars, issueVars, scenario>>

\* A refusal rolls its transaction back; a process may also die in between.
Abandon(r) ==
    /\ ~AtStep(r, "idle")
    /\ runner' = [runner EXCEPT ![r] = IdleRunner]
    /\ UNCHANGED <<authorityVars, fulfilmentVars, issueVars, scenario, intents, receipts>>

-----------------------------------------------------------------------------

AuthorityNext ==
    /\ scenario.requests # {}
    /\ \/ EnsureAgent
       \/ \E policy \in Policies : CompileMandate(policy)
       \/ ConfirmMandate
       \/ \E new \in {"active", "paused"} : SetAgentStatus(new)
       \/ \E d \in Decisions : Lapse(d)
    /\ UNCHANGED <<fulfilmentVars, issueVars, callVars>>

CallStep(r) ==
    \/ \E q \in scenario.requests : BeginEvaluate(r, q)
    \/ \E d \in Decisions : RecordDecision(r, d)
    \/ \E d \in Decisions, k \in Keys : CheckAction(r, d, k)
    \/ ClaimAction(r)
    \/ JoinAction(r)
    \/ RunEffect(r)
    \/ RecordOutcome(r)
    \/ Abandon(r)

SellerStep ==
    \/ \E to \in scenario.targets :
        \/ TransitionOrder(to, NoProvider)
        \/ \E c \in scenario.logistics : TransitionOrder(to, c.bpp)
    \/ \E c \in scenario.logistics : Rebind(c.bpp)
    \/ \E key \in SellerKeys : IssueRefund(key)

CallbackStep ==
    \/ scenario.retail # {} /\ BindRetail
    \/ \E c \in scenario.retail :
        ApplyRetail(c) \/ ApplyRetailRefund(c) \/ ApplyRetailUnpaid(c)
    \/ \E c \in scenario.logistics : ApplyLogistics(c)
    \/ \E key \in SellerKeys \cup scenario.retail : LoseRefund(key)

OrderNext ==
    /\ SellerStep \/ CallbackStep \/ RecordPayment
    /\ UNCHANGED <<authorityVars, issueVars, callVars>>

IssueNext ==
    /\ \E i \in scenario.issues :
        \/ CreateIssue(i)
        \/ BeginBindIssue(i)
        \/ InsertProtocolIssue(i)
        \/ \E to \in IssueStatuses, owner, minutes \in BOOLEAN :
               UpdateIssue(i, to, owner, minutes)
        \/ \E code \in IgmCodes : NetworkEvent(i, code)
    /\ UNCHANGED <<authorityVars, fulfilmentVars, callVars>>

Next ==
    \/ AuthorityNext
    \/ \E r \in Runners : CallStep(r)
    \/ OrderNext
    \/ IssueNext

Spec == Init /\ [][Next]_vars

-----------------------------------------------------------------------------

\* The effect a request asks for is there, and stays.
EffectDone(q) ==
    \/ KindOf[q] = "cancel" /\ order = "cancelled"
    \/ KindOf[q] = "return" /\ return # "none"
    \/ KindOf[q] = "remedy" /\ issues[IssueOf[q]].status = "closed"

\* A receipt is of an action that happened, under an intent whose decision
\* allowed this request or was approved for it and spent, and no action has two:
\* although its effect, its outcome and its claim are three transactions,
\* duplicates join, processes die, and callbacks reach the order first.
ReceiptTrue ==
    /\ \A k \in receipts :
        /\ intents[k].status = "succeeded"
        /\ decisions[intents[k].decision].req = intents[k].req
        /\ Authorises(intents[k].decision)
        /\ EffectDone(intents[k].req)
    /\ \A j, k \in receipts :
        KindOf[intents[j].req] = KindOf[intents[k].req]
            /\ IssueOf[intents[j].req] = IssueOf[intents[k].req] => j = k

\* Everything above moves the order, its return, its refund and its issues as
\* Aftersales promises.
Abstract == INSTANCE Aftersales
    WITH Starts <- {s.start.order : s \in Scenarios}, refund <- refund.status,
         issue <- [i \in IssueIds |-> issues[i].status]
ImplementsAftersales == Abstract!Spec

=============================================================================
