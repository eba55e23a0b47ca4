----------------------------- MODULE Aftersales -----------------------------
(***************************************************************************)
(* What an order promises once it is placed, whoever moves it (the Buyer,  *)
(* the Seller, a provider's callback): it takes one edge of its state      *)
(* machine at a time, its return only goes forward, it is refunded once,   *)
(* and a closed issue stays closed.                                        *)
(***************************************************************************)
EXTENDS DomainStateMachines, Naturals

CONSTANTS
    IssueIds,
    Starts       \* statuses an order may be in when it is first looked at

VARIABLES
    order,       \* commerce_orders.status
    return,      \* commerce_returns.status, "none" without a row
    refund,      \* commerce_refunds.status, "none" without a row
    issue        \* issue[i]: commerce_issues.status, "none" without a row

vars == <<order, return, refund, issue>>

Init ==
    /\ order \in Starts
    /\ return = "none"
    /\ refund = "none"
    /\ issue = [i \in IssueIds |-> "none"]

Forward(from, to) ==
    to \in ReturnTargets /\ (from = "none" \/ Stage(from) < Stage(to))

OrderStep == order' = order \/ <<order, order'>> \in OrderMoves
ReturnStep == return' = return \/ \E to \in ReturnTargets : Forward(return, to) /\ return' = to
RefundStep == refund' = refund \/ (refund = "none" /\ refund' \in {"pending", "succeeded"})
IssueStep(i) ==
    \/ issue'[i] = issue[i]
    \/ issue[i] = "none" /\ issue'[i] = "open"
    \/ issue[i] \notin {"none", "closed"} /\ issue'[i] \in IssueStatuses \ {"open"}

Next ==
    /\ OrderStep
    /\ ReturnStep
    /\ RefundStep
    /\ issue' \in [IssueIds -> IssueStatuses \cup {"none"}]
    /\ \A i \in IssueIds : IssueStep(i)

Spec == Init /\ [][Next]_vars

=============================================================================
