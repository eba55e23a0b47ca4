--------------------------- MODULE OneTimeApproval ---------------------------
(***************************************************************************)
(* What AgentGuard promises about an approval, independent of agents,      *)
(* mandates, keys and concurrent requests: it is issued once, it leaves    *)
(* "issued" at most once, and what it became is final.  The transitions    *)
(* are those of the "approval" machine of domain_state_machines.py; a      *)
(* pause, a revocation or a new mandate may close many approvals at once,  *)
(* but one step consumes at most one of them.                              *)
(***************************************************************************)
CONSTANT Approvals      \* the approval identifiers

VARIABLE approval       \* approval[a]: the status of approval a

ApprovalStatus == {"none", "issued", "consumed", "expired", "revoked"}

TypeOK == approval \in [Approvals -> ApprovalStatus]

Init == approval = [a \in Approvals |-> "none"]

Issue(a) ==
    /\ approval[a] = "none"
    /\ approval' = [approval EXCEPT ![a] = "issued"]

Consume(a) ==
    /\ approval[a] = "issued"
    /\ approval' = [approval EXCEPT ![a] = "consumed"]

\* Every approval of A is still issued and all of them close the same way.
Close(A, status) ==
    /\ \A a \in A : approval[a] = "issued"
    /\ approval' = [a \in Approvals |-> IF a \in A THEN status ELSE approval[a]]

Next ==
    \/ \E a \in Approvals : Issue(a) \/ Consume(a)
    \/ \E A \in SUBSET Approvals : Close(A, "expired") \/ Close(A, "revoked")

Spec == Init /\ [][Next]_approval
=============================================================================
