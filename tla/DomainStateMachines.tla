------------------------- MODULE DomainStateMachines -------------------------
(***************************************************************************)
(* The state machines every store of the gateway shares                    *)
(* (domain_state_machines.py): the edges of orders, returns and issues,    *)
(* and the walks that the network's callbacks take along them.             *)
(***************************************************************************)
LOCAL INSTANCE Naturals
LOCAL INSTANCE Sequences

OrderStatuses == {"prepared", "payment_pending", "payment_unknown", "payment_failed",
    "paid", "confirmed", "accepted", "rejected", "preparing", "shipped", "delivered",
    "fulfilled", "closed", "cancelled"}
OrderMoves ==
    ({"prepared"} \X {"payment_pending", "cancelled"})
    \cup ({"payment_pending"} \X {"paid", "payment_failed", "payment_unknown", "cancelled"})
    \cup ({"payment_unknown"} \X {"paid", "payment_failed", "cancelled"})
    \cup ({"paid"} \X {"accepted", "rejected", "confirmed", "cancelled"})
    \cup ({"confirmed"} \X {"preparing", "cancelled"})
    \cup ({"accepted"} \X {"fulfilled", "cancelled"})
    \cup ({"preparing"} \X {"shipped", "cancelled"})
    \cup {<<"fulfilled", "closed">>, <<"shipped", "delivered">>}

ReturnStatuses == {"requested", "approved", "rejected", "cancelled", "in_transit",
    "received", "refund_pending", "replacement_pending", "completed", "failed"}
ReturnMoves ==
    ({"requested"} \X {"approved", "rejected", "cancelled"})
    \cup ({"approved"} \X {"in_transit", "cancelled"})
    \cup {<<"in_transit", "received">>}
    \cup ({"received"} \X {"refund_pending", "replacement_pending"})
    \cup ({"refund_pending", "replacement_pending"} \X {"completed", "failed"})

IssueStatuses == {"open", "acknowledged", "escalated", "resolution_proposed",
    "accepted", "rejected", "closed"}
IssueMoves ==
    {<<"open", "acknowledged">>, <<"escalated", "resolution_proposed">>,
     <<"accepted", "closed">>}
    \cup ({"acknowledged"} \X {"resolution_proposed", "escalated"})
    \cup ({"resolution_proposed"} \X {"accepted", "rejected"})
    \cup ({"rejected"} \X {"acknowledged", "escalated"})

-----------------------------------------------------------------------------
(* The hops of _apply_retail_return, taken in order; each must be legal or *)
(* already reached.                                                        *)

ReturnPath == <<"requested", "approved", "in_transit", "received", "refund_pending",
                "completed">>
ReturnTargets == {ReturnPath[i] : i \in 1..Len(ReturnPath)}
Stage(target) == CHOOSE i \in 1..Len(ReturnPath) : ReturnPath[i] = target

\* Every walk sets out from "approved", also that of a return already past it,
\* which is therefore refused.
RefusesReturn(current, target) ==
    target # "requested" /\ current \notin {"requested", "approved"}
WalkReturn(current, target) ==
    IF RefusesReturn(current, target) \/ Stage(target) <= Stage(current)
    THEN current ELSE target

-----------------------------------------------------------------------------
(* apply_igm_legal_path: the hops of IGM_LEGAL_PATHS that are legal where  *)
(* the issue stands, the others skipped.                                   *)

IgmCodes == {"PROCESSING", "RESOLVED", "CLOSED", ""}
ApplyIgmLegalPath(current, code) ==
    IF code = "CLOSED" THEN "closed"
    ELSE IF code = "RESOLVED" /\ current \notin {"accepted", "closed"}
    THEN "resolution_proposed"
    ELSE IF code = "PROCESSING" /\ current \in {"open", "rejected"} THEN "acknowledged"
    ELSE current
=============================================================================
