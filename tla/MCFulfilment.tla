---------------------------- MODULE MCFulfilment ----------------------------
(***************************************************************************)
(* Small instances of BuyerActions: one order with the callbacks of two    *)
(* delivery providers, one with those of its network seller, and two that  *)
(* the Buyer's agent acts on while callbacks and issue messages arrive.    *)
(***************************************************************************)
EXTENDS BuyerActions, CallbackWalks, TLC

CONSTANTS pA, pB, cancelling, returning, accepting, i1, i2

Log(action, bpp, state, compliant, time) ==
    [action |-> action, bpp |-> bpp, state |-> state, compliant |-> compliant,
     insecure |-> FALSE, time |-> time]
Ret(action, state, code, settlement, time) ==
    [action |-> action, state |-> state, return |-> code, settlement |-> settlement,
     insecure |-> FALSE, time |-> time]

MCLogisticsCallbacks ==
    {Log("on_init", pA, "", FALSE, 1), Log("on_init", pB, "", TRUE, 0),
     Log("on_init", pB, "", FALSE, 2), Log("on_status", pA, "Agent-assigned", TRUE, -1),
     Log("on_update", pA, "Order-picked-up", TRUE, 2),
     Log("on_status", pB, "Delivered", TRUE, 3)}
Initiated == Ret("on_update", "", "Return_Initiated", "none", 0)
Cancelled == Ret("on_cancel", "Cancelled", "", "none", 0)
MCNetwork ==
    {Ret("on_confirm", "Accepted", "", "none", 1), Ret("on_status", "Completed", "", "none", 2),
     Ret("on_update", "", "Return_Approved", "none", 2),
     Ret("on_update", "", "Return_Picked", "none", 0),
     Ret("on_update", "", "Refunded", "none", 3),
     Ret("on_update", "", "Liquidated", "beyond", 0),
     Cancelled}
MCRetailCallbacks == MCNetwork \cup {Initiated}

MCScenarios ==
    {[start |-> [order |-> "payment_pending", captured |-> FALSE, rail |-> "simulated"],
      retail |-> {}, logistics |-> MCLogisticsCallbacks,
      targets |-> {"confirmed", "preparing", "shipped", "cancelled"}, requests |-> {},
      issues |-> {}],
     [start |-> [order |-> "payment_pending", captured |-> FALSE, rail |-> "razorpay_test"],
      retail |-> MCNetwork, logistics |-> {},
      targets |-> {"confirmed", "accepted", "fulfilled"}, requests |-> {}, issues |-> {}],
     [start |-> [order |-> "delivered", captured |-> TRUE, rail |-> "simulated"],
      retail |-> {Initiated}, logistics |-> {}, targets |-> {},
      requests |-> {returning}, issues |-> {}],
     [start |-> [order |-> "delivered", captured |-> TRUE, rail |-> "simulated"],
      retail |-> {}, logistics |-> {}, targets |-> {},
      requests |-> {accepting}, issues |-> {i1}],
     [start |-> [order |-> "delivered", captured |-> TRUE, rail |-> "simulated"],
      retail |-> {}, logistics |-> {}, targets |-> {}, requests |-> {}, issues |-> {i1, i2}],
     [start |-> [order |-> "paid", captured |-> TRUE, rail |-> "simulated"],
      retail |-> {Cancelled}, logistics |-> {}, targets |-> {"confirmed", "preparing"},
      requests |-> {cancelling}, issues |-> {}]}

MCKindOf == [x \in Requests |-> IF x = cancelling THEN "cancel"
                                ELSE IF x = returning THEN "return" ELSE "remedy"]
MCIssueOf == [x \in Requests |-> i1]
MCActorOf == [x \in Requests |-> "agent"]
\* Above and below the limit of the mandate.
MCLowLimit == [x \in Requests |-> "need_approval"]
MCHighLimit == [x \in Requests |-> "allow"]
MCPolicies == {MCLowLimit, MCHighLimit}

Symmetry == Permutations(Decisions) \cup Permutations(Keys) \cup Permutations(Runners)
=============================================================================
