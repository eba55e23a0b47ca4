-------------------------- MODULE MCBuyerCheckout --------------------------
(***************************************************************************)
(* A small instance of BuyerCheckout: one quote that its mandate wants     *)
(* approved or not, bound for the agent or for the user in person.         *)
(***************************************************************************)
EXTENDS BuyerCheckout, TLC

CONSTANTS quote1, byAgent, byUser

MCActorOf == [x \in Requests |-> IF x = byUser THEN "user" ELSE "agent"]
MCQuoteOf == [x \in Requests |-> quote1]
\* Above and below the order limit.
MCLowLimit == [x \in Requests |-> "need_approval"]
MCHighLimit == [x \in Requests |-> "allow"]
MCPolicies == {MCLowLimit, MCHighLimit}

\* On the simulated rail the agent's concurrent calls, with two decisions under
\* one key or one decision under two keys; on the other a person's, with
\* concurrent confirmations and webhooks.
MCBounds == [x \in Rails |->
    IF x = "simulated"
    THEN [requests |-> {byAgent, byUser}, calls |-> 2, rows |-> 3,
          statuses |-> {"active", "paused"}, clock |-> TRUE]
    ELSE [requests |-> {byUser}, calls |-> 1, rows |-> 2, statuses |-> {},
          clock |-> FALSE]]

Symmetry == Permutations(Decisions) \cup Permutations(Keys) \cup Permutations(Runners)
                \cup Permutations(Payments) \cup Permutations(Callbacks)
=============================================================================
