------------------------- MODULE MCAgentGuardSeller -------------------------
(***************************************************************************)
(* Small instances of AgentGuardSeller.                                    *)
(*  - concurrent: dispatch a, which always needs approval, two keys, two   *)
(*    evaluations and two requests served at the same time;                *)
(*  - retry: refunds b and f that reuse one key, served one at a time with *)
(*    crashes and missing orders, under two mandate payloads;              *)
(*  - success and spend: the overlapping requests of the two findings.     *)
(***************************************************************************)
EXTENDS AgentGuardSeller, TLC

CONSTANTS f, a, b

\* The payload of ensure_agent asks approval for the refund f and for a.
MCDefaultPolicy == [q \in Requests |-> IF q = b THEN "allow" ELSE "need_approval"]
\* Another payload, with the verdicts traded around.
MCOtherPolicy == [q \in Requests |->
    CASE q = a -> "allow" [] q = b -> "deny" [] q = f -> "allow"]
MCOnePolicy == {MCDefaultPolicy}
MCTwoPolicies == {MCDefaultPolicy, MCOtherPolicy}

\* A crash while the effect runs leaves the same rows as one just before or
\* just after it; earlier crashes leave none.
CrashInEffect == {"effect"}

Symmetry == Permutations(Decisions) \cup Permutations(Runners) \cup Permutations(Keys)
=============================================================================
