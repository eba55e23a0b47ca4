--------------------------- MODULE DurableDelivery ---------------------------
(***************************************************************************)
(* What the ONDC inbox and outbox promise about a message, independent of  *)
(* workers, leases, retries and crashes: once accepted it is delivered or  *)
(* parked as a dead letter an operator can queue again; it is delivered    *)
(* only after its effect happened, and a delivered message stays so.       *)
(***************************************************************************)
CONSTANT Messages

VARIABLES
    stage,    \* stage[m]: where message m is
    done      \* messages whose effect has happened at least once

Stages == {"none", "queued", "delivered", "parked"}

TypeOK == stage \in [Messages -> Stages] /\ done \in SUBSET Messages

Init == stage = [m \in Messages |-> "none"] /\ done = {}

Move(m, from, to) ==
    /\ stage[m] = from
    /\ stage' = [stage EXCEPT ![m] = to]
    /\ UNCHANGED done

\* An attempt succeeds; one that lost its lease may do so late.
Happen(m) ==
    /\ stage[m] # "none"
    /\ done' = done \cup {m}
    /\ UNCHANGED stage

Accept(m) == Move(m, "none", "queued")
Deliver(m) == m \in done /\ Move(m, "queued", "delivered")
Park(m) == Move(m, "queued", "parked")
Recover(m) == Move(m, "parked", "queued")

Next == \E m \in Messages :
    Accept(m) \/ Happen(m) \/ Deliver(m) \/ Park(m) \/ Recover(m)

Spec == Init /\ [][Next]_<<stage, done>>
=============================================================================
